------------------------------- MODULE WasmPool -------------------------------
(***************************************************************************)
(* The guest execution pool of booster (src/booster/src/pool.rs).          *)
(*                                                                         *)
(* Each request task runs WasmPool::run: it waits for a permit of the      *)
(* tokio semaphore, samples the generation counter, pops a PooledStore     *)
(* from the LIFO free list under the free-list mutex, recycles the store   *)
(* after MAX_STORE_INSTANTIATIONS, reads the current module under the      *)
(* read lock, instantiates it (retrying once on a fresh store when         *)
(* wasmtime reports its instance ceiling), runs _start, and finally drops  *)
(* the Lease, which pushes the store back tagged with the generation the   *)
(* lease sampled and releases the permit.                                  *)
(*                                                                         *)
(* The updater runs WasmPool::update_module: three separate steps (write   *)
(* the module under the write lock, bump the atomic generation, clear the  *)
(* free list under the mutex), each atomic on its own.                     *)
(*                                                                         *)
(* A wasmtime Store is a number in Stores; inst[s] is the number of        *)
(* instances wasmtime holds in store s, which is what its internal         *)
(* ceiling (InstanceLimit) is checked against.  The pool's own counter is  *)
(* the lease's `instantiations` field.                                     *)
(***************************************************************************)
EXTENDS Naturals, Sequences, FiniteSets, SequencesExt

CONSTANTS
    Tasks,          \* request tasks that call WasmPool::run
    Modules,        \* compiled modules the updater may publish
    PoolMaxEnv,     \* BOOSTER_POOL_MAX parsed: {n}, or {} when unset or not a usize
    MaxStoreInst,   \* MAX_STORE_INSTANTIATIONS (1000 in the code)
    InstanceLimit,  \* wasmtime's per-store instance ceiling
    NStores,        \* number of store identities available to the model
    MaxGen          \* bound on the number of module updates

\* AppState::new: the parsed BOOSTER_POOL_MAX, or 8 when it is unset or does
\* not parse as a usize.
PoolMaxSetting(v) == IF v = {} THEN 8 ELSE CHOOSE n \in v : TRUE

\* WasmPool::new: the semaphore's permits, max_concurrency.max(1).
MaxConcurrency ==
    IF PoolMaxSetting(PoolMaxEnv) < 1 THEN 1 ELSE PoolMaxSetting(PoolMaxEnv)

ASSUME /\ PoolMaxEnv \subseteq Nat /\ Cardinality(PoolMaxEnv) <= 1
       /\ MaxStoreInst \in Nat \ {0}
       /\ InstanceLimit \in Nat \ {0}
       /\ NStores > MaxConcurrency
       /\ MaxGen \in Nat

Stores  == 1..NStores
NoStore == 0

VARIABLES
    permits,     \* available permits of the semaphore
    waiters,     \* FIFO queue of tasks waiting in acquire_owned
    module,      \* the Arc<Module> behind the RwLock
    moduleVer,   \* number of module writes so far (history variable)
    generation,  \* the AtomicU64 generation counter
    free,        \* Vec<PooledStore>: the LIFO free list
    inst,        \* wasmtime's instance count of every store
    pc,          \* control point of each request task
    lease,       \* the Lease held by each task
    upd,         \* control point of update_module (0 = not running)
    newMod       \* the module being published by update_module

poolVars == <<permits, waiters, module, moduleVer, generation, free, inst>>
taskVars == <<pc, lease>>
updVars  == <<upd, newMod>>
vars     == <<poolVars, taskVars, updVars>>

PooledStore == [store: Stores, generation: 0..MaxGen, instantiations: Nat]
LeaseRec    == [store: Stores \cup {NoStore}, generation: 0..MaxGen,
                instantiations: Nat, modVer: 0..MaxGen]
NoLease     == [store |-> NoStore, generation |-> 0, instantiations |-> 0,
                modVer |-> 0]

\* Control points that hold a semaphore permit.
Holding == {"sample", "pop", "prepare", "instantiate", "running"}
\* Control points that hold a store.
HasStore == {"prepare", "instantiate", "running"}

\* The stores currently owned by the free list or by a lease.
InUse == {free[i].store : i \in DOMAIN free}
         \cup {lease[t].store : t \in {u \in Tasks : pc[u] \in HasStore}}

\* Store::new: some store identity not owned by anyone.
NewStore == CHOOSE s \in Stores : s \notin InUse

\* update_module with the generation bumped before the module is written.
UpdateOrderSwapped == <<"generation", "module", "free">>

\* The order of the three steps of update_module.
UpdateOrder == <<"module", "generation", "free">>

-----------------------------------------------------------------------------
Init ==
    /\ permits = MaxConcurrency
    /\ waiters = <<>>
    /\ module \in Modules
    /\ moduleVer = 0
    /\ generation = 0
    /\ free = <<>>
    /\ inst = [s \in Stores |-> 0]
    /\ pc = [t \in Tasks |-> "idle"]
    /\ lease = [t \in Tasks |-> NoLease]
    /\ upd = 0
    /\ newMod \in Modules

\* run_handler calls pool.run, which calls lease(), which waits on the
\* semaphore.
StartRun(t) ==
    /\ pc[t] = "idle"
    /\ pc' = [pc EXCEPT ![t] = "permit"]
    /\ waiters' = Append(waiters, t)
    /\ UNCHANGED <<permits, module, moduleVer, generation, free, inst,
                   lease, updVars>>

\* An unfair semaphore: any waiter may take a released permit.
AcquirePermitBarging(t) ==
    /\ pc[t] = "permit"
    /\ permits > 0
    /\ permits' = permits - 1
    /\ waiters' = SelectSeq(waiters, LAMBDA u : u # t)
    /\ pc' = [pc EXCEPT ![t] = "sample"]
    /\ UNCHANGED <<module, moduleVer, generation, free, inst, lease, updVars>>

\* acquire_owned on tokio's fair semaphore: the oldest waiter is served
\* first, and only when a permit is available.
AcquirePermit(t) ==
    /\ pc[t] = "permit"
    /\ waiters # <<>> /\ Head(waiters) = t
    /\ permits > 0
    /\ permits' = permits - 1
    /\ waiters' = Tail(waiters)
    /\ pc' = [pc EXCEPT ![t] = "sample"]
    /\ UNCHANGED <<module, moduleVer, generation, free, inst, lease,
                   updVars>>

\* let generation = self.generation.load(SeqCst)
SampleGeneration(t) ==
    /\ pc[t] = "sample"
    /\ lease' = [lease EXCEPT ![t].generation = generation]
    /\ pc' = [pc EXCEPT ![t] = "pop"]
    /\ UNCHANGED <<poolVars, updVars>>

\* A lease() that peeks at the top store (last()) instead of popping it.
PopFreePeek(t) ==
    LET g     == lease[t].generation
        reuse == free # <<>> /\ Last(free).generation = g
        s     == IF reuse THEN Last(free).store ELSE NewStore
    IN /\ pc[t] = "pop"
       /\ lease' = [lease EXCEPT ![t].store = s,
                      ![t].instantiations = IF reuse
                                            THEN Last(free).instantiations
                                            ELSE 0]
       /\ inst' = IF reuse THEN inst ELSE [inst EXCEPT ![s] = 0]
       /\ pc' = [pc EXCEPT ![t] = "prepare"]
       /\ UNCHANGED <<permits, waiters, module, moduleVer, generation, free,
                      updVars>>

\* Under the free-list mutex: pop the top store; reuse it when its tag equals
\* the sampled generation, otherwise drop it and build a fresh store.
PopFree(t) ==
    LET g     == lease[t].generation
        reuse == free # <<>> /\ Last(free).generation = g
        rest  == IF free = <<>> THEN free ELSE Front(free)
        s     == IF reuse THEN Last(free).store ELSE NewStore
    IN /\ pc[t] = "pop"
       /\ free' = rest
       /\ lease' = [lease EXCEPT ![t].store = s,
                      ![t].instantiations = IF reuse
                                            THEN Last(free).instantiations
                                            ELSE 0]
       /\ inst' = IF reuse THEN inst ELSE [inst EXCEPT ![s] = 0]
       /\ pc' = [pc EXCEPT ![t] = "prepare"]
       /\ UNCHANGED <<permits, waiters, module, moduleVer, generation,
                      updVars>>

\* Recycle a store that reached MAX_STORE_INSTANTIATIONS, install the fresh
\* WASI context and fuel (task-local), then clone the module under the read
\* lock.
ReadModule(t) ==
    LET recycle == lease[t].instantiations >= MaxStoreInst
        s       == IF recycle THEN NewStore ELSE lease[t].store
    IN /\ pc[t] = "prepare"
       /\ lease' = [lease EXCEPT ![t].store = s,
                      ![t].instantiations = IF recycle THEN 0
                                            ELSE lease[t].instantiations,
                      ![t].modVer = moduleVer]
       /\ inst' = IF recycle THEN [inst EXCEPT ![s] = 0] ELSE inst
       /\ pc' = [pc EXCEPT ![t] = "instantiate"]
       /\ UNCHANGED <<permits, waiters, module, moduleVer, generation, free,
                      updVars>>

\* A Drop that leaks the permit (e.g. the permit forgotten, not dropped).
DropLeaseKeepsPermit(t, s, n) ==
    /\ free' = Append(free, [store |-> s, generation |-> lease[t].generation,
                             instantiations |-> n])
    /\ permits' = permits
    /\ pc' = [pc EXCEPT ![t] = "idle"]
    /\ lease' = [lease EXCEPT ![t] = NoLease]

\* A Drop that releases the permit and also adds one back explicitly.
DropLeaseDoubleRelease(t, s, n) ==
    /\ free' = Append(free, [store |-> s, generation |-> lease[t].generation,
                             instantiations |-> n])
    /\ permits' = permits + 2
    /\ pc' = [pc EXCEPT ![t] = "idle"]
    /\ lease' = [lease EXCEPT ![t] = NoLease]

\* Drop for Lease: push the store back tagged with the lease's generation and
\* instantiation count, then release the permit.
DropLease(t, s, n) ==
    /\ free' = Append(free, [store |-> s, generation |-> lease[t].generation,
                             instantiations |-> n])
    /\ permits' = permits + 1
    /\ pc' = [pc EXCEPT ![t] = "idle"]
    /\ lease' = [lease EXCEPT ![t] = NoLease]

\* instantiate_async succeeded on store s whose instance counts are given by
\* base: the lease's count is incremented (it stays far below u32::MAX).
Instantiated(t, s, n, base) ==
    /\ base[s] < InstanceLimit
    /\ inst' = [base EXCEPT ![s] = @ + 1]
    /\ lease' = [lease EXCEPT ![t].store = s, ![t].instantiations = n + 1]
    /\ pc' = [pc EXCEPT ![t] = "running"]
    /\ UNCHANGED <<permits, free>>

\* instantiate_async failed for another reason (a trap in the start
\* function, a memory-mapping failure): the error is returned and the lease
\* dropped.  Whether wasmtime had already registered the instance in the
\* store depends on where it failed, so both counts are possible.
OtherFailure(t, s, n, base) ==
    /\ base[s] < InstanceLimit
    /\ \E bump \in {0, 1} : inst' = [base EXCEPT ![s] = @ + bump]
    /\ DropLease(t, s, n)

\* A retry that forgets to reset the lease's count (pool.rs line 240).
InstantiateRetryKeepsCount(t) ==
    LET s == lease[t].store
        n == lease[t].instantiations
    IN /\ pc[t] = "instantiate"
       /\ \/ Instantiated(t, s, n, inst)
          \/ OtherFailure(t, s, n, inst)
          \/ /\ inst[s] >= InstanceLimit
             /\ LET r == NewStore
                    base == [inst EXCEPT ![r] = 0]
                IN \/ Instantiated(t, r, n, base)
                   \/ OtherFailure(t, r, n, base)
       /\ UNCHANGED <<waiters, module, moduleVer, generation, updVars>>

\* linker.instantiate_async; on "instance count too high" the store is
\* replaced by a fresh one, the count reset, and instantiation retried once.
Instantiate(t) ==
    LET s == lease[t].store
        n == lease[t].instantiations
    IN /\ pc[t] = "instantiate"
       /\ \/ Instantiated(t, s, n, inst)
          \/ OtherFailure(t, s, n, inst)
          \/ /\ inst[s] >= InstanceLimit
             /\ LET r == NewStore
                    base == [inst EXCEPT ![r] = 0]
                IN \/ Instantiated(t, r, 0, base)
                   \/ OtherFailure(t, r, 0, base)
       /\ UNCHANGED <<waiters, module, moduleVer, generation, updVars>>

\* _start returns or traps; either way run returns and the lease is dropped.
Finish(t) ==
    /\ pc[t] = "running"
    /\ DropLease(t, lease[t].store, lease[t].instantiations)
    /\ UNCHANGED <<waiters, module, moduleVer, generation, inst,
                   updVars>>

-----------------------------------------------------------------------------
\* The reload task calls update_module(m).
UpdateModule(m) ==
    /\ upd = 0
    /\ generation < MaxGen
    /\ upd' = 1
    /\ newMod' = m
    /\ UNCHANGED <<poolVars, taskVars>>

NextUpd == IF upd = Len(UpdateOrder) THEN 0 ELSE upd + 1

\* *self.module.write().await = Arc::new(module)
UpdWriteModule ==
    /\ upd > 0 /\ UpdateOrder[upd] = "module"
    /\ module' = newMod
    /\ moduleVer' = moduleVer + 1
    /\ upd' = NextUpd
    /\ UNCHANGED <<permits, waiters, generation, free, inst, taskVars, newMod>>

\* self.generation.fetch_add(1, SeqCst)
UpdBumpGeneration ==
    /\ upd > 0 /\ UpdateOrder[upd] = "generation"
    /\ generation' = generation + 1
    /\ upd' = NextUpd
    /\ UNCHANGED <<permits, waiters, module, moduleVer, free, inst, taskVars,
                   newMod>>

\* self.free.lock().unwrap().clear()
UpdClearFree ==
    /\ upd > 0 /\ UpdateOrder[upd] = "free"
    /\ free' = <<>>
    /\ upd' = NextUpd
    /\ UNCHANGED <<permits, waiters, module, moduleVer, generation, inst,
                   taskVars, newMod>>

-----------------------------------------------------------------------------
TaskStep(t) ==
    \/ StartRun(t)
    \/ AcquirePermit(t)
    \/ SampleGeneration(t)
    \/ PopFree(t)
    \/ ReadModule(t)
    \/ Instantiate(t)
    \/ Finish(t)

UpdStep == UpdWriteModule \/ UpdBumpGeneration \/ UpdClearFree

Next ==
    \/ \E t \in Tasks : TaskStep(t)
    \/ \E m \in Modules : UpdateModule(m)
    \/ UpdStep

\* Every step of an admitted request is taken eventually (the guest's _start
\* is assumed to return); a client need not send a request, so StartRun is
\* not fair.  The updater, once called, completes.
Fairness ==
    /\ \A t \in Tasks :
          WF_vars(AcquirePermit(t) \/ SampleGeneration(t) \/ PopFree(t)
                  \/ ReadModule(t) \/ Instantiate(t) \/ Finish(t))
    /\ WF_vars(UpdStep)

Spec == Init /\ [][Next]_vars /\ Fairness

\* The refinement mapping to PoolService: a task waiting on the semaphore is
\* queued, a task holding a permit before its module read is admitted, and
\* from the read under the RwLock until the Lease is dropped it is bound to
\* the publication it read.  Stores, generations and the free list are
\* internal: their steps are stuttering steps of PoolService.
ServiceState(t) ==
    CASE pc[t] = "idle"                      -> "idle"
      [] pc[t] = "permit"                    -> "queued"
      [] pc[t] \in {"sample", "pop", "prepare"} -> "admitted"
      [] OTHER                               -> "bound"

Service == INSTANCE PoolService
               WITH st <- [t \in Tasks |-> ServiceState(t)],
                    queue <- waiters,
                    ver <- moduleVer,
                    bound <- [t \in Tasks |-> lease[t].modVer],
                    MaxVer <- MaxGen

-----------------------------------------------------------------------------
(* Properties *)

TypeOK ==
    /\ permits \in 0..MaxConcurrency
    /\ waiters \in Seq(Tasks)
    /\ module \in Modules /\ newMod \in Modules
    /\ moduleVer \in 0..MaxGen /\ generation \in 0..MaxGen
    /\ free \in Seq(PooledStore)
    /\ inst \in [Stores -> 0..InstanceLimit]
    /\ pc \in [Tasks -> {"idle", "permit"} \cup Holding]
    /\ lease \in [Tasks -> LeaseRec]
    /\ upd \in 0..Len(UpdateOrder)

\* Permits are conserved: every permit is either available or held by exactly
\* one task between acquire_owned and the drop of its Lease, on the success
\* path and on every error path of run.  In particular no more than
\* MaxConcurrency guests are ever leased at once (spec section 8, item 1).
PermitsConserved ==
    permits + Cardinality({t \in Tasks : pc[t] \in Holding}) = MaxConcurrency

\* Every store is owned by exactly one party: no store appears twice in the
\* free list, no two leases share a store, no leased store is also pooled,
\* and the pool never owns more than MaxConcurrency stores.
StoreOwnership ==
    LET leased == {t \in Tasks : pc[t] \in HasStore}
    IN /\ \A i, j \in DOMAIN free : i # j => free[i].store # free[j].store
       /\ \A t, u \in leased : t # u => lease[t].store # lease[u].store
       /\ \A t \in leased, i \in DOMAIN free : lease[t].store # free[i].store
       /\ Len(free) + Cardinality(leased) <= MaxConcurrency

\* The pool's instantiation count of a store never exceeds the instances
\* wasmtime holds in it, for leased and pooled stores alike: the count a
\* store is pushed back with belongs to that store, across recycling, the
\* retry on a fresh store after "instance count too high", and failed
\* instantiations that leave instances behind.
StoreCounterSound ==
    /\ \A t \in Tasks :
          pc[t] \in HasStore => lease[t].instantiations <= inst[lease[t].store]
    /\ \A i \in DOMAIN free : free[i].instantiations <= inst[free[i].store]

\* A lease never instantiates a module published before the generation it
\* sampled, so a store tagged with generation g only ever hosts modules of
\* generation g or later (update_module writes the module before it bumps
\* the generation, and run reads the module after it samples the generation).
ModuleNotOlderThanTag ==
    \A t \in Tasks :
        pc[t] \in {"instantiate", "running"} =>
            lease[t].modVer >= lease[t].generation

\* Every request admitted to the semaphore queue eventually returns (given
\* that guests return): the fair semaphore serves every waiter.
RequestCompletes ==
    \A t \in Tasks : pc[t] = "permit" ~> pc[t] = "idle"

\* The pool implements PoolService: requests are admitted in arrival order
\* and never more than MaxConcurrency at once, each run uses the module that
\* is current when it reads it, and every admitted request completes.
ImplementsPoolService == Service!Spec

\* Spec section 5: readers see the old module with the old generation or the
\* new module with the new generation, never a mix.  run samples the
\* generation in lease() and reads the module later, so it is a claim about
\* the pair a lease ends up with.
NoTearing ==
    \A t \in Tasks :
        pc[t] \in {"instantiate", "running"} =>
            lease[t].modVer = lease[t].generation

\* Spec section 3: a PooledStore whose tag differs from the pool's current
\* generation is never reused.  lease() compares the tag with the generation
\* it sampled before taking the free-list lock.
StaleStoreNotReused ==
    [][\A t \in Tasks :
         (/\ pc[t] = "pop" /\ free # <<>>
          /\ Last(free).generation = lease[t].generation)
         => Last(free).generation = generation]_vars

=============================================================================
