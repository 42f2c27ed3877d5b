------------------------------ MODULE PoolService ------------------------------
(***************************************************************************)
(* What the execution pool promises its callers (spec section 4.1 and      *)
(* section 5), without stores, generations or the free list.               *)
(*                                                                         *)
(* A request arrives and queues.  Requests are admitted in arrival order   *)
(* while fewer than MaxConcurrency are admitted.  An admitted request is    *)
(* bound, in one step, to the module current at that moment.  It then      *)
(* completes.  Independently, new modules are published.  WasmPool          *)
(* implements this specification (see WasmPool's refinement mapping).      *)
(***************************************************************************)
EXTENDS Naturals, Sequences, FiniteSets

CONSTANTS
    Tasks,           \* the callers of run
    MaxConcurrency,  \* the number of requests admitted at once
    MaxVer           \* bound on the number of publications

VARIABLES
    st,      \* st[t]: "idle", "queued", "admitted" or "bound"
    queue,   \* the requests waiting for admission, oldest first
    ver,     \* the number of modules published so far
    bound    \* bound[t]: the publication request t runs (0 when not bound)

vars == <<st, queue, ver, bound>>

Active == {t \in Tasks : st[t] \in {"admitted", "bound"}}

Init ==
    /\ st = [t \in Tasks |-> "idle"]
    /\ queue = <<>>
    /\ ver = 0
    /\ bound = [t \in Tasks |-> 0]

Arrive(t) ==
    /\ st[t] = "idle"
    /\ st' = [st EXCEPT ![t] = "queued"]
    /\ queue' = Append(queue, t)
    /\ UNCHANGED <<ver, bound>>

Admit(t) ==
    /\ st[t] = "queued"
    /\ queue # <<>> /\ Head(queue) = t
    /\ Cardinality(Active) < MaxConcurrency
    /\ st' = [st EXCEPT ![t] = "admitted"]
    /\ queue' = Tail(queue)
    /\ UNCHANGED <<ver, bound>>

Bind(t) ==
    /\ st[t] = "admitted"
    /\ st' = [st EXCEPT ![t] = "bound"]
    /\ bound' = [bound EXCEPT ![t] = ver]
    /\ UNCHANGED <<queue, ver>>

Complete(t) ==
    /\ st[t] = "bound"
    /\ st' = [st EXCEPT ![t] = "idle"]
    /\ bound' = [bound EXCEPT ![t] = 0]
    /\ UNCHANGED <<queue, ver>>

Publish ==
    /\ ver < MaxVer
    /\ ver' = ver + 1
    /\ UNCHANGED <<st, queue, bound>>

Next ==
    \/ \E t \in Tasks : Arrive(t) \/ Admit(t) \/ Bind(t) \/ Complete(t)
    \/ Publish

\* Admitted requests make progress; nobody has to send a request or publish.
Spec ==
    /\ Init /\ [][Next]_vars
    /\ \A t \in Tasks : WF_vars(Admit(t)) /\ WF_vars(Bind(t)) /\ WF_vars(Complete(t))

=============================================================================
