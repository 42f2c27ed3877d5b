----------------------------- MODULE MC_WasmPool -----------------------------
(***************************************************************************)
(* Model-checking instance of WasmPool: three request tasks, two permits,  *)
(* recycling after two instantiations and a wasmtime ceiling of three, so  *)
(* that the pre-emptive recycling and the retry path are both reached.     *)
(* The pool never looks inside a module, so one module value, republished, *)
(* is enough: moduleVer tells the publications apart.                      *)
(***************************************************************************)
EXTENDS WasmPool, TLC

CONSTANTS t1, t2, t3, mA

MCTasks   == {t1, t2, t3}
MCModules == {mA}

\* Liveness is checked with two tasks contending for a single permit.
LiveTasks == {t1, t2}

TaskSymmetry == Permutations(MCTasks)

\* A destroyed store's instance count is never read again (Store::new resets
\* it), so states that differ only there are the same state.
LiveView == <<permits, waiters, module, moduleVer, generation, free, taskVars,
             updVars, [s \in Stores |-> IF s \in InUse THEN inst[s] ELSE 0]>>
=============================================================================
