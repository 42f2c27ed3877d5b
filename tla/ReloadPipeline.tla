---------------------------- MODULE ReloadPipeline ----------------------------
(***************************************************************************)
(* The hot-reload pipeline of booster (src/booster/src/main.rs).           *)
(*                                                                         *)
(* At startup AppState::new loads the best module (load_best_module) and   *)
(* only afterwards start_wasm_watcher spawns a thread that registers a     *)
(* non-recursive notify watcher on the module directory.  Every watcher    *)
(* event sends () on an unbounded channel.  The reload task receives one   *)
(* signal, sleeps 200 ms, drains the channel without waiting, then runs    *)
(* load_best_module: list the candidates with their modification times,   *)
(* sort them newest first, and compile them in that order; the first that  *)
(* compiles is published with update_module, and when none compiles the    *)
(* reload is skipped.                                                      *)
(*                                                                         *)
(* The filesystem is the environment: files are written (with a content    *)
(* and a modification time that may tie with an earlier one) or removed.  *)
(* A module is identified with the content it was compiled from.  The     *)
(* steps of update_module itself are those of WasmPool; here a             *)
(* publication is one step.                                                *)
(***************************************************************************)
EXTENDS Naturals, Sequences, FiniteSets, SequencesExt

CONSTANTS
    Files,      \* the .wasm files that may exist in the module directory
    Contents,   \* possible file contents
    Valid,      \* the contents that Module::from_file compiles
    MaxEdits    \* bound on filesystem edits (also bounds the mtime clock)

ASSUME /\ Valid \subseteq Contents
       /\ MaxEdits \in Nat

VARIABLES
    fs,        \* fs[f]: whether f exists, its content and its mtime
    clock,     \* the filesystem clock used for modification times
    edits,     \* number of edits so far (bounded by MaxEdits)
    watcher,   \* "pending" until the watcher thread has registered its watch
    osq,       \* events the OS has queued but notify has not delivered yet
    chan,      \* signals buffered in the unbounded mpsc channel
    rpc,       \* control point of the reload task
    cands,     \* the sorted candidate list of the running load_best_module
    loaded,    \* the module compiled by load_best_module, to be published
    active,    \* the module published in the pool
    missed     \* an edit happened before the watch was registered

vars == <<fs, clock, edits, watcher, osq, chan, rpc, cands, loaded, active,
          missed>>

FileState == [exists: BOOLEAN, content: Contents, mtime: 0..MaxEdits]

\* Files whose content compiles, as they are on disk now.
Compilable(f) == fs[f].exists /\ fs[f].content \in Valid

\* What load_best_module returns when it runs on a quiet filesystem: the
\* content of a compilable file with the newest mtime among compilable
\* files (ties are broken by read_dir order, which is arbitrary).
BestModules ==
    LET ok == {f \in Files : Compilable(f)}
    IN {fs[f].content : f \in {g \in ok : \A h \in ok : fs[g].mtime >= fs[h].mtime}}

\* list_wasm_candidates then the mtime sort: every existing file, newest
\* first; sort_by is stable over read_dir order, so ties come in any order.
SortedCandidates ==
    LET Newer(a, b) == fs[a].mtime >= fs[b].mtime
    IN {s \in SetToSeqs({f \in Files : fs[f].exists}) : IsSorted(s, Newer)}

-----------------------------------------------------------------------------
\* AppState::new: the first load_best_module must succeed or main fails.
Init ==
    /\ fs \in [Files -> FileState]
    /\ \A f \in Files : fs[f].mtime = 0
    /\ \E f \in Files : Compilable(f)
    /\ clock = 0
    /\ edits = 0
    /\ watcher = "pending"
    /\ osq = 0 /\ chan = 0
    /\ rpc = "recv"
    /\ cands = <<>>
    /\ active \in BestModules
    /\ loaded = active
    /\ missed = FALSE

\* A filesystem change; the watch, when registered, queues one event for it.
\* The clock may or may not have ticked since the previous write.
Edit(newFs) ==
    /\ edits < MaxEdits
    /\ edits' = edits + 1
    /\ fs' = newFs
    /\ osq' = IF watcher = "watching" THEN osq + 1 ELSE osq
    /\ missed' = (missed \/ watcher = "pending")
    /\ UNCHANGED <<watcher, chan, rpc, cands, loaded, active>>

WriteFile(f, c) ==
    \E t \in {clock, clock + 1} :
        /\ t <= MaxEdits
        /\ clock' = t
        /\ Edit([fs EXCEPT ![f] = [exists |-> TRUE, content |-> c, mtime |-> t]])

RemoveFile(f) ==
    /\ fs[f].exists
    /\ Edit([fs EXCEPT ![f].exists = FALSE])
    /\ UNCHANGED clock

\* The watcher thread: recommended_watcher then watch(root, NonRecursive).
\* Either may fail, which disables hot reload for the process.
RegisterWatch ==
    /\ watcher = "pending"
    /\ watcher' \in {"watching", "failed"}
    /\ UNCHANGED <<fs, clock, edits, osq, chan, rpc, cands, loaded, active,
                   missed>>

\* notify calls the event handler, which sends () on the channel.
Deliver ==
    /\ osq > 0
    /\ osq' = osq - 1
    /\ chan' = chan + 1
    /\ UNCHANGED <<fs, clock, edits, watcher, rpc, cands, loaded, active,
                   missed>>

\* while rx.recv().await.is_some()
Recv ==
    /\ rpc = "recv" /\ chan > 0
    /\ chan' = chan - 1
    /\ rpc' = "debounce"
    /\ UNCHANGED <<fs, clock, edits, watcher, osq, cands, loaded, active,
                   missed>>

\* sleep(200 ms), then while rx.try_recv().is_ok() {}
Debounce ==
    /\ rpc = "debounce"
    /\ chan' = 0
    /\ rpc' = "list"
    /\ UNCHANGED <<fs, clock, edits, watcher, osq, cands, loaded, active,
                   missed>>

\* A sort with the comparator reversed: oldest first.
ListCandidatesOldestFirst ==
    LET Older(a, b) == fs[a].mtime <= fs[b].mtime
    IN /\ rpc = "list"
       /\ cands' \in {s \in SetToSeqs({f \in Files : fs[f].exists}) :
                       IsSorted(s, Older)}
       /\ rpc' = "compile"
       /\ UNCHANGED <<fs, clock, edits, watcher, osq, chan, loaded, active,
                      missed>>

\* load_best_module, first half: candidates with their mtimes, sorted.
ListCandidates ==
    /\ rpc = "list"
    /\ cands' \in SortedCandidates
    /\ rpc' = "compile"
    /\ UNCHANGED <<fs, clock, edits, watcher, osq, chan, loaded, active,
                   missed>>

\* A load that gives up at the first candidate that fails to compile.
CompileNextStopOnError ==
    /\ rpc = "compile"
    /\ \/ /\ IF cands = <<>> THEN TRUE ELSE ~Compilable(Head(cands))
          /\ rpc' = "recv"
          /\ cands' = <<>>
          /\ UNCHANGED loaded
       \/ /\ cands # <<>> /\ Compilable(Head(cands))
          /\ loaded' = fs[Head(cands)].content
          /\ rpc' = "publish"
          /\ UNCHANGED cands
    /\ UNCHANGED <<fs, clock, edits, watcher, osq, chan, active, missed>>

\* A load that publishes the newest candidate without compiling it.
CompileNextUnchecked ==
    /\ rpc = "compile"
    /\ \/ /\ cands = <<>>
          /\ rpc' = "recv"
          /\ UNCHANGED <<cands, loaded>>
       \/ /\ cands # <<>>
          /\ loaded' = fs[Head(cands)].content
          /\ rpc' = "publish"
          /\ UNCHANGED cands
    /\ UNCHANGED <<fs, clock, edits, watcher, osq, chan, active, missed>>

\* load_best_module, second half: Module::from_file on the next candidate,
\* reading the file as it is now; a failure is logged and skipped, and when
\* no candidate is left the reload is skipped.
CompileNext ==
    /\ rpc = "compile"
    /\ \/ /\ cands = <<>>
          /\ rpc' = "recv"
          /\ UNCHANGED <<cands, loaded>>
       \/ /\ cands # <<>> /\ Compilable(Head(cands))
          /\ loaded' = fs[Head(cands)].content
          /\ rpc' = "publish"
          /\ UNCHANGED cands
       \/ /\ cands # <<>> /\ ~Compilable(Head(cands))
          /\ cands' = Tail(cands)
          /\ UNCHANGED <<rpc, loaded>>
    /\ UNCHANGED <<fs, clock, edits, watcher, osq, chan, active, missed>>

\* pool.update_module(new_module).await
Publish ==
    /\ rpc = "publish"
    /\ active' = loaded
    /\ rpc' = "recv"
    /\ cands' = <<>>
    /\ UNCHANGED <<fs, clock, edits, watcher, osq, chan, loaded, missed>>

-----------------------------------------------------------------------------
Environment ==
    \/ \E f \in Files, c \in Contents : WriteFile(f, c)
    \/ \E f \in Files : RemoveFile(f)

ReloadStep == Recv \/ Debounce \/ ListCandidates \/ CompileNext \/ Publish

Next == Environment \/ RegisterWatch \/ Deliver \/ ReloadStep

\* The watcher thread, notify's delivery and the reload task all run until
\* they block; the filesystem need not change.
Fairness == WF_vars(RegisterWatch) /\ WF_vars(Deliver) /\ WF_vars(ReloadStep)

Spec == Init /\ [][Next]_vars /\ Fairness

-----------------------------------------------------------------------------
(* Properties *)

TypeOK ==
    /\ fs \in [Files -> FileState]
    /\ clock \in 0..MaxEdits /\ edits \in 0..MaxEdits
    /\ watcher \in {"pending", "watching", "failed"}
    /\ osq \in 0..MaxEdits /\ chan \in 0..MaxEdits
    /\ rpc \in {"recv", "debounce", "list", "compile", "publish"}
    /\ cands \in Seq(Files)
    /\ loaded \in Valid /\ active \in Valid
    /\ missed \in BOOLEAN

HasCompilable == \E f \in Files : Compilable(f)

\* The pipeline is at rest: the watch is registered, every event has been
\* delivered and consumed, and the reload task is blocked in recv.
Quiet ==
    /\ watcher = "watching"
    /\ osq = 0 /\ chan = 0
    /\ rpc = "recv"

\* Once the watch is registered, no change is lost: whenever the pipeline is
\* at rest, the pool serves the newest compilable module on disk, whatever
\* the interleaving of writes with the debounce, the drain, the listing and
\* the compilations (a file rewritten after it was listed, a signal that
\* arrives while a reload runs).
ServesNewestWhenQuiet ==
    (Quiet /\ ~missed /\ HasCompilable) => active \in BestModules

\* Hot reload converges: unless the watch could not be registered or a
\* change was made before it was, the pool eventually serves the newest
\* compilable module for good.
EventuallyServesNewest ==
    <>[](watcher = "failed" \/ missed \/ ~HasCompilable
         \/ active \in BestModules)

\* Spec section 4.2 and scenario S5: a module written to the directory is
\* served once the pipeline is at rest.  The claim includes writes made
\* while the process starts, between the first load_best_module and the
\* registration of the watch.
ServesNewestAfterStartup ==
    (Quiet /\ HasCompilable) => active \in BestModules

=============================================================================
