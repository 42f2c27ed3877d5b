-------------------------- MODULE MC_ReloadPipeline --------------------------
(***************************************************************************)
(* Model-checking instance of ReloadPipeline: two module files, two        *)
(* contents that compile and one that does not, and four edits, enough    *)
(* for a write to land between the drain, the listing and a compilation,  *)
(* and for two files to share a modification time.                        *)
(***************************************************************************)
EXTENDS ReloadPipeline

CONSTANTS f1, f2, cA, cB, cBad

MCFiles    == {f1, f2}
MCContents == {cA, cB, cBad}
MCValid    == {cA, cB}

=============================================================================
