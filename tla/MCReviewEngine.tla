-------------------------- MODULE MCReviewEngine --------------------------
(***************************************************************************)
(* Small instances of ReviewEngine for TLC.                                *)
(***************************************************************************)
EXTENDS ReviewEngine, TLC

CONSTANTS r1, r2, r3, repoA, repoB

\* Two reviews share a repository, the third has one of its own.
MCRepoOf == (r1 :> repoA) @@ (r2 :> repoA) @@ (r3 :> repoB)
MCRepoOf2 == (r1 :> repoA) @@ (r2 :> repoA)

\* Workers are interchangeable, and so are the two reviews of repoA and the
\* slots of requests.
MCSymmetry == Permutations(Workers) \cup Permutations({r1, r2}) \cup Permutations(Slots)
=============================================================================
