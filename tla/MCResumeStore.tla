--------------------------- MODULE MCResumeStore ---------------------------
(***************************************************************************)
(* Instances of ResumeStore for TLC.  With one account every upload is     *)
(* alike except an earlier one and the one the jobs ask for, so the others *)
(* may be permuted; so may erasures, when they share a target.             *)
(***************************************************************************)
EXTENDS ResumeStore, TLC

CONSTANTS u1, r1, r2, r3, r4, r5, r6, e1, e2, j1

OneOwner == [r \in Resumes |-> u1]
OneTarget == [e \in Erasures |-> u1]
FirstResume == [j \in Jobs |-> r5]

\* Two uploads and an erasure of an account with two resumes, or one upload, two
\* erasures and an extraction of an account with one.
Groups == {{r1, r2, r3, r4, e1}, {r5, r6, e1, e2, j1}}
GroupPasts == {{r1, r2}, {r5}}

OnePast == {{r1}}
Everything == {Resumes \cup Erasures \cup Jobs}

Symmetry == Permutations(Resumes \ {r1}) \cup Permutations(Erasures)
=============================================================================
