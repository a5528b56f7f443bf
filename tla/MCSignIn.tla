------------------------------ MODULE MCSignIn ------------------------------
(* Instance of SignIn: model values, and the symmetry of the safety run.    *)
EXTENDS SignIn, TLC

CONSTANTS s1, s2, a1, a2, b1, b2, t1, t2, c1, c2

MCSymmetry ==
  Permutations({s1, s2}) \cup Permutations({a1, a2}) \cup Permutations({b1, b2})
    \cup Permutations({t1, t2}) \cup Permutations({c1, c2})
=============================================================================
