----------------------------- MODULE MCDirectory -----------------------------
(***************************************************************************)
(* Two administrators and a user.                                          *)
(***************************************************************************)
EXTENDS Directory, TLC

CONSTANTS ann, bob, cyd, c1, c2, r1, r2

MCStaff == ann :> "admin" @@ bob :> "admin" @@ cyd :> "user"

(* The two administrators, the connections and the slots for requests are  *)
(* interchangeable.                                                        *)
Symmetry == Permutations({ann, bob}) \cup Permutations({c1, c2}) \cup Permutations({r1, r2})
==============================================================================
