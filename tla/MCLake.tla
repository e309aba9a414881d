--------------------------------- MODULE MCLake ---------------------------------
(* Model checking of RawLake. *)
EXTENDS RawLake
CONSTANTS k1, k2, k3, a, b
MCKeys == {k1, k2, k3}
MCValues == {a, b}
\* The whole partition; one key withdrawn, two of three withdrawn, all of them; one rewritten.
All == [k \in MCKeys |-> a]
MCAnswers == {All, (k1 :> a) @@ (k2 :> a), k3 :> a, NoRows, [All EXCEPT ![k1] = b]}
\* A pin's step and a write of a commit in progress touch no common variable and neither
\* enables or disables the other, so pins move between commits only.
PinsBetweenCommits == job.pc \in {"idle", "work", "done", "consumers", "retire"} \/ UNCHANGED readers
=================================================================================
