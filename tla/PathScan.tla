------------------------------ MODULE PathScan ------------------------------
(***************************************************************************)
(* A caller that takes any path apart with the functions of                *)
(* kernel/vfs/path.cpp.                                                    *)
(***************************************************************************)
EXTENDS Path, FiniteSets

CONSTANTS PathChars,    \* the characters of a path
          MaxPath       \* bound: how many it has

ASSUME PathAssumption == MaxPath \in Nat

VARIABLE path

path_init == path = <<>>
path_next == path' \in UNION {[1 .. n -> PathChars] : n \in 0 .. MaxPath}
path_spec == path_init /\ [][path_next]_path

\* The two scans of path.cpp agree about what the elements of a path are, and
\* with the definition by runs: with leading, trailing and repeated
\* separators there are as many elements as runs, element number n is the run
\* with n runs before it, and one that is too long for a name loses its end
\* and leaves the others alone.
PathIsSplit ==
    LET runs == Runs(path)
        text(r) == SubSeq(path, r[1], IF r[2] - r[1] < FILENAME_MAX - 1 THEN r[2]
                                      ELSE r[1] + FILENAME_MAX - 2)
    IN  /\ path_element_count(path) = Cardinality(runs)
        /\ \A r \in runs :
              path_element_get(path, Cardinality({q \in runs : q[1] < r[1]})) = text(r)
=============================================================================
