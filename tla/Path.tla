-------------------------------- MODULE Path --------------------------------
(***************************************************************************)
(* Path strings, kernel/vfs/path.cpp: the two scans that count and copy    *)
(* the elements of a path.  A string is the sequence of its characters     *)
(* without the terminator.                                                 *)
(***************************************************************************)
EXTENDS Integers, Sequences, SequencesExt

CONSTANT FILENAME_MAX

ASSUME FilenameAssumption == FILENAME_MAX \in Nat \ {0}

Separator == "/"

\* One round of the scan: an element begins at a character after a separator.
Scan(s, c) ==
    IF c = Separator THEN [s EXCEPT !.separator = TRUE]
    ELSE [count |-> IF s.separator THEN s.count + 1 ELSE s.count, separator |-> FALSE]

ScanStart == [count |-> 0, separator |-> TRUE]

path_element_count(path) == FoldLeft(Scan, ScanStart, path).count

\* Mutant of CopyElement: no room is kept for the terminator.
CopyElementLong(path, i) ==
    LET stops == {j \in i .. Len(path) : path[j] = Separator} \cup {Len(path) + 1,
                                                                  i + FILENAME_MAX}
    IN  SubSeq(path, i, (CHOOSE j \in stops : \A k \in stops : j <= k) - 1)

\* The characters from position i up to the next separator, at most
\* FILENAME_MAX - 1 of them.
CopyElement(path, i) ==
    LET stops == {j \in i .. Len(path) : path[j] = Separator} \cup {Len(path) + 1,
                                                                  i + FILENAME_MAX - 1}
    IN  SubSeq(path, i, (CHOOSE j \in stops : \A k \in stops : j <= k) - 1)

\* Element number index, counted from 0; callers ask for one that exists.
path_element_get(path, index) ==
    LET before(i) == FoldLeft(Scan, ScanStart, SubSeq(path, 1, i - 1))
        i == CHOOSE j \in 1 .. Len(path) : /\ path[j] # Separator
                                           /\ before(j).separator
                                           /\ before(j).count = index
    IN  CopyElement(path, i)

\* All elements, as the loops over a path get them one by one.
Elements(path) ==
    [n \in 1 .. path_element_count(path) |-> path_element_get(path, n - 1)]

-----------------------------------------------------------------------------
\* The elements of a path by definition: its longest runs of other
\* characters than the separator, as pairs of positions.
Runs(path) ==
    LET apart(i) == i \notin DOMAIN path \/ path[i] = Separator
    IN  {r \in (DOMAIN path) \X (DOMAIN path) :
            /\ r[1] <= r[2] /\ apart(r[1] - 1) /\ apart(r[2] + 1)
            /\ \A i \in r[1] .. r[2] : path[i] # Separator}
=============================================================================
