------------------------------- MODULE Paths --------------------------------
(***************************************************************************)
(* PathResolver (proofstein/matching.py): which file of a project a        *)
(* reported path means.  A path is the sequence of what its slashes        *)
(* separate: an absolute path begins with "", and "./a" is <<".", "a">>.   *)
(***************************************************************************)
EXTENDS Naturals, Sequences

CONSTANTS
    Segments,    \* names of files and directories
    None         \* no file

Dot   == "."
Empty == ""

ProjectPaths == Seq(Segments) \ {<<>>}
ReportedPaths == Seq(Segments \cup {Dot, Empty}) \ {<<>>}

ASSUME SegmentsAssumption ==
    /\ Dot \notin Segments
    /\ Empty \notin Segments
    /\ None \notin ProjectPaths

\* What is left of path when its first n segments are dropped.
Rest(path, n) == SubSeq(path, n + 1, Len(path))

\* How many leading segments are equal to s, when the first `limit` may be.
Leading(path, s, limit) ==
    CHOOSE n \in 0..limit :
        /\ \A k \in 1..n : path[k] = s
        /\ n < limit => path[n + 1] # s

\* "./" is removed as often as it leads, then every leading "/".
NormalizePath(path) ==
    LET undotted == Rest(path, Leading(path, Dot, Len(path) - 1))
    IN  Rest(undotted, Leading(undotted, Empty, Len(undotted)))

\* path and file agree in their last n segments, and both have as many.
Agree(file, path, n) ==
    /\ n <= Len(file)
    /\ n <= Len(path)
    /\ \A k \in 0..(n - 1) : file[Len(file) - k] = path[Len(path) - k]

\* The entry of the suffix table for the last n segments of path.
Candidates(files, path, n) == {file \in files : Agree(file, path, n)}

Unique(files, path, n) == \E file \in files : Candidates(files, path, n) = {file}

\* Faulty variant: an ambiguous suffix ends in the first of its files.
LongestSuffixGuess(files, path) ==
    LET hits == {n \in 1..Len(path) : Candidates(files, path, n) # {}} IN
    IF hits = {} THEN None
    ELSE CHOOSE file \in files :
            Agree(file, path, CHOOSE n \in hits : \A m \in hits : m <= n)

\* The loop over suffixes: the longest one that a single file has.
LongestSuffix(files, path) ==
    LET hits == {n \in 1..Len(path) : Unique(files, path, n)} IN
    IF hits = {} THEN None
    ELSE CHOOSE file \in files :
            Candidates(files, path, CHOOSE n \in hits : \A m \in hits : m <= n) = {file}

ResolvePath(files, reported) ==
    LET path == NormalizePath(reported) IN
    IF path = <<>> THEN None
    ELSE IF path \in files THEN path
    ELSE LongestSuffix(files, path)
=============================================================================
