----------------------------- MODULE MCCollect ------------------------------
(* Small instances of Collect. *)
EXTENDS Collect, TLC

CONSTANTS f, s, p, q

\* A config limited by --tool to f, and limited by --project to p.
ByToolOrProject == {
    << <<f, p>>, <<f, q>> >>,
    << <<f, p>>, <<s, p>> >> }

\* A printing tool on two projects.
PrintingOnly == { << <<s, p>>, <<s, q>> >> }
=============================================================================
