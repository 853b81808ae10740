----------------------------- MODULE MCWithhold -----------------------------
(* Small instances of Withhold. *)
EXTENDS Withhold, TLC

CONSTANTS r1, r2, n1, n2, n3, c1, c2, c3

MCSha256(c) == <<"sha256", c>>

\* Run r1 collected two documents and r2 one, all of different names.
DistinctCollected ==
    (r1 :> (n1 :> c1 @@ n2 :> c2 @@ n3 :> NoFile)) @@
    (r2 :> (n1 :> NoFile @@ n2 :> NoFile @@ n3 :> c3))

\* Two runs of the same tool on the same project: one name, two documents.
ClashingCollected ==
    (r1 :> (n1 :> c1 @@ n2 :> c2)) @@ (r2 :> (n1 :> c3 @@ n2 :> NoFile))

\* One run of two documents.
SingleCollected == (r1 :> (n1 :> c1 @@ n2 :> c2))

ASSUME Collected = ClashingCollected \/ DistinctNames
=============================================================================
