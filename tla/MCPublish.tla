----------------------------- MODULE MCPublish ------------------------------
(***************************************************************************)
(* Two projects, one of which has a name that ends like the other's, two   *)
(* tools, one with the separator in its name, and directories with a       *)
(* document of each, with a pair named twice, with strangers, one of which *)
(* is taken for a document of a project, and empty.                        *)
(***************************************************************************)
EXTENDS Publish, TLC

svc    == <<"svc">>
ledger == <<"ledger", "_", "svc">>
cdx    == <<"cdx">>
pq     == <<"pq", "_", "_", "static">>
acme   == <<"acme">>

MCWords == {"svc", "ledger", "cdx", "pq", "static", "acme", "manifest", "other", "_"}

Plant(id, layer) == [id |-> id, layer |-> layer]

MCLayers == {1, 4}
MCPlants ==
    [public  |-> (svc :> {Plant("a", 1), Plant("b", 4)}) @@ (ledger :> {Plant("c", 4)}),
     holdout |-> (svc :> {Plant("a", 1)}) @@ (ledger :> {Plant("c", 1), Plant("d", 4)})]

Junk == {[parent |-> <<>>, stem |-> <<"manifest">>],
         [parent |-> <<>>, stem |-> <<"svc", "_", "_">>],
         [parent |-> <<>>, stem |-> <<"other", "_", "_", "cdx">>]}

\* No writer of the repository makes this name, and it is scored for svc.
Stray == [parent |-> <<>>, stem |-> <<"other", "_", "svc", "_", "_", "static">>]

Finds(ids) == [parses |-> TRUE, found |-> ids]

MCInputs == {
    (RawName(svc, cdx) :> Finds({"a"}))
        @@ (RawName(ledger, pq) :> [Finds({}) EXCEPT !.parses = FALSE])
        @@ [name \in Junk |-> Finds({})],
    (RawName(svc, cdx) :> Finds({"a"})) @@ (DirName(svc, cdx) :> Finds({}))
        @@ (DirName(ledger, cdx) :> Finds({})) @@ (Stray :> Finds({"a"})),
    (BundleName(acme, svc, pq) :> Finds({"a"})) @@ (BundleName(acme, ledger, pq) :> Finds({"c", "d"})),
    <<>>}

MCArgs == {[layout |-> "raw",    corpus |-> "public",  manifest |-> TRUE],
           [layout |-> "raw",    corpus |-> "holdout", manifest |-> FALSE],
           [layout |-> "bundle", corpus |-> "public",  manifest |-> FALSE]}

MCManifests == {{}, {<<ledger, cdx>>}}
MCTools  == {cdx, pq}
MCOwners == {acme}
=============================================================================
