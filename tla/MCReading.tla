----------------------------- MODULE MCReading ------------------------------
(***************************************************************************)
(* Documents for Reading: one component per name of a vocabulary in all    *)
(* its spellings, one per shape and form of a location, and forests of     *)
(* components with wrappers and junk.                                      *)
(***************************************************************************)
EXTENDS Reading

\* The name of an algorithm in every spelling, and the families it means: any of
\* its fragments may be set apart from the one before it.
Name(atoms, means) ==
    [names |-> {[atoms |-> atoms, starts |-> {1} \cup s] : s \in SUBSET (2..Len(atoms))},
     means |-> means]

\* Other words, spelled as they are, that mean no algorithm.
Prose(atoms, starts) == [names |-> {[atoms |-> atoms, starts |-> starts]}, means |-> {}]

SHA256 == <<"SHA", "256">>
Phrases ==
    {Name(AES, {AES}),
     Name(<<"AES", "256">>, {AES}),
     Name(<<"AES", "256", "GCM">>, {AES}),
     Name(<<"AES", "128", "CBC">>, {AES}),
     Name(SHA256, {SHA256}),
     Name(<<"SHA", "1">>, {<<"SHA", "1">>}),
     Name(<<"SHA", "3", "256">>, {<<"SHA", "3">>}),
     Name(<<"HMAC", "SHA", "256">>, {<<"HMAC">>, SHA256}),
     Name(<<"SHA", "256", "WITH", "RSA">>, {RSA, SHA256}),
     Name(<<"RSA", "2048">>, {RSA}),
     Name(<<"RSA", "4096">>, {RSA}),
     Name(<<"RS", "256">>, {RSA}),
     Name(<<"RSA", "PRIVATE", "KEY", "PKCS", "8">>, {RSA}),
     Name(<<"EC", "DSA", "P", "256">>, {ECDSA}),
     Name(<<"P", "384">>, {ECDSA}),
     Name(<<"SECP", "384", "R", "1">>, {ECDSA}),
     Name(<<"ED", "25519">>, {Ed25519}),
     Name(<<"X", "25519">>, {X25519}),
     Name(<<"ML", "KEM", "768">>, {MLKEM}),
     Name(<<"KYBER", "1024">>, {MLKEM}),
     Name(<<"X", "25519", "ML", "KEM", "768">>, {X25519, MLKEM}),
     Name(<<"ML", "DSA", "65">>, {MLDSA}),
     Name(<<"ML", "DSA", "87">>, {MLDSA}),
     Name(<<"SLH", "DSA">>, {SLHDSA}),
     Name(<<"FN", "DSA", "512">>, {<<"FALCON">>}),
     Name(<<"FALCON", "512">>, {<<"FALCON">>}),
     Name(DSA, {DSA}),
     Name(TripleDES, {TripleDES}),
     Name(DES, {DES}),
     Name(<<"SEED", "128", "CBC">>, {<<"SEED">>}),
     Name(<<"CHACHA", "20", "POLY", "1305">>, {ChaCha20}),
     Name(<<"TLS", "V", "1", "3">>, {TLS}),
     Name(<<"SSL", "V", "3">>, {SSL}),
     Prose(<<"SEED", "MATERIAL">>, {1, 2}),
     Prose(<<"GOOD", "IDEA">>, {1, 2}),
     Prose(<<"OPEN", "SSL">>, {1}),
     Prose(<<"UNIVE", "RSA", "L", "HASH">>, {1}),
     Prose(<<"UNIVE", "RSA", "L", "HASH">>, {1, 4}),
     Prose(<<"C", "AES", "AR">>, {1}),
     Prose(<<"256">>, {1})}

Vocabulary == UNION {p.names : p \in Phrases}
MCMeaning  == [name \in Vocabulary |-> (CHOOSE p \in Phrases : name \in p.names).means]

Spelled(atoms, starts) == [atoms |-> atoms, starts |-> starts]

(***************************************************************************)
(* The spellings that are misread, by the rule of normalize_tokens that    *)
(* separators do make a difference to.                                     *)
(***************************************************************************)
MCMisread ==
    \* a marker that ends in a digit is not seen before another
    {Spelled(<<"SHA", "3", "256">>, s) : s \in {{1}, {1, 2}, {1, 2, 3}}}
    \* nor is one that begins within a word
    \cup {Spelled(<<"HMAC", "SHA", "256">>, s) : s \in {{1}, {1, 3}}}
    \cup {Spelled(<<"SHA", "256", "WITH", "RSA">>, s) : s \in {{1, 2}, {1, 3}, {1, 2, 3}}}
    \* a word the tables know whole is not known in two
    \cup {Spelled(<<"RS", "256">>, {1, 2}), Spelled(<<"P", "384">>, {1, 2})}
    \* a family set apart at the end of another's name is claimed as well
    \cup {Spelled(TripleDES, {1, 2})}
    \cup {Spelled(<<"EC", "DSA", "P", "256">>, {1, 2} \cup s) : s \in SUBSET {3, 4}}
    \* a number makes a DSA that ends another's name a word of its own
    \cup {Spelled(<<"ML", "DSA", "65">>, {1, 2}), Spelled(<<"ML", "DSA", "87">>, {1, 2}),
          Spelled(<<"FN", "DSA", "512">>, {1, 2})}
    \* a family that is a word is not seen beside a word that is no mode
    \cup {Spelled(<<"SEED", "128", "CBC">>, s) : s \in {{1}, {1, 2}}}

MCPlanted ==
    {Spelled(<<"AES", "256", "GCM">>, {1, 2, 3}), Spelled(<<"RSA", "2048">>, {1, 2}),
     Spelled(SHA256, {1, 2}), Spelled(<<"ED", "25519">>, {1}),
     Spelled(<<"ML", "KEM", "768">>, {1, 2, 3}),
     Spelled(<<"EC", "DSA", "P", "256">>, {1, 3}), Spelled(<<"TLS", "V", "1", "3">>, {1, 4}),
     Spelled(<<"SLH", "DSA">>, {1, 2}), Spelled(<<"ML", "DSA", "87">>, {1, 2, 3}),
     Spelled(<<"FALCON", "512">>, {1, 2}),
     Spelled(<<"X", "25519", "ML", "KEM", "768">>, {1})}

-----------------------------------------------------------------------------
Plain == [type |-> "cryptographic-asset", crypto |-> TRUE, fields |-> {}, evidence |-> <<>>,
          properties |-> <<>>, nested |-> <<>>]
Single(c) == [wrappers |-> <<>>, bom |-> [form |-> "object", components |-> <<1>>],
              node |-> [n \in {1} |-> c]]

NameDocuments ==
    {Single([Plain EXCEPT !.fields = {<<"name", name>>}]) : name \in Vocabulary}
    \cup {Single([Plain EXCEPT !.fields = {<<"name", Spelled(SHA256, {1, 2})>>,
                                           <<"parameterSetIdentifier", Spelled(<<"256">>, {1})>>},
                               !.crypto = x]) : x \in BOOLEAN}

\* A file in a directory, its namesake at the root and in another directory,
\* and a file with no namesake.
MCFiles == {<<"a">>, <<"d", "a">>, <<"e", "d", "a">>, <<"d", "b">>}
MCPaths ==
    MCFiles \cup {<<Dot>> \o f : f \in MCFiles} \cup {<<Dot, Dot>> \o f : f \in MCFiles}
    \cup {<<Empty, "tmp">> \o f : f \in MCFiles} \cup {<<Empty>> \o f : f \in MCFiles}
    \cup {<<"b">>, <<"x", "b">>, <<"e", "a">>, <<"x", "d", "a">>, <<"x">>, <<"d">>, <<Dot>>,
          <<Dot, Empty>>, <<Empty, Dot, "b">>, <<"d", Empty, "b">>}

MCLines == [form : {"number", "text", "boolean", "prose"}, value : {0 - 1, 0, 1, 7}]

LocationDocuments ==
    {Single([Plain EXCEPT !.evidence = <<[location |-> path, line |-> line]>>]) :
        path \in MCPaths \cup {None}, line \in MCLines}
    \cup {Single([Plain EXCEPT !.properties = <<[leaf |-> l, value |-> line],
                                                [leaf |-> "file", value |-> path],
                                                [leaf |-> "file", value |-> <<"x">>]>>]) :
            l \in {"line", "other"}, path \in {<<"d", "b">>, None}, line \in MCLines}

\* Forests of five: 4 is junk, the others are of every kind.
Shapes ==
    {[top |-> <<1, 2>>,       nested |-> <<<<3, 4>>, <<5>>, <<>>, <<>>, <<>>>>],
     [top |-> <<4, 1>>,       nested |-> <<<<2, 4, 3>>, <<>>, <<5>>, <<>>, <<>>>>],
     [top |-> <<1, 2, 3, 5>>, nested |-> <<<<>>, <<>>, <<>>, <<>>, <<>>>>],
     [top |-> <<2>>,          nested |-> <<<<5>>, <<3>>, <<1>>, <<>>, <<4>>>>]}

Kinds == {[type |-> t, crypto |-> x] :
             t \in {"cryptographic-asset", "library", "data"}, x \in BOOLEAN}

Forest(shape, kinds) ==
    [n \in {1, 2, 3, 5} |->
        [Plain EXCEPT !.type = kinds[n].type, !.crypto = kinds[n].crypto,
                      !.nested = shape.nested[n]]]

Wrappers == {<<>>, <<"list">>, <<"bom">>, <<"list", "bom">>, <<"bom", "list">>,
             [k \in 1..8 |-> "bom"], [k \in 1..9 |-> "bom"], [k \in 1..9 |-> "list"]}

ForestDocuments ==
    {[wrappers |-> <<>>, bom |-> [form |-> "object", components |-> shape.top],
      node |-> Forest(shape, kinds)] :
        shape \in Shapes, kinds \in [{1, 2, 3, 5} -> Kinds]}
    \cup {[wrappers |-> w,
           bom |-> IF form = "object" THEN [form |-> form, components |-> <<1, 2>>]
                   ELSE [form |-> form],
           node |-> [n \in {1, 2} |-> Plain]] :
            w \in Wrappers, form \in {"object", "uniterable", "other"}}
    \cup {[wrappers |-> <<>>, bom |-> [form |-> "invalid"], node |-> <<>>]}

MCDocuments == NameDocuments \cup LocationDocuments \cup ForestDocuments
=============================================================================
