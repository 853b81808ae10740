------------------------------ MODULE MCCorpus ------------------------------
(***************************************************************************)
(* Two projects, one of which an author edits: templates that can be built *)
(* (one that has everything, one with a plant less and a file that the     *)
(* holdout skips, one with a keystore), and one for each way a template    *)
(* can be refused.                                                         *)
(***************************************************************************)
EXTENDS Corpus

MCLayers == {1, 6}
MCOrder  == <<"ledger", "vault">>

\* The last fragment of a code that names an algorithm does it.
MCAlgorithmOf(code) == LET name == code[Len(code)] IN
                       CASE name = "tls12" -> <<"TLS-1.2">>
                         [] name = "tls13" -> <<"TLS-1.3">>
                         [] OTHER -> <<name>>

Line(text, code, calls, mark) ==
    [text |-> text, code |-> code, calls |-> calls, mark |-> mark, setting |-> FALSE]
Setting(text, code, mark) ==
    [text |-> text, code |-> code, calls |-> None, mark |-> mark, setting |-> TRUE]
Plain(text) == Line(text, <<>>, None, NoMark)

File(kind, lines) ==
    [kind |-> kind, lines |-> lines, config |-> FALSE, commented |-> TRUE, skipped |-> FALSE]

\* A wrapper: its body calls AES-256 without naming it, a caller is as good.
Code(alias) == File("text",
    <<Plain("blank"),
      Line("seal", <<"seal">>, <<"AES-256">>, Plant(<<"l1", "seal">>, <<"AES-256">>, 1, <<>>)),
      Line("caller", <<"call", "seal">>, None, alias)>>)

Config == [File("text", <<Setting("cipher", <<"cipher", "AES-256">>,
                                  Plant(<<"suite">>, <<"AES-256">>, 1, <<"with", "seal">>)),
                          Setting("port", <<"port">>, NoMark)>>) EXCEPT !.config = TRUE]

Key    == File("binary", <<Line("store", <<"RSA">>, None, NoMark)>>)
Bundle == [File("text", <<Plain("bundle")>>) EXCEPT !.skipped = TRUE]

KeyAsset == [id |-> <<"key">>, file |-> "key", algorithm |-> <<"RSA">>, layer |-> 6, note |-> <<>>]

\* A symbol to rename and a substitution: both are one name in the whole line.
Rule(from, to) == [from |-> from, to |-> to, from_algorithm |-> from, to_algorithm |-> to]

Rules(rewrites, relocate, shift) == [rewrites |-> rewrites, relocate |-> relocate, shift |-> shift]

Moves(path) == [p \in {path} |-> "moved"]

Good == [files |-> [code |-> Code(AliasOf(<<"l1", "seal">>)), conf |-> Config, key |-> Key],
         assets |-> {KeyAsset},
         holdout |-> Rules(<<Rule("seal", "wrap"), Rule("AES-256", "AES-128")>>,
                           Moves("code"), TRUE)]

\* A plant less; and a file that the holdout passes over.
Slim == [files |-> [code |-> File("text",
                        <<Plain("shebang"),
                          Line("iv", <<"AES-256">>, None,
                               Plant(<<"AES-256">>, <<"AES-256">>, 1, <<>>))>>),
                    bundle |-> Bundle, key |-> Key],
         assets |-> {KeyAsset}, holdout |-> Rules(<<Rule("AES-256", "AES-128")>>, <<>>, TRUE)]

Locked == [Slim EXCEPT !.files = [@ EXCEPT !["key"] = [@ EXCEPT !.kind = "keystore"]]]

\* Its substitution has other names in annotations than in codes.
Small == [files |-> [conf |-> File("text",
                        <<Line("suite", <<"min", "tls12">>, None,
                               Plant(<<"tls">>, <<"TLS-1.2">>, 1, <<>>)),
                          Line("pem", <<"RSA">>, None, Plant(<<"pem">>, <<"RSA">>, 6, <<>>))>>)],
          assets |-> {},
          holdout |-> Rules(<<[from |-> "tls12", to |-> "tls13",
                               from_algorithm |-> "TLS-1.2", to_algorithm |-> "TLS-1.3"]>>,
                            <<>>, FALSE)]

Only(path, file, assets) ==
    [files |-> [p \in {path} |-> file], assets |-> assets, holdout |-> Rules(<<>>, <<>>, FALSE)]

Lock == Line("lock", <<"AES-256">>, None, Plant(<<"lock">>, <<"AES-256">>, 1, <<>>))

Bad == {
    Only("code", File("text", <<Lock, Lock>>), {}),            \* an id twice
    Only("code", File("text", <<Line("caller", <<"call", "seal">>, None, AliasOf(<<"none">>))>>),
         {}),                                                  \* an unknown alias
    Only("code", File("unmapped", <<Lock>>), {}),              \* a mark nothing strips
    Only("code", File("text", <<Lock>>), {}),                  \* no layer 6
    Only("code", File("text", <<Lock>>), None)}

MCVersions == [ledger |-> {Good, Slim, Locked} \cup Bad, vault |-> {Small}]
=============================================================================
