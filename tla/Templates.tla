------------------------------ MODULE Templates -----------------------------
(***************************************************************************)
(* Annotated templates (tools/psmarkers.py), what building one yields      *)
(* (tools/build-corpus.py) and the variants the holdout is built from      *)
(* (tools/generate-holdout.py).  A template has its files, the file assets *)
(* of its proofstein.json (None: there is no such file) and its holdout    *)
(* rules.  A file has its lines and the kind its suffix gives it: "text"   *)
(* has a comment style, "unmapped" has none, "opaque" has none and is      *)
(* copied by the holdout generator, "binary" is copied by both tools,      *)
(* "keystore" by the builder only.  A file is skipped if it is in a        *)
(* directory that only the holdout generator passes over.  A line has code *)
(* and a mark, the @PS annotation that trails it.                          *)
(*                                                                         *)
(* Codes, ids, algorithms and notes are texts: sequences of the fragments  *)
(* that rules look for and put in.  No text can be cut into fragments in   *)
(* two ways, no rule finds the marker, a layer or an asset type, and no    *)
(* file is moved to another suffix, or into or out of a skipped directory. *)
(***************************************************************************)
EXTENDS Naturals, Sequences, FiniteSets

CONSTANTS
    Layers,          \* layers a project must plant an asset in
    AlgorithmOf(_),  \* the algorithm that a code names
    None             \* no file assets, no call

\* Marks: what a line without an annotation has, and the annotations.
NoMark == [kind |-> "none"]
Plant(id, algorithm, layer, note) ==
    [kind |-> "plant", id |-> id, algorithm |-> algorithm, layer |-> layer, note |-> note]
AliasOf(id) == [kind |-> "alias", id |-> id]
Malformed   == [kind |-> "malformed"]

Marked(line, kind) == line.mark.kind = kind

\* Texts of an annotation.
Annotation(mark) ==
    CASE mark.kind = "plant" -> {mark.id, mark.algorithm, mark.note}
      [] mark.kind = "alias" -> {mark.id}
      [] OTHER -> {}

\* The algorithm at work in a line: of what it calls, or else the one it names.
Does(line) == IF line.calls # None THEN line.calls ELSE AlgorithmOf(line.code)

\* Where the holdout puts a file.
Relocated(rules, path) ==
    IF path \in DOMAIN rules.relocate THEN rules.relocate[path] ELSE path

\* Sequences, and a file: what is copied as bytes has no marks to strip.
IsSequence(s) == s \in Seq({s[n] : n \in DOMAIN s})

IsFile(file) ==
    /\ {"kind", "lines", "skipped"} \subseteq DOMAIN file
    /\ file.kind \in {"text", "unmapped", "opaque", "binary", "keystore"}
    /\ IsSequence(file.lines)
    /\ file.kind \in {"binary", "keystore"} =>
           \A n \in DOMAIN file.lines : file.lines[n].mark = NoMark

IsTemplate(template) ==
    /\ {"files", "assets", "holdout"} \subseteq DOMAIN template
    /\ {"rewrites", "relocate", "shift"} \subseteq DOMAIN template.holdout
    /\ IsSequence(template.holdout.rewrites)
    /\ \A path \in DOMAIN template.files : IsFile(template.files[path])
    /\ \A p, q \in DOMAIN template.files :
           Relocated(template.holdout, p) = Relocated(template.holdout, q) => p = q

\* The author's answers are right: the algorithm of a mark, and of a file asset,
\* is at work where it stands.
IsHonest(template) ==
    /\ \A path \in DOMAIN template.files : \A n \in DOMAIN template.files[path].lines :
           LET line == template.files[path].lines[n] IN
           Marked(line, "plant") => Does(line) = line.mark.algorithm
    /\ template.assets # None =>
           \A a \in template.assets :
               a.file \in DOMAIN template.files =>
                   /\ 1 \in DOMAIN template.files[a.file].lines
                   /\ Does(template.files[a.file].lines[1]) = a.algorithm

\* Fields of a line, and of its mark.
IsLine(line) ==
    /\ {"text", "code", "calls", "mark"} \subseteq DOMAIN line
    /\ \/ line.mark \in {NoMark, Malformed}
       \/ line.mark = AliasOf(line.mark.id)
       \/ line.mark = Plant(line.mark.id, line.mark.algorithm, line.mark.layer, line.mark.note)
    /\ \A text \in Annotation(line.mark) : IsSequence(text)

\* File assets are keys and keystores, and no other file is moved to where one is
\* expected.
KeepsAssets(template) ==
    template.assets # None =>
        \A a \in template.assets : \A path \in DOMAIN template.files :
            Relocated(template.holdout, path) = a.file =>
                path = a.file /\ template.files[path].kind \in {"binary", "opaque", "keystore"}

\* What a holdout can be made from.
IsMovable(template) ==
    /\ \A path \in DOMAIN template.files : \A n \in DOMAIN template.files[path].lines :
           IsLine(template.files[path].lines[n])
    /\ KeepsAssets(template)

-----------------------------------------------------------------------------
(***************************************************************************)
(* parse_line and parse_text.                                              *)
(***************************************************************************)
WellFormed(line) ==
    /\ ~Marked(line, "malformed")
    /\ Marked(line, "plant") => line.mark.layer \in Layers

Parses(file) == file.kind = "text" => \A n \in DOMAIN file.lines : WellFormed(file.lines[n])

\* Faulty variant: blank lines are dropped.
CleanDropping(file) ==
    LET kept == {n \in DOMAIN file.lines : file.lines[n].text # "blank"}
        place(n) == CHOOSE m \in kept : Cardinality({k \in kept : k < m}) = n - 1
    IN  [n \in 1..Cardinality(kept) |-> [file.lines[place(n)] EXCEPT !.mark = NoMark]]

\* What is shipped of a file: no line goes, and none moves.
Clean(file) ==
    IF file.kind = "text"
    THEN [n \in DOMAIN file.lines |-> [file.lines[n] EXCEPT !.mark = NoMark]]
    ELSE file.lines

\* Faulty variant: the safety net is gone.
MarkerNeverSurvives(file) == FALSE

\* A suffix with no comment style: the marker would be shipped.
MarkerSurvives(file) ==
    /\ file.kind \notin {"binary", "keystore"}
    /\ \E n \in DOMAIN Clean(file) : ~Marked(Clean(file)[n], "none")

MarkedLines(path, file, kind) ==
    IF file.kind = "text"
    THEN {[id |-> file.lines[n].mark.id, file |-> path, line |-> n] :
             n \in {m \in DOMAIN file.lines : Marked(file.lines[m], kind)}}
    ELSE {}

Annotations(path, file) == MarkedLines(path, file, "plant")
Aliases(path, file)     == MarkedLines(path, file, "alias")

-----------------------------------------------------------------------------
(***************************************************************************)
(* build_project, for what it collected: annotations and aliases, of the   *)
(* files of a template.                                                    *)
(***************************************************************************)
AliasError(annotations, aliases) ==
    \E a \in aliases :
        \/ \A p \in annotations : p.id # a.id
        \/ \E p \in annotations : p = a

AssetError(template, annotations) ==
    \E a \in template.assets :
        \/ \E p \in annotations : p.id = a.id
        \/ \E b \in template.assets \ {a} : a.id = b.id
        \/ a.file \notin DOMAIN template.files
        \/ a.layer \notin Layers

Entries(template, annotations, aliases) ==
    {[id |-> p.id, file |-> p.file, line |-> p.line,
      algorithm |-> template.files[p.file].lines[p.line].mark.algorithm,
      layer     |-> template.files[p.file].lines[p.line].mark.layer,
      note      |-> template.files[p.file].lines[p.line].mark.note,
      accept    |-> {[file |-> a.file, line |-> a.line] : a \in {b \in aliases : b.id = p.id}}] :
        p \in annotations}
    \cup
    {[id |-> a.id, file |-> a.file, line |-> 1, algorithm |-> a.algorithm,
      layer |-> a.layer, note |-> a.note, accept |-> {}] : a \in template.assets}

AllLayers(entries) == {e.layer : e \in entries} = Layers

-----------------------------------------------------------------------------
(***************************************************************************)
(* build_variant: what the holdout reads of a template, the names it       *)
(* rewrites, and where it puts the lines and files.  A rule of             *)
(* rules.rewrites, in the order they apply, is a symbol to rename (the     *)
(* longest first; from_algorithm is from, to_algorithm is to) or, after    *)
(* these, a substitution.                                                  *)
(***************************************************************************)
\* The directories it skips, which the builder does not.
Visible(template) ==
    LET seen == {path \in DOMAIN template.files : ~template.files[path].skipped}
    IN  [template EXCEPT !.files = [path \in seen |-> template.files[path]]]

\* What it reads as text, and changes.
Rewritable(file) == file.kind \in {"text", "unmapped"}

Occurs(fragment, text) == \E n \in DOMAIN text : text[n] = fragment

Replace(text, from, to) == [n \in DOMAIN text |-> IF text[n] = from THEN to ELSE text[n]]

\* What a rule makes of a text in an annotation: the name in the annotation goes
\* first, then the one in the code if it is another.
Renamed(rule, text) ==
    LET named == Replace(text, rule.from_algorithm, rule.to_algorithm)
    IN  IF rule.from = rule.from_algorithm THEN named ELSE Replace(named, rule.from, rule.to)

RenamedMark(rule, mark) ==
    CASE mark.kind = "plant" -> Plant(Renamed(rule, mark.id), Renamed(rule, mark.algorithm),
                                      mark.layer, Renamed(rule, mark.note))
      [] mark.kind = "alias" -> AliasOf(Renamed(rule, mark.id))
      [] OTHER -> mark

\* A line in which the rule finds the old name, in its code or its annotation, is
\* rewritten in both: what it calls is neither.
RewriteLine(rule, line) ==
    IF \E text \in {line.code} \cup Annotation(line.mark) : Occurs(rule.from, text)
    THEN [line EXCEPT !.code = Replace(line.code, rule.from, rule.to),
                      !.mark = RenamedMark(rule, line.mark)]
    ELSE line

RewriteFile(rule, file) ==
    IF Rewritable(file)
    THEN [file EXCEPT !.lines = [n \in DOMAIN file.lines |-> RewriteLine(rule, file.lines[n])]]
    ELSE file

\* The next rule is applied, and done with.  proofstein.json, with the file assets,
\* is copied as it is.
Rewrite(template) ==
    LET rules == template.holdout.rewrites
    IN  [template EXCEPT
            !.files = [path \in DOMAIN template.files |->
                          RewriteFile(Head(rules), template.files[path])],
            !.holdout = [template.holdout EXCEPT !.rewrites = Tail(rules)]]

\* The orders shuffle_config_blocks may give the lines of a file: within a run
\* of neighbouring settings, any.
Shuffles(file) ==
    LET lines == file.lines
        run(m, n) == \A k \in m..n : lines[k].setting
    IN  {order \in [DOMAIN lines -> DOMAIN lines] :
            /\ \A m, n \in DOMAIN lines : order[m] = order[n] => m = n
            /\ \A n \in DOMAIN lines :
                   n # order[n] => run(n, order[n]) /\ run(order[n], n)
            /\ ~file.config => \A n \in DOMAIN lines : order[n] = n}

Header == [code |-> <<>>, calls |-> None, mark |-> NoMark, text |-> "header", setting |-> FALSE]

\* apply_shift, of files that can carry a comment: a header, whose lines are one
\* here, after the shebang.
Shift(rules, file, lines) ==
    LET kept == IF lines # <<>> /\ lines[1].text = "shebang" THEN 1 ELSE 0
    IN  IF rules.shift /\ file.commented
        THEN SubSeq(lines, 1, kept) \o <<Header>> \o SubSeq(lines, kept + 1, Len(lines))
        ELSE lines

\* Faulty variant: the code of a block is shuffled under its annotations.
ArrangedFilesSplit(rules, file) ==
    {[file EXCEPT
         !.lines = Shift(rules, file, [n \in DOMAIN order |->
             [file.lines[order[n]] EXCEPT !.mark = file.lines[n].mark]])] :
        order \in Shuffles(file)}

ArrangedFiles(rules, file) ==
    IF Rewritable(file)
    THEN {[file EXCEPT
             !.lines = Shift(rules, file, [n \in DOMAIN order |-> file.lines[order[n]]])] :
            order \in Shuffles(file)}
    ELSE {file}

Arrangements(template) ==
    LET rules == template.holdout
        moved == {Relocated(rules, path) : path \in DOMAIN template.files}
        source(path) == CHOOSE old \in DOMAIN template.files : Relocated(rules, old) = path
    IN  {[template EXCEPT !.files = files] :
            files \in {f \in [moved -> UNION {ArrangedFiles(rules, template.files[p]) :
                                                p \in DOMAIN template.files}] :
                          \A path \in moved :
                              f[path] \in ArrangedFiles(rules, template.files[source(path)])}}
=============================================================================
