--------------------------- MODULE MCDescriptorPool ---------------------------
(***************************************************************************)
(* Three files a, b and c, each with a message A, B or C, d with a message *)
(* that has the name of b's, and e, which defines FeatureSet.              *)
(***************************************************************************)
EXTENDS DescriptorPool

MCFiles     == {"a", "b", "c", "d", "e"}
MCSymbols   == {"A", "B", "C", "D", "AX", "P", "FS"}
MCEnclosing == [s \in MCSymbols |-> IF s = "AX" THEN {"A"} ELSE {}]
MCNumbers   == {"n"}

Message == [a |-> "A", b |-> "B", c |-> "C", d |-> "B", e |-> "FS"]

Plain(f) ==
  [package |-> None, imports |-> <<>>, public |-> {}, symbols |-> {Message[f]},
   links |-> <<>>, fault |-> "none", features |-> "none"]

Field(scopes)     == [scopes |-> scopes, number |-> None]
Extend(scopes, n) == [scopes |-> scopes, number |-> n]

PlainFiles == [f \in MCFiles |-> Plain(f)]

\* The honest index of the files, and the one that names file f for any name.
Index(proto) ==
  [s \in MCSymbols |-> IF \E f \in MCFiles : s \in proto[f].symbols
                       THEN CHOOSE f \in MCFiles : s \in proto[f].symbols ELSE None]
ByNumber(proto) ==
  [n \in MCNumbers |->
     LET has(f) == \E i \in DOMAIN proto[f].links : proto[f].links[i].number = n
     IN  IF \E f \in MCFiles : has(f) THEN CHOOSE f \in MCFiles : has(f) ELSE None]

Database(proto, present) ==
  [backed |-> TRUE, proto |-> proto, present |-> present,
   bySymbol |-> [s \in MCSymbols |-> IF Index(proto)[s] \in present
                                     THEN Index(proto)[s] ELSE None],
   byNumber |-> ByNumber(proto)]
Misleading(proto, f) ==
  [Database(proto, MCFiles) EXCEPT !.bySymbol = [s \in MCSymbols |-> f],
                                   !.byNumber = [n \in MCNumbers |-> f]]
Unbacked(proto) == [Database(proto, {}) EXCEPT !.backed = FALSE]

\* Imports of three files, circles and missing files included, and a link of
\* one that another file may have to be loaded for.
Graphs ==
  {[PlainFiles EXCEPT !.a.imports = ia, !.b.imports = ib, !.c.imports = ic,
                      ![l.file].links = <<Field(<<l.other, Message[l.file]>>)>>] :
     ia \in {<<>>, <<"b">>, <<"b", "c">>, <<"c", "b">>}, ib \in {<<>>, <<"c">>, <<"a">>},
     ic \in {<<>>, <<"a">>, <<"b">>},
     l \in {[file |-> "a", other |-> "C"], [file |-> "b", other |-> "A"]}}

\* File a finds c by name only, while it is being linked: what goes wrong in
\* either, what both register, and what is validated later.
Nested ==
  {[PlainFiles EXCEPT !.a.links = <<Field(<<"C", "A">>), Extend(<<"A">>, "n")>>,
                      !.a.fault = fa, !.a.features = ga, !.a.package = "P",
                      !.c.links = <<Extend(<<"C">>, "n")>>, !.c.imports = ic,
                      !.c.fault = fc, !.c.features = gc, !.c.package = pc] :
     fa \in {"none", "options", "visibility"}, ga \in {"none", "expired"},
     fc \in {"none", "visibility"}, gc \in {"valid", "expired"},
     pc \in {None, "P", "A"}, ic \in {<<>>, <<"a">>}}

\* A public import; two files with the same message; a name inside a message;
\* a file that imports itself; one that is found by name, fails, and is imported
\* later; one that is found by name while one that it imports is loading.
Others ==
  {[PlainFiles EXCEPT !.a.imports = <<"b">>, !.b.imports = <<"c">>, !.b.public = pb,
                      !.a.links = <<Field(<<"C">>)>>] : pb \in {{}, {"c"}}}
  \cup
  {[PlainFiles EXCEPT !.a.imports = ia, !.a.links = <<Field(<<"AX", "B">>)>>] :
     ia \in {<<"b", "d">>, <<"d", "b">>, <<"b", "b">>}}
  \cup
  {[PlainFiles EXCEPT !.a.imports = <<"a">>]}
  \cup
  {[PlainFiles EXCEPT !.a.imports = <<"b", "c">>, !.b.links = <<Field(<<"C", "B">>)>>,
                      !.c.fault = fc] : fc \in {"options", "visibility"}}
  \cup
  {[PlainFiles EXCEPT !.a.imports = ia, !.b.imports = <<"c">>, !.d.imports = <<"b">>,
                      !.d.symbols = {"D"}, !.c.links = <<Field(<<"D", "C">>)>>] :
     ia \in {<<"b", "d">>, <<"d", "b">>}}

MCDatabases ==
  {Database(p, MCFiles) : p \in Graphs \cup Nested \cup Others}
  \cup {Database(p, {"a", "b", "d"}) : p \in Others}
  \cup {Misleading(p, f) : p \in Others, f \in {"a", "d"}}
  \cup {Unbacked(p) : p \in Others}

\* One file, which uses a feature that its edition no longer has.
Expired == {Database([PlainFiles EXCEPT !.a.features = "expired"], MCFiles)}

MCQuestions == [op : {"file"}, key : {"a"}] \cup [op : {"symbol"}, key : {"B"}]
     \cup [op : {"container"}, key : {"C"}] \cup [op : {"extension"}, key : {"n"}]
     \cup [op : {"build"}, key : {"a", "b", "c"}]

\* A reduction: a call starts while no file is being built.  It would only wait
\* for mutex_ and commutes with every step of its owner.
CallsStartFreely ==
  (\E t \in Threads : calls[t] = <<>> /\ calls'[t] # <<>>) => mutex = None

MCSpec == Init /\ [][Next /\ CallsStartFreely]_vars /\ Fairness
=============================================================================
