------------------------------ MODULE MCFeatures ------------------------------
(* A module set of two modules with its fga.mod, a model that no fga.mod       *)
(* claims, a store test of the set, one of its first module alone, one that    *)
(* carries its model, one whose model_file is not on disk, one whose           *)
(* model_file is not indexed and one that is no YAML; lines in which a         *)
(* relation is being defined; and the characters of short texts.               *)
EXTENDS Completion, Spelling, Formatter, TLC

CONSTANTS core, docs, stray, manifest, tests, solo, carrying, lost, idle, torn, gone, late

MCURIs == {core, docs, stray, manifest, tests, solo, carrying, lost, idle, torn, gone, late}
MCPathOf ==
    (core :> "core.fga") @@ (docs :> "docs.fga") @@ (stray :> "stray.fga") @@
    (manifest :> "fga.mod") @@ (tests :> "tests.fga.yaml") @@ (solo :> "solo.fga.yaml") @@
    (carrying :> "carrying.fga.yaml") @@ (lost :> "lost.fga.yaml") @@ (idle :> "idle.fga.yaml") @@
    (torn :> "torn.fga.yaml") @@ (gone :> "gone.fga") @@ (late :> "late.fga")
MCPaths == {MCPathOf[u] : u \in MCURIs}
MCFileURI == [p \in MCPaths |-> CHOOSE u \in MCURIs : MCPathOf[u] = p]
MCKindOf == [p \in MCPaths |->
    CASE p = "fga.mod" -> "mod"
      [] p \in {MCPathOf[u] : u \in {tests, solo, carrying, lost, idle, torn}} -> "store"
      [] OTHER -> "model"]
MCModCandidates == [p \in MCPaths |-> <<"fga.mod">>]
MCPathOrder == <<carrying, core, docs, manifest, gone, idle, late, lost, solo, stray, tests, torn>>

(* Every document is one text.                                                 *)
MCParse == [u \in MCURIs |->
    CASE u = manifest -> [broken |-> FALSE, contents |-> <<"core.fga", "docs.fga">>]
      [] u = tests    -> [broken |-> FALSE, model |-> "fga.mod"]
      [] u = solo     -> [broken |-> FALSE, model |-> "core.fga"]
      [] u = carrying -> [broken |-> FALSE, model |-> NoPath]
      [] u = lost     -> [broken |-> FALSE, model |-> "gone.fga"]
      [] u = idle     -> [broken |-> FALSE, model |-> "late.fga"]
      [] u = torn     -> [broken |-> TRUE, model |-> NoPath]
      [] OTHER        -> [broken |-> FALSE]]
MCView ==
    [entry |-> [u \in MCURIs |-> IF u \in {gone, late} THEN Absent ELSE [version |-> 0, content |-> u]],
     owner |-> [p \in MCPaths |-> IF MCFileURI[p] \in {gone, late} THEN NoURI ELSE MCFileURI[p]]]
MCDisk == [p \in MCPaths |-> IF p = "gone.fga" THEN NoFile ELSE MCFileURI[p]]

-------------------------------------------------------------------------------
Type(name, relations) == [name |-> name, extend |-> FALSE, relations |-> relations]
Extension(name, relations) == [name |-> name, extend |-> TRUE, relations |-> relations]
Define(name, operator, operands) == [name |-> name, operator |-> operator, operands |-> operands]

Restriction(type, wildcard, relation, cond) ==
    [node |-> "restriction", type |-> type, wildcard |-> wildcard, relation |-> relation, cond |-> cond]
Bare(type) == Restriction(type, FALSE, NoSite, NoSite)
Computed(s) == [node |-> "computed", relation |-> s]
From(s, t) == [node |-> "from", relation |-> s, tupleset |-> t]
Direct(terms) == [form |-> "direct", terms |-> terms]
One(term) == [form |-> term.node, terms |-> <<term>>]
Group(terms) == [form |-> "group", terms |-> terms]

(* The names of each document from top to bottom:                              *)
(*   core.fga:  type user                                                      *)
(*              type team                                                      *)
(*                member: [user, team#member]                                  *)
(*              type folder                                                    *)
(*                parent: [folder, team]                                       *)
(*                owner: [user:*, user with trusted]                           *)
(*                viewer: owner or viewer from parent                          *)
(*              condition trusted                                              *)
(*   docs.fga:  extend type folder                                             *)
(*                member: viewer but not (owner or member from parent)         *)
(*              type doc                                                       *)
(*                folder: [folder]                                             *)
(*                owner: owner from folder                                     *)
(*   stray.fga: type robot                                                     *)
(*                owner: [doc#owner]                                           *)
(* and the model in carrying.fga.yaml, above its test:                         *)
(*              type robot                                                     *)
(*                owner: [robot]                                               *)
NamesOf ==
    (core :> <<"user", "team", "member", "user", "team", "member", "folder", "parent", "folder", "team",
               "owner", "user", "user", "trusted", "viewer", "owner", "viewer", "parent", "trusted">>) @@
    (docs :> <<"folder", "member", "viewer", "owner", "member", "parent", "doc", "folder", "folder", "owner",
               "owner", "folder">>) @@
    (stray :> <<"robot", "owner", "doc", "owner">>) @@
    (tests :> <<"doc", "folder", "team", "member", "user", "folder", "owner", "folder", "user", "viewer">>) @@
    (solo :> <<"folder", "user", "viewer">>) @@
    (carrying :> <<"robot", "owner", "robot", "robot", "robot", "owner">>) @@
    (lost :> <<"folder", "viewer">>) @@
    (idle :> <<"robot", "owner">>)

MCSites == UNION {{u} \X DOMAIN NamesOf[u] : u \in DOMAIN NamesOf}
MCFirstText == [s \in MCSites |-> NamesOf[s[1]][s[2]]]

C(n) == <<core, n>>
D(n) == <<docs, n>>
S(n) == <<stray, n>>
MCTree ==
    (core :>
        [types |->
            <<Type(C(1), <<>>),
              Type(C(2), <<Define(C(3), "none", <<Direct(<<Bare(C(4)), Restriction(C(5), FALSE, C(6), NoSite)>>)>>)>>),
              Type(C(7),
                <<Define(C(8), "none", <<Direct(<<Bare(C(9)), Bare(C(10))>>)>>),
                  Define(C(11), "none",
                    <<Direct(<<Restriction(C(12), TRUE, NoSite, NoSite), Restriction(C(13), FALSE, NoSite, C(14))>>)>>),
                  Define(C(15), "or", <<One(Computed(C(16))), One(From(C(17), C(18)))>>)>>)>>,
         conds |-> <<C(19)>>]) @@
    (docs :>
        [types |->
            <<Extension(D(1),
                <<Define(D(2), "but not",
                    <<One(Computed(D(3))), Group(<<Computed(D(4)), From(D(5), D(6))>>)>>)>>),
              Type(D(7),
                <<Define(D(8), "none", <<Direct(<<Bare(D(9))>>)>>),
                  Define(D(10), "none", <<One(From(D(11), D(12)))>>)>>)>>,
         conds |-> <<>>]) @@
    (stray :>
        [types |-> <<Type(S(1), <<Define(S(2), "none", <<Direct(<<Restriction(S(3), FALSE, S(4), NoSite)>>)>>)>>)>>,
         conds |-> <<>>])

I(n) == <<carrying, n>>
MCInline ==
    carrying :>
        [types |-> <<Type(I(1), <<Define(I(2), "none", <<Direct(<<Bare(I(3))>>)>>)>>)>>, conds |-> <<>>]

T(n) == <<tests, n>>
Entry(objects, users, filters, relations) ==
    [objects |-> objects, users |-> users, filters |-> filters, relations |-> relations]
MCTests ==
    (tests :>
        <<Entry(<<T(1), T(2)>>, <<[type |-> T(3), relation |-> T(4)], [type |-> T(5), relation |-> NoSite]>>, <<>>,
                <<T(6), T(7)>>),
          Entry(<<T(8)>>, <<>>, <<T(9)>>, <<T(10)>>)>>) @@
    (solo :> <<Entry(<<<<solo, 1>>>>, <<[type |-> <<solo, 2>>, relation |-> NoSite]>>, <<>>, <<<<solo, 3>>>>)>>) @@
    (carrying :> <<Entry(<<I(4)>>, <<[type |-> I(5), relation |-> NoSite]>>, <<>>, <<I(6)>>)>>) @@
    (lost :> <<Entry(<<<<lost, 1>>>>, <<>>, <<>>, <<<<lost, 2>>>>)>>) @@
    (idle :> <<Entry(<<<<idle, 1>>>>, <<>>, <<>>, <<<<idle, 2>>>>)>>) @@
    (torn :> <<>>)

-------------------------------------------------------------------------------
(* The lines of the types of each model, without the line being typed: all of  *)
(* team is on the line below user, folder follows on the next.                 *)
MCTypeLines ==
    (core :> << <<1, 1>>, <<2, 2>>, <<3, 7>> >>) @@
    (docs :> << <<1, 3>>, <<5, 8>> >>) @@
    (stray :> << <<1, 3>> >>)
(* The line of team, the one behind folder and the one behind that, and the    *)
(* last line of the extension of folder.                                       *)
MCTypedLines == (core :> {2, 8, 9}) @@ (docs :> {3})

(* Of one byte: a letter, a colon, a byte that is no UTF-8, and the ends of    *)
(* lines; of two bytes: an accented letter; of four: a surrogate pair.         *)
MCSize == [c \in {"a", ":", "invalid", "cr", "lf"} |-> 1] @@ ("accent" :> 2) @@ ("astral" :> 4)
MCUnits == [c \in {"a", ":", "invalid", "cr", "lf", "accent"} |-> 1] @@ ("astral" :> 2)
MCLetters == {"a", ":"}
MCCandidates == UNION {[1..n -> MCLetters] : n \in 1..3}

-------------------------------------------------------------------------------
(* A file as it is when formatted:                                             *)
(*   module billing                                                            *)
(*                                                                             *)
(*   extend type doc                                                           *)
(*     relations                                                               *)
(*       define owner: [user:*, user#all with sure]                            *)
(*       define viewer: (owner or viewer from parent) but not blocked          *)
(*   condition sure(a: list<int>) {...}                                        *)
(*   type user                                                                 *)
MCSource ==
    <<"module", "billing", "extend", "type", "doc", "relations",
      "define", "owner", ":", "[", "user", ":", "*", ",", "user", "#", "all", "with", "sure", "]",
      "define", "viewer", ":", "(", "owner", "or", "viewer", "from", "parent", ")", "but not", "blocked",
      "condition", "sure", "(", "a", ":", "list", "<", "int", ">", ")", "{}",
      "type", "user">>

Syntax(kind, first, last, name, kids) ==
    [kind |-> kind, first |-> first, last |-> last, name |-> name, kids |-> kids]
MCNode ==
    << Syntax("source_file", 1, 45, 1, <<2, 3, 18, 22>>),
       Syntax("module_header", 1, 2, 2, <<>>),
       Syntax("type_definition", 3, 32, 5, <<4>>),
       Syntax("relations_block", 6, 32, 6, <<5, 11>>),
       Syntax("relation_definition", 7, 20, 8, <<6>>),
       Syntax("direct_assignment", 10, 20, 10, <<7, 9>>),
       Syntax("type_restriction", 11, 13, 11, <<8>>),
       Syntax("wildcard", 12, 13, 12, <<>>),
       Syntax("type_restriction", 15, 19, 15, <<10, 21>>),
       Syntax("relation_suffix", 16, 17, 17, <<>>),
       Syntax("relation_definition", 21, 32, 22, <<12>>),
       Syntax("exclusion", 24, 32, 24, <<13, 17>>),
       Syntax("grouping", 24, 30, 24, <<14>>),
       Syntax("union", 25, 29, 25, <<15, 16>>),
       Syntax("computed_relation", 25, 25, 25, <<>>),
       Syntax("tupleset_relation", 27, 29, 27, <<>>),
       Syntax("computed_relation", 32, 32, 32, <<>>),
       Syntax("condition", 33, 43, 34, <<19>>),
       Syntax("parameter", 36, 41, 36, <<20>>),
       Syntax("parameter_type", 38, 41, 38, <<>>),
       Syntax("condition_suffix", 18, 19, 19, <<>>),
       Syntax("type_definition", 44, 45, 45, <<>>) >>
MCFirstFile ==
    SubSeq(MCSource, 1, 2) \o <<Newline, Newline>> \o SubSeq(MCSource, 3, 5) \o <<Newline>>
        \o SubSeq(MCSource, 6, 6) \o <<Newline>> \o SubSeq(MCSource, 7, 20) \o <<Newline>>
        \o SubSeq(MCSource, 21, 32) \o <<Newline>> \o SubSeq(MCSource, 33, 43) \o <<Newline>>
        \o SubSeq(MCSource, 44, 45) \o <<Newline>>

(* Two lines, of which the second sits further left.                           *)
MCFirstBody == << <<>>, <<"space", "tab", "x">>, <<"space", "x">> >>

-------------------------------------------------------------------------------
(* Four editors of their own: one renames, one completes, one types a text and *)
(* one formats a file.                                                         *)
renaming == vars
completing == <<place, prefix>>

Idle(one, two, three) ==
    /\ "renaming" \in {one, two, three} => text = FirstText /\ renames = 0 /\ UNCHANGED renaming
    /\ "completing" \in {one, two, three} => place = Nowhere /\ UNCHANGED completing
    /\ "typing" \in {one, two, three} => content = <<>> /\ UNCHANGED content
    /\ "formatting" \in {one, two, three} => file = FirstFile /\ body = FirstBody /\ UNCHANGED formatterVars

Init == RenameInit /\ CompletionInit /\ PositionsInit /\ FormatterInit
Next ==
    \/ Idle("completing", "typing", "formatting") /\ RenameNext
    \/ Idle("renaming", "typing", "formatting") /\ CompletionNext
    \/ Idle("renaming", "completing", "formatting") /\ \E c \in Characters : TypeCharacter(c)
    \/ Idle("renaming", "completing", "typing") /\ FormatterNext
Spec == Init /\ [][Next]_<<renaming, completing, content, formatterVars>>
===============================================================================
