------------------------------ MODULE Formatter -------------------------------
(* Formatting of a model (feature/format.go), for an author who lays a file    *)
(* out, comments it and has it formatted.                                      *)
(*                                                                             *)
(* A file is a sequence of tokens, line ends and comments; blanks between      *)
(* tokens are left out.  Its syntax tree is fixed: a node is [kind, first,     *)
(* last, name, kids], from the token `first` to `last`, with the token of its  *)
(* name and its named children; the root is Root.  A comment belongs to the    *)
(* innermost node that has tokens on both sides of it, as tree-sitter has it.  *)
(* The braces of a condition and what they contain are one token, Braces, and  *)
(* `body` is that text, a sequence of lines of blanks and other characters.    *)
EXTENDS Integers, FiniteSets, SequencesExt

CONSTANTS
    Node, Root,
    Source,                \* the tokens of the file
    FirstFile, FirstBody,  \* how the author wrote it at first
    Newline, Comment, Braces,
    Space, Blanks,         \* characters of a body: the space, and all blanks
    MaxKeys                \* bound: how often the author types

VARIABLES
    file,  \* the text of the file
    body,  \* the lines of its condition's body
    keys   \* how often the author typed

formatterVars == <<file, body, keys>>

-------------------------------------------------------------------------------
(* The tokens of a node (tree-sitter-fga/grammar.js).  Its children follow     *)
(* each other from one token to another, with the same tokens in between.      *)
Tiled(kids, between, from, to) ==
    /\ kids = <<>> => from = to + 1
    /\ kids # <<>> => Node[kids[1]].first = from /\ Node[kids[Len(kids)]].last = to
    /\ \A i \in 1..(Len(kids) - 1) :
          /\ Node[kids[i + 1]].first = Node[kids[i]].last + Len(between) + 1
          /\ \A j \in DOMAIN between : Source[Node[kids[i]].last + j] = between[j]

Operand == {"direct_assignment", "computed_relation", "tupleset_relation", "grouping"}
RelationDef == {"union", "intersection", "exclusion"} \cup Operand

Grammar(n) ==
    LET node == Node[n]
        kinds == [i \in DOMAIN node.kids |-> Node[node.kids[i]].kind]
        children(kind, between, from, to) == ToSet(kinds) \subseteq kind /\ Tiled(node.kids, between, from, to)
        leaf == node.kids = <<>>
    IN  /\ node.kind = "source_file" =>
              children({"model_header", "module_header", "type_definition", "condition"}, <<>>, 1, Len(Source))
        /\ node.kind = "model_header" =>
              /\ leaf /\ node.name = node.last /\ node.last = node.first + 2
              /\ Source[node.first] = "model" /\ Source[node.first + 1] = "schema"
        /\ node.kind = "module_header" =>
              leaf /\ node.name = node.last /\ node.last = node.first + 1 /\ Source[node.first] = "module"
        /\ node.kind = "type_definition" =>
              /\ Len(kinds) <= 1 /\ children({"relations_block"}, <<>>, node.name + 1, node.last)
              /\ \/ node.name = node.first + 1 /\ Source[node.first] = "type"
                 \/ node.name = node.first + 2 /\ Source[node.first] = "extend" /\ Source[node.first + 1] = "type"
        /\ node.kind = "relations_block" =>
              children({"relation_definition"}, <<>>, node.first + 1, node.last) /\ Source[node.first] = "relations"
        /\ node.kind = "relation_definition" =>
              /\ Len(kinds) = 1 /\ children(RelationDef, <<>>, node.first + 3, node.last)
              /\ Source[node.first] = "define" /\ node.name = node.first + 1 /\ Source[node.first + 2] = ":"
        /\ node.kind = "union"        => children(Operand, <<"or">>, node.first, node.last)
        /\ node.kind = "intersection" => children(Operand, <<"and">>, node.first, node.last)
        /\ node.kind = "exclusion"    => children(Operand, <<"but not">>, node.first, node.last)
        /\ node.kind = "grouping" =>
              /\ Len(kinds) = 1 /\ children(RelationDef, <<>>, node.first + 1, node.last - 1)
              /\ Source[node.first] = "(" /\ Source[node.last] = ")"
        /\ node.kind = "computed_relation" => leaf /\ node.name = node.first /\ node.last = node.first
        /\ node.kind = "tupleset_relation" =>
              leaf /\ node.name = node.first /\ node.last = node.first + 2 /\ Source[node.first + 1] = "from"
        /\ node.kind = "direct_assignment" =>
              /\ children({"type_restriction"}, <<",">>, node.first + 1, node.last - 1)
              /\ Source[node.first] = "[" /\ Source[node.last] = "]"
        /\ node.kind = "type_restriction" =>
              /\ node.name = node.first /\ Tiled(node.kids, <<>>, node.first + 1, node.last)
              /\ kinds \in {<<>>, <<"wildcard">>, <<"relation_suffix">>, <<"condition_suffix">>,
                            <<"wildcard", "condition_suffix">>, <<"relation_suffix", "condition_suffix">>}
        /\ node.kind = "wildcard" =>
              leaf /\ node.last = node.first + 1 /\ Source[node.first] = ":" /\ Source[node.last] = "*"
        /\ node.kind = "relation_suffix" =>
              leaf /\ node.name = node.last /\ node.last = node.first + 1 /\ Source[node.first] = "#"
        /\ node.kind = "condition_suffix" =>
              leaf /\ node.name = node.last /\ node.last = node.first + 1 /\ Source[node.first] = "with"
        /\ node.kind = "condition" =>
              /\ children({"parameter"}, <<",">>, node.first + 3, node.last - 2)
              /\ Source[node.first] = "condition" /\ node.name = node.first + 1 /\ Source[node.first + 2] = "("
              /\ Source[node.last - 1] = ")" /\ Source[node.last] = Braces
        /\ node.kind = "parameter" =>
              /\ Len(kinds) = 1 /\ children({"parameter_type"}, <<>>, node.first + 2, node.last)
              /\ node.name = node.first /\ Source[node.first + 1] = ":"
        /\ node.kind = "parameter_type" => leaf

(* The tree of a file free of errors.  Nodes are numbered from the root down.  *)
NoNode == 0
ASSUME SyntaxAssumption ==
    /\ Source \in Seq(STRING) /\ Newline # Comment /\ {Newline, Comment} \cap ToSet(Source) = {}
    /\ FirstFile \in Seq(ToSet(Source) \cup {Newline, Comment})
    /\ Node \in Seq([kind : STRING, first : Nat, last : Nat, name : Nat, kids : Seq(Nat)])
    /\ Root \in DOMAIN Node /\ Node[Root].kind = "source_file"
    /\ \A n \in DOMAIN Node :
          /\ Grammar(n)
          /\ \A k \in ToSet(Node[n].kids) : k \in DOMAIN Node /\ n < k
          /\ n # Root => /\ 1 <= Node[n].first /\ Node[n].first <= Node[n].last /\ Node[n].last <= Len(Source)
                         /\ \E m \in DOMAIN Node : n \in ToSet(Node[m].kids)

-------------------------------------------------------------------------------
(* What the lexer sees of a text: the tokens, and where they are.  A comment   *)
(* takes the rest of its line.                                                 *)
Lexed(f) ==
    LET at[p \in 0..Len(f)] ==
            LET last == at[p - 1]
            IN  IF p = 0 THEN [tokens |-> <<>>, places |-> <<>>, mode |-> "code"]
                ELSE IF f[p] = Newline THEN [last EXCEPT !.mode = "code"]
                ELSE IF f[p] = Comment THEN [last EXCEPT !.mode = "comment"]
                ELSE IF last.mode = "comment" THEN last
                ELSE [last EXCEPT !.tokens = Append(@, f[p]), !.places = Append(@, p)]
    IN  at[Len(f)]
Tokens(f) == Lexed(f).tokens
Parses(f) == Tokens(f) = Source

(* The lines tokens and comments are on.                                       *)
Place(f) == Lexed(f).places
Row(f, p) == Cardinality({q \in 1..p : f[q] = Newline})

(* NamedChildren, comments included.                                           *)
NamedChildren(f, n) ==
    LET place == Place(f)
        kid(k) == [kind |-> Node[k].kind, node |-> k, from |-> place[Node[k].first], to |-> place[Node[k].last]]
        kids == {kid(k) : k \in ToSet(Node[n].kids)}
        span == IF n = Root THEN DOMAIN f ELSE place[Node[n].first]..place[Node[n].last]
        outside == {p \in span : f[p] = Comment /\ \A k \in kids : p < k.from \/ k.to < p}
        children == kids \cup {[kind |-> "comment", node |-> NoNode, from |-> p, to |-> p] : p \in outside}
        at(p) == {c \in children : c.from = p}
    IN  FlattenSeq([p \in DOMAIN f |-> IF at(p) = {} THEN <<>> ELSE <<CHOOSE c \in at(p) : TRUE>>])

Raw(f, n) == LET place == Place(f) IN SubSeq(f, place[Node[n].first], place[Node[n].last])

-------------------------------------------------------------------------------
Join(parts, sep) ==
    FlattenSeq([i \in DOMAIN parts |-> IF i = 1 THEN parts[i] ELSE sep \o parts[i]])

Least(S) == CHOOSE i \in S : \A j \in S : i <= j
Greatest(S) == CHOOSE i \in S : \A j \in S : j <= i

(* The first child of a kind.                                                  *)
NamedChild(n, kind) ==
    LET found == {i \in DOMAIN Node[n].kids : Node[Node[n].kids[i]].kind = kind}
    IN  IF found = {} THEN NoNode ELSE Node[n].kids[Least(found)]

Name(n) == <<Source[Node[n].name]>>

RenderRestriction(n) ==
    LET relation == NamedChild(n, "relation_suffix")
        condition == NamedChild(n, "condition_suffix")
    IN  Name(n)
        \o (IF NamedChild(n, "wildcard") # NoNode THEN <<":", "*">> ELSE <<>>)
        \o (IF relation # NoNode THEN <<"#">> \o Name(relation) ELSE <<>>)
        \o (IF condition # NoNode THEN <<"with">> \o Name(condition) ELSE <<>>)

(* renderExpr of a node whose operands have been rendered.  All but a group    *)
(* skip their comments.  Of a group its first child is written, which may be a *)
(* comment.                                                                    *)
RenderNode(f, n, parts) ==
    CASE Node[n].kind = "union"             -> Join(parts, <<"or">>)
      [] Node[n].kind = "intersection"      -> Join(parts, <<"and">>)
      [] Node[n].kind = "exclusion"         -> Join(parts, <<"but not">>)
      [] Node[n].kind = "grouping"          ->
            <<"(">> \o (IF NamedChildren(f, n)[1].kind = "comment" THEN <<Comment>> ELSE parts[1]) \o <<")">>
      [] Node[n].kind = "computed_relation" -> Name(n)
      [] Node[n].kind = "tupleset_relation" -> Name(n) \o <<"from", Source[Node[n].last]>>
      [] Node[n].kind = "direct_assignment" -> <<"[">> \o Join(parts, <<",">>) \o <<"]">>
      [] Node[n].kind = "type_restriction"  -> RenderRestriction(n)

(* Faulty variant of RenderExpr: parentheses are taken for spacing.            *)
RenderExprFlat(f, expr) ==
    LET render[n \in DOMAIN Node] ==
            LET parts == [i \in DOMAIN Node[n].kids |-> render[Node[n].kids[i]]]
            IN  IF Node[n].kind = "grouping" THEN parts[1] ELSE RenderNode(f, n, parts)
    IN  render[expr]

RenderExpr(f, expr) ==
    LET render[n \in DOMAIN Node] ==
            RenderNode(f, n, [i \in DOMAIN Node[n].kids |-> render[Node[n].kids[i]]])
    IN  render[expr]

RenderRelation(f, n) == <<"define">> \o Name(n) \o <<":">> \o RenderExpr(f, Node[n].kids[1])

-------------------------------------------------------------------------------
(* Faulty variant of BlankLine: blank lines are not the author's.              *)
NoBlankLine(f, children, i) == <<>>

(* A blank line in front of a child wherever there were some in the source.    *)
BlankLine(f, children, i) ==
    IF i > 1 /\ Row(f, children[i].from) > Row(f, children[i - 1].to) + 1 THEN <<Newline>> ELSE <<>>

RenderBlock(f, block) ==
    LET children == NamedChildren(f, block)
        line(c) == IF c.kind = "comment" THEN <<Comment>> ELSE RenderRelation(f, c.node)
    IN  <<"relations", Newline>> \o
        FlattenSeq([i \in DOMAIN children |-> BlankLine(f, children, i) \o line(children[i]) \o <<Newline>>])

(* renderType: comments are kept in its block of relations only.               *)
RenderType(f, n) ==
    LET block == NamedChild(n, "relations_block")
    IN  (IF Source[Node[n].first] = "extend" THEN <<"extend">> ELSE <<>>) \o <<"type">> \o Name(n) \o <<Newline>>
        \o (IF block = NoNode THEN <<>> ELSE RenderBlock(f, block))

(* renderCondition: the type of a parameter is written as it stands.           *)
RenderCondition(f, n) ==
    LET parameter(k) == Name(k) \o <<":">> \o Raw(f, Node[k].kids[1])
        parameters == [i \in DOMAIN Node[n].kids |-> parameter(Node[n].kids[i])]
    IN  <<"condition">> \o Name(n) \o <<"(">> \o Join(parameters, <<",">>) \o <<")", Braces, Newline>>

RenderTopLevel(f, c) ==
    CASE c.kind = "comment"         -> <<Comment, Newline>>
      [] c.kind = "model_header"    -> <<"model", Newline, "schema">> \o Name(c.node) \o <<Newline>>
      [] c.kind = "module_header"   -> <<"module">> \o Name(c.node) \o <<Newline>>
      [] c.kind = "type_definition" -> RenderType(f, c.node)
      [] c.kind = "condition"       -> RenderCondition(f, c.node)

(* Format, renderFile.                                                         *)
Format(f) ==
    LET children == NamedChildren(f, Root)
    IN  FlattenSeq([i \in DOMAIN children |-> BlankLine(f, children, i) \o RenderTopLevel(f, children[i])])

-------------------------------------------------------------------------------
IsBlank(line) == ToSet(line) \subseteq Blanks
Indent(line) == SubSeq(line, 1, Least({i \in DOMAIN line : line[i] \notin Blanks}) - 1)
TrimRight(line) == SubSeq(line, 1, Greatest({i \in DOMAIN line : line[i] \notin Blanks}))

(* strings.Trim of line ends: empty lines go, lines of blanks stay.            *)
Trimmed(lines) ==
    LET full == {i \in DOMAIN lines : lines[i] # <<>>} IN SubSeq(lines, Least(full), Greatest(full))

(* Faulty variant of CommonIndent: bodies are not taken out of the indentation *)
(* they sat at.                                                                *)
NoIndent(lines) == <<>>

CommonIndent(lines) ==
    LongestCommonPrefix({Indent(lines[i]) : i \in {i \in DOMAIN lines : ~IsBlank(lines[i])}})

(* renderConditionBody, between braces on lines of their own.                  *)
FormatBody(lines) ==
    LET trimmed == Trimmed(lines)
        common == Len(CommonIndent(trimmed))
        ink(l) == SubSeq(TrimRight(l), common + 1, Len(TrimRight(l)))
        line(l) == IF IsBlank(l) THEN <<>> ELSE <<Space, Space>> \o ink(l)
    IN  << <<>> >> \o [i \in DOMAIN trimmed |-> line(trimmed[i])] \o << <<>> >>

-------------------------------------------------------------------------------
FormatterInit == file = FirstFile /\ body = FirstBody /\ keys = 0

(* The author types in the body first, and outside once that is formatted: the *)
(* one is formatted without regard to the other.                               *)
TypingInBody == keys < MaxKeys /\ file = FirstFile
Typing == keys < MaxKeys /\ body = FormatBody(FirstBody) /\ Parses(file)

BreakLine ==
    /\ Typing
    /\ \E p \in 1..(Len(file) + 1) : file' = InsertAt(file, p, Newline)
    /\ keys' = keys + 1
    /\ UNCHANGED body

JoinLines ==
    /\ Typing
    /\ \E p \in DOMAIN file :
            /\ file[p] = Newline
            /\ p > 1 => file[p - 1] # Comment
            /\ file' = RemoveAt(file, p)
    /\ keys' = keys + 1
    /\ UNCHANGED body

WriteComment ==
    /\ Typing
    /\ \E p \in 1..(Len(file) + 1) :
            /\ p > 1 => file[p - 1] # Comment
            /\ file' = InsertAt(InsertAt(file, p, Newline), p, Comment)
    /\ keys' = keys + 1
    /\ UNCHANGED body

BreakBodyLine ==
    /\ TypingInBody
    /\ \E i \in DOMAIN body : \E at \in 0..Len(body[i]) :
            body' = SubSeq(body, 1, i - 1)
                        \o <<SubSeq(body[i], 1, at), SubSeq(body[i], at + 1, Len(body[i]))>>
                        \o SubSeq(body, i + 1, Len(body))
    /\ keys' = keys + 1
    /\ UNCHANGED file

IndentBodyLine ==
    /\ TypingInBody
    /\ \E i \in DOMAIN body, blank \in Blanks : \E at \in 0..Len(body[i]) :
            body' = [body EXCEPT ![i] = InsertAt(@, at + 1, blank)]
    /\ keys' = keys + 1
    /\ UNCHANGED file

(* Nothing is done to a file that does not parse.                              *)
FormatFile ==
    /\ UNCHANGED keys
    /\ Parses(file)
    /\ body' = FormatBody(body)
    /\ file' = Format(file)

FormatterNext == BreakLine \/ JoinLines \/ WriteComment \/ BreakBodyLine \/ IndentBodyLine \/ FormatFile

-------------------------------------------------------------------------------
(* A group that begins with a comment, which is written in place of the group  *)
(* and takes the parenthesis and all behind it with it.                        *)
GroupOpensWithComment(f) ==
    LET place == Place(f)
    IN  \E n \in DOMAIN Node :
            Node[n].kind = "grouping"
                /\ \E p \in place[Node[n].first]..place[Node[Node[n].kids[1]].first] : f[p] = Comment

(* Formatting keeps every token of the file, in order, wherever lines are      *)
(* broken and comments are put, with one exception in which it always breaks   *)
(* the file.                                                                   *)
FormattingKeepsTheModel ==
    [][FormatFile => (Parses(file') <=> ~GroupOpensWithComment(file))]_formatterVars

(* Whether a blank line stands in front of a token or comment.                 *)
BlankLineBefore(f, p) == p > 2 /\ f[p - 1] = Newline /\ f[p - 2] = Newline

BlockStarts == {1} \cup
    {Node[Node[n].kids[1]].first : n \in {n \in DOMAIN Node : Node[n].kind = "relations_block"}}
LineStarts ==
    {Node[n].first : n \in {n \in DOMAIN Node :
        Node[n].kind \in {"module_header", "type_definition", "condition", "relation_definition"}}}
    \cup {Len(Source) + 1}

(* The comments in front of each declaration and relation and at the end, and  *)
(* those themselves: which of them have a blank line before them.  The first   *)
(* of a file or a type has none.                                               *)
Layout(f) ==
    LET place == <<0>> \o Place(f) \o <<Len(f) + 1>>
        shown(i) == SelectSeq([p \in 1..Len(f) |-> p],
                        LAMBDA p : place[i] < p /\ p <= place[i + 1] /\ f[p] # Newline)
        first(i) == IF i \in BlockStarts THEN Head(shown(i)) ELSE 0
        apart(i, p) == p # first(i) /\ BlankLineBefore(f, p)
    IN  [i \in LineStarts |-> [j \in DOMAIN shown(i) |-> apart(i, shown(i)[j])]]

(* The comments between declarations and between relations stay where they     *)
(* are, and declarations, relations and comments that the author set apart by  *)
(* blank lines stay apart.                                                     *)
AuthorsLayoutSurvives ==
    [][FormatFile /\ Parses(file') => Layout(file') = Layout(file)]_formatterVars

(* What is formatted stays as it is when formatted again, on every save; only  *)
(* a body that begins or ends with a line of blanks takes a second time.       *)
FormattingSettles ==
    [][FormatFile =>
        LET lines == Trimmed(body)
        IN  /\ Parses(file') => Format(file') = file'
            /\ FormatBody(body') # body' <=> IsBlank(lines[1]) \/ IsBlank(lines[Len(lines)])
            /\ FormatBody(FormatBody(body')) = FormatBody(body')]_formatterVars
===============================================================================
