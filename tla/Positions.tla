------------------------------- MODULE Positions -------------------------------
(* Columns of a text (analysis/position.go) and the ranges of the values in it *)
(* (analysis/modfile.go, storetest.go, feature/target.go), for a text typed    *)
(* one character after the other.  A byte is <<c, k>>, the k-th of the         *)
(* character c; offsets, lines and columns count from 0.                       *)
EXTENDS Integers, Sequences, SequencesExt

CONSTANTS
    Size,      \* Size[c]: the bytes of a character
    Units,     \* Units[c]: its UTF-16 code units
    LF, CR, Colon,
    MaxLength  \* bound: the characters of a text

VARIABLE content  \* the characters typed

Characters == DOMAIN Size

ASSUME CharactersAssumption ==
    /\ Size \in [Characters -> Nat \ {0}] /\ Units \in [Characters -> Nat \ {0}]
    /\ {LF, CR, Colon} \subseteq {c \in Characters : Size[c] = 1}
Bytes(chars) == FlattenSeq([i \in DOMAIN chars |-> [k \in 1..Size[chars[i]] |-> <<chars[i], k>>]])

(* utf8.DecodeRune at an offset: a byte that begins no whole character is      *)
(* decoded alone, as one unit.                                                 *)
Decode(b, offset) ==
    LET c == b[offset + 1][1]
        whole == offset + Size[c] <= Len(b) /\ \A k \in 1..Size[c] : b[offset + k] = <<c, k>>
    IN  IF whole THEN [size |-> Size[c], units |-> Units[c]] ELSE [size |-> 1, units |-> 1]

(* Faulty variant of Utf16Len: characters are counted, not code units.         *)
RuneCount(b) ==
    LET count[i \in 0..Len(b)] == IF i = Len(b) THEN 0 ELSE 1 + count[i + Decode(b, i).size]
    IN  count[0]

(* One character after the other, until the units are in stop.                 *)
Walked(b, stop) ==
    LET at[i \in 0..Len(b)] ==
            LET last == at[i - 1]
                char == Decode(b, last.pos)
            IN  IF i = 0 THEN [pos |-> 0, units |-> 0]
                ELSE IF last.pos = Len(b) \/ last.units \in stop THEN last
                ELSE [pos |-> last.pos + char.size, units |-> last.units + char.units]
    IN  at[Len(b)]

Utf16Len(b) == Walked(b, {}).units

(* Faulty variant of Utf16OffsetToByte: a unit is taken for a byte.            *)
OffsetInBytes(line, offset) == IF offset < Len(line) THEN offset ELSE Len(line)

(* The first character that begins at or behind the offset.                    *)
Utf16OffsetToByte(line, offset) == Walked(line, {units \in Nat : units >= offset}).pos

-------------------------------------------------------------------------------
(* NewLineIndex: where the lines start.                                        *)
Starts(b) ==
    LET starts[i \in 0..Len(b)] ==
            IF i = 0 THEN <<0>> ELSE IF b[i][1] = LF THEN Append(starts[i - 1], i) ELSE starts[i - 1]
    IN  starts[Len(b)]
LineCount(b) == Len(Starts(b))

(* A line without what ends it, nothing beyond the last.                       *)
LineBytes(b, line) ==
    LET starts == Starts(b)
        start == starts[line + 1]
        end == IF line + 1 < Len(starts) THEN starts[line + 2] ELSE Len(b)
        kept == {e \in start..end : \A i \in (e + 1)..end : b[i][1] \in {LF, CR}}
    IN  IF line >= Len(starts) THEN <<>>
        ELSE SubSeq(b, start + 1, CHOOSE e \in kept : \A f \in kept : e <= f)

AtMost(n, limit) == IF n > limit THEN limit ELSE n

PointToPosition(b, row, column) ==
    LET line == AtMost(row, LineCount(b) - 1)
        bytes == LineBytes(b, line)
    IN  [line |-> line, character |-> Utf16Len(SubSeq(bytes, 1, AtMost(column, Len(bytes))))]

PositionToByte(b, pos) ==
    IF pos.line >= LineCount(b) THEN Len(b)
    ELSE Starts(b)[pos.line + 1] + Utf16OffsetToByte(LineBytes(b, pos.line), pos.character)

PositionToPoint(b, pos) ==
    LET line == AtMost(pos.line, LineCount(b) - 1)
    IN  [row |-> line, column |-> Utf16OffsetToByte(LineBytes(b, line), pos.character)]

-------------------------------------------------------------------------------
(* indexBytes: where the value occurs first from an offset on, or -1.          *)
Find(b, from, value) ==
    LET found == {o \in from..(Len(b) - Len(value)) : SubSeq(b, o + 1, o + Len(value)) = value}
    IN  IF found = {} THEN -1 ELSE CHOOSE o \in found : \A p \in found : o <= p

(* Faulty variant of ValueRangeFrom: the value is looked for from the start.   *)
ValueRange(b, line, from, value) ==
    LET offset == Find(LineBytes(b, line), 0, value)
    IN  [start |-> PointToPosition(b, line, offset), end |-> PointToPosition(b, line, offset + Len(value))]

(* scalarRange, valueRangeFrom: the value is looked for from a column on, in   *)
(* its line else, and is the whole line if it is not there.  The column        *)
(* yaml.v3 reports counts characters and is taken for a byte.                  *)
ValueRangeFrom(b, line, from, value) ==
    LET bytes == LineBytes(b, line)
        behind == Find(bytes, IF from > Len(bytes) THEN 0 ELSE from, value)
        offset == IF behind >= 0 THEN behind ELSE Find(bytes, 0, value)
    IN  IF offset < 0
        THEN [start |-> [line |-> line, character |-> 0], end |-> [line |-> line, character |-> Utf16Len(bytes)]]
        ELSE [start |-> PointToPosition(b, line, offset), end |-> PointToPosition(b, line, offset + Len(value))]

(* SplitObject: the type of an object, up to its colon.                        *)
SplitObject(value) ==
    LET colons == {i \in DOMAIN value : value[i][1] = Colon}
    IN  IF colons = {} THEN value ELSE SubSeq(value, 1, (CHOOSE i \in colons : \A j \in colons : i <= j) - 1)

(* subRange from the start of a value.                                         *)
SubRange(range, part) ==
    [start |-> range.start, end |-> [range.start EXCEPT !.character = @ + Utf16Len(part)]]

-------------------------------------------------------------------------------
PositionsInit == content = <<>>

TypeCharacter(c) ==
    /\ Len(content) < MaxLength
    /\ content' = Append(content, c)

-------------------------------------------------------------------------------
(* The offsets between characters.                                             *)
Boundaries(b) == {o \in 0..Len(b) : o = Len(b) \/ b[o + 1][2] = 1}

(* The line of an offset, as tree-sitter counts it.                            *)
RowOf(b, o) ==
    LET starts == Starts(b)
    IN  CHOOSE row \in 0..(Len(starts) - 1) :
            starts[row + 1] <= o /\ (row + 1 < Len(starts) => o < starts[row + 2])

(* What an editor is told of a node leads back to the node: a boundary of      *)
(* characters becomes a position, and the position that boundary, whatever     *)
(* the widths of the characters before it.  What ends a line has no position.  *)
PositionsRoundTrip ==
    LET b == Bytes(content)
    IN  \A o \in Boundaries(b) :
            LET row == RowOf(b, o)
                column == o - Starts(b)[row + 1]
                pos == PointToPosition(b, row, column)
            IN  column <= Len(LineBytes(b, row)) =>
                    PositionToByte(b, pos) = o /\ PositionToPoint(b, pos) = [row |-> row, column |-> column]

(* Any position an editor sends, also inside a surrogate pair, past the end of *)
(* a line or past the last line, is taken to a boundary of characters in its   *)
(* line, and a later one to a later boundary.                                  *)
PositionsLandOnCharacters ==
    LET b == Bytes(content)
        at(line, character) == PositionToByte(b, [line |-> line, character |-> character])
    IN  \A line \in 0..LineCount(b) : \A character \in 0..(2 * Len(content) + 1) :
            /\ at(line, character) \in Boundaries(b)
            /\ at(line, character) <= at(line, character + 1)
            /\ line < LineCount(b) => RowOf(b, at(line, character)) = line

TextBetween(b, range) == SubSeq(b, PositionToByte(b, range.start) + 1, PositionToByte(b, range.end))

(* The range of a value and of its type are exactly those: a rename writes     *)
(* over no other character, if all characters before it on its line are one    *)
(* byte wide.  Else it may be an earlier occurrence of the value, no more.     *)
FieldRangesAreExact ==
    LET b == Bytes(content)
    IN  \A i, j \in 1..Len(content) :
            (i <= j /\ \A k \in DOMAIN content : content[k] \notin {LF, CR}) =>
                LET before == Bytes(SubSeq(content, 1, i - 1))
                    value == Bytes(SubSeq(content, i, j))
                    range == ValueRangeFrom(b, 0, i - 1, value)
                IN  /\ TextBetween(b, range) = value
                    /\ TextBetween(b, SubRange(range, SplitObject(value))) = SplitObject(value)
                    /\ PositionToByte(b, range.start) <= Len(before)
                    /\ Len(before) = i - 1 => PositionToByte(b, range.start) = Len(before)
===============================================================================
