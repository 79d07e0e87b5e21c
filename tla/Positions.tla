------------------------------ MODULE Positions ------------------------------
(* Offsets into a source text. The parser counts bytes, an editor counts      *)
(* lines and UTF-16 units, and a syntax error comes as a row and a column in  *)
(* bytes. A text is a sequence of characters [bytes, units, newline].         *)
EXTENDS Naturals, SequencesExt, FiniteSetsExt

Total(chars, size(_)) ==
  LET sum[n \in 0..Len(chars)] == IF n = 0 THEN 0 ELSE sum[n - 1] + size(chars[n])
  IN  sum[Len(chars)]

Bytes(chars) == Total(chars, LAMBDA c : c.bytes)
Units(chars) == Total(chars, LAMBDA c : c.units)
Before(source, n) == SubSeq(source, 1, n)
Boundaries(source) == {Bytes(Before(source, n)) : n \in 0..Len(source)}

(* The characters that end at or before a byte: within a character the offset *)
(* falls back to its start, past the text to its end.                         *)
Prefix(source, byte) ==
  Before(source, Max({n \in 0..Len(source) : Bytes(Before(source, n)) <= byte}))

LastNewline(chars) == Max({0} \union {i \in DOMAIN chars : chars[i].newline})
Rest(chars) == SubSeq(chars, LastNewline(chars) + 1, Len(chars))

(* utf16_position *)
Position(source, byte) ==
  LET prefix == Prefix(source, byte)
  IN  [line |-> Cardinality({i \in DOMAIN prefix : prefix[i].newline}),
       character |-> Units(Rest(prefix))]

(* The lines of a text, each with its newline. *)
FirstLines(source, row) ==
  LET last == {i \in DOMAIN source : /\ source[i].newline
                 /\ Cardinality({j \in 1..i : source[j].newline}) = row}
  IN  IF row = 0 THEN <<>> ELSE IF last = {} THEN source ELSE Before(source, Max(last))

AtMost(n, limit) == IF n <= limit THEN n ELSE limit

(* Faulty: the newlines between the lines are not counted.                    *)
PointToByteWithoutNewlines(source, row, column) ==
  AtMost(Bytes(SelectSeq(FirstLines(source, row), LAMBDA c : ~ c.newline)) + column, Bytes(source))

(* point_to_byte *)
PointToByte(source, row, column) ==
  AtMost(Bytes(FirstLines(source, row)) + column, Bytes(source))

(* comparePosition and containsPosition of the facade *)
NotAfter(p, q) == p.line < q.line \/ (p.line = q.line /\ p.character <= q.character)
ContainsPosition(from, to, p) == NotAfter(from, p) /\ NotAfter(p, to)
-----------------------------------------------------------------------------
(* Whatever characters a text has, its offsets survive the way to an editor   *)
(* and back: positions keep the order of bytes, two characters never share    *)
(* one, so that asking by position finds what asking by byte would; and a     *)
(* point of the parser leads to the byte it stands for.                       *)
OffsetsSurvive(source) ==
  /\ \A a, b \in 0..(Bytes(source) + 1) :
       a <= b => NotAfter(Position(source, a), Position(source, b))
  /\ \A a, b \in Boundaries(source) : Position(source, a) = Position(source, b) => a = b
  /\ \A n \in 0..Len(source) :
       LET prefix == Before(source, n) IN
       PointToByte(source, Position(source, Bytes(prefix)).line, Bytes(Rest(prefix))) = Bytes(prefix)
=============================================================================
