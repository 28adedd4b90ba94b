------------------------------ MODULE NotamText ------------------------------
(***************************************************************************)
(* The text of Items D and E, wrapped into the lines of a NOTAM and then   *)
(* of an AFTN envelope.  A word is its length; a piece is a word or a part *)
(* of one that was too long; a line is its pieces and its length, which    *)
(* counts a label such as "E)" and the spaces.                             *)
(***************************************************************************)
EXTENDS Integers, SequencesExt

CONSTANTS
  Width,      \* of a line of AFTN
  Label,      \* length of the label of an item
  Words,      \* [len, label, ita2]: its length, whether it reads like the
              \* label, and whether AFTN can transmit it
  MaxWords    \* bound: words of an item

WidthAssumption ==
  /\ Width \in Nat /\ MaxWords \in Nat
  /\ Label \in 1 .. Width - 1
  /\ Words \subseteq [len : Nat \ {0}, label : BOOLEAN, ita2 : BOOLEAN]
  /\ \A w \in Words : w.label => w.len = Label /\ w.ita2

VARIABLES
  items,      \* the words of each item that is not empty
  message,    \* for each item, its lines
  envelope,   \* the lines of the envelope
  stage

vars == <<items, message, envelope, stage>>

Texts == UNION {[1 .. n -> Words] : n \in 1 .. MaxWords}
Items == {<<e>> : e \in Texts} \cup {<<<<d>>, e>> : d \in Words, e \in Texts}
InitWith(typed) ==
  /\ items \in typed
  /\ message = <<>> /\ envelope = <<>>
  /\ stage = "typed"
Init == InitWith(Items)

-----------------------------------------------------------------------------
Piece(w, len) == [word |-> w, len |-> len]
Cut(line, piece) ==
  [pieces |-> Append(line.pieces, piece), len |-> line.len + piece.len]
Joined(line, piece) ==
  [pieces |-> Append(line.pieces, piece),
   len |-> line.len + (IF line.len = 0 THEN 0 ELSE 1) + piece.len]
Alone(piece) == [pieces |-> <<piece>>, len |-> piece.len]

\* The line under construction reads like the label it began with.
IsLabel(line, label) ==
  /\ line.len = label
  /\ \A i \in DOMAIN line.pieces : line.pieces[i].word.label

\* The full lines and the last one that a long word takes after `room`.
Full(piece, room) == IF piece.len <= room THEN 0 ELSE (piece.len - room - 1) \div Width
Chopped(piece, room) ==
  [i \in 1 .. Full(piece, room) |-> Alone(Piece(piece.word, Width))]
Tail_(piece, room) ==
  LET rest == piece.len - room - Full(piece, room) * Width
  IN  IF rest > 0 THEN Alone(Piece(piece.word, rest)) ELSE [pieces |-> <<>>, len |-> 0]

\* One turn of the loop over the words.
AddWord_WithoutRest(label, done, piece) ==
  LET line == done.line
      room == Width - line.len
  IN  IF Joined(line, piece).len <= Width
      THEN [done EXCEPT !.line = Joined(line, piece)]
      ELSE IF line.len = 0 \/ IsLabel(line, label)
      THEN [lines |-> Append(done.lines, Cut(line, Piece(piece.word, room))),
            line |-> Tail_(piece, piece.len)]
      ELSE [lines |-> Append(done.lines, line), line |-> Alone(piece)]
AddWord(label, done, piece) ==
  LET line == done.line
      room == Width - line.len
  IN  IF Joined(line, piece).len <= Width
      THEN [done EXCEPT !.line = Joined(line, piece)]
      ELSE IF line.len = 0 \/ IsLabel(line, label)
      THEN [lines |-> Append(done.lines, Cut(line, Piece(piece.word, room)))
                        \o Chopped(piece, room),
            line |-> Tail_(piece, room)]
      ELSE [lines |-> Append(done.lines, line), line |-> Alone(piece)]

\* wrap_notam_text with a label; with none, the wrapping of one AFTN line.
Wrap(label, pieces) ==
  LET Add(done, piece) == AddWord(label, done, piece)
      end == FoldLeft(Add, [lines |-> <<>>, line |-> [pieces |-> <<>>, len |-> label]], pieces)
  IN  IF end.line.len = 0 \/ IsLabel(end.line, label) THEN end.lines
                                                      ELSE Append(end.lines, end.line)

\* The message ends with a parenthesis, on a line of its own if need be.
Close(lines) ==
  IF lines # <<>> /\ Last(lines).len + 1 <= Width
  THEN [lines EXCEPT ![Len(lines)].len = @ + 1]
  ELSE Append(lines, [pieces |-> <<>>, len |-> 1])

Format ==
  /\ stage = "typed"
  /\ LET lines == [i \in DOMAIN items |->
                     Wrap(Label, [j \in DOMAIN items[i] |-> Piece(items[i][j], items[i][j].len)])]
     IN  message' = [lines EXCEPT ![Len(items)] = Close(@)]
  /\ stage' = "formatted"
  /\ UNCHANGED <<items, envelope>>

\* wrap_aftn_lines leaves a line that fits alone.
Rewrap(line) == IF line.len <= Width THEN <<line>> ELSE Wrap(0, line.pieces)

Ita2(lines) ==
  \A i \in DOMAIN lines :
    lines[i].len <= Width /\ \A j \in DOMAIN lines[i].pieces : lines[i].pieces[j].word.ita2

\* What is not transmittable is a failed delivery.
BuildEnvelope ==
  /\ stage = "formatted"
  /\ envelope' = FlattenSeq([i \in DOMAIN FlattenSeq(message) |-> Rewrap(FlattenSeq(message)[i])])
  /\ stage' = IF Ita2(envelope') THEN "ready" ELSE "failed"
  /\ UNCHANGED <<items, message>>

Next == Format \/ BuildEnvelope

Spec == Init /\ [][Next]_vars

-----------------------------------------------------------------------------
TypeOK ==
  /\ stage \in {"typed", "formatted", "ready", "failed"}
  /\ \A lines \in Range(message) \cup {envelope} : \A line \in Range(lines) :
       /\ line.len \in Nat \ {0}
       /\ \A piece \in Range(line.pieces) : piece.len \in 1 .. piece.word.len

\* The words that lines spell: pieces are put together until the word is whole.
Whole(words) == [words |-> words, open |-> 0]
Spelt(lines) ==
  LET pieces == FlattenSeq([l \in DOMAIN lines |-> lines[l].pieces])
      Add(done, p) == IF done.open = 0
                      THEN [words |-> Append(done.words, p.word), open |-> p.word.len - p.len]
                      ELSE [done EXCEPT !.open = @ - p.len]
  IN  FoldLeft(Add, Whole(<<>>), pieces)

\* Every word of an item is in its lines, whole and in its place; only a last
\* word that reads like the label, alone on its line, is lost, and the
\* envelope has the text of the message (wrap_notam_text, wrap_aftn_lines).
TextIsKept ==
  stage # "typed" =>
    /\ \A i \in DOMAIN items :
         LET spelt == Spelt(message[i]) IN
         spelt = Whole(items[i]) \/ (Last(items[i]).label /\ spelt = Whole(Front(items[i])))
    /\ envelope # <<>> => Spelt(envelope) = Spelt(FlattenSeq(message))

\* An item takes the fewest lines: no line could have held the first word of
\* the next one.
LinesAreFull ==
  \A i \in DOMAIN message : \A l \in 2 .. Len(message[i]) :
    LET next == message[i][l].pieces IN
    next # <<>> => message[i][l - 1].len + 1 + next[1].len > Width

\* A text that AFTN can transmit always makes an envelope, although a line of
\* the message may be too wide (build_envelope; PublicationDelivery "failed").
TransmittableIsSent ==
  stage = "failed" => \E i \in DOMAIN items : \E j \in DOMAIN items[i] : ~items[i][j].ita2

\* wrap_notam_text: all lines "are strictly within `width` characters".
LinesFit == \A i \in DOMAIN message : \A l \in DOMAIN message[i] : message[i][l].len <= Width
=============================================================================
