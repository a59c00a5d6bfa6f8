------------------------------- MODULE Chunking -------------------------------
(***************************************************************************)
(* How a long text becomes a list of Discord messages                      *)
(* (discord/chunking.py): fenced code is taken apart line by line, packed   *)
(* with the prose around it, and every chunk is given its own fences.       *)
(*                                                                         *)
(* A text is a sequence of lines.  A line is its length, and for a clean    *)
(* run of backticks the length of the run and of the info string behind it  *)
(* (fence is 0 for any other line); blank lines have length 0.              *)
(***************************************************************************)
EXTENDS Naturals, Sequences, FiniteSets, SequencesExt

CONSTANT MaxChars              \* the limit of one message

ChunkingAssumption == MaxChars \in Nat \ {0}

ASSUME ChunkingAssumption

Lines == [len : Nat, fence : Nat, info : Nat]

Line(len, fence, info) == [len |-> len, fence |-> fence, info |-> info]

(* A unit is a piece of one line: fence is that of the block around it, 0 in prose. *)
Units == [line : Nat, len : Nat, fence : Nat, info : Nat]

Unit(line, len, fence, info) == [line |-> line, len |-> len, fence |-> fence, info |-> info]

IsCode(unit) == unit.fence > 0

(***************************************************************************)
(* From lines to units                                                      *)
(***************************************************************************)

(* Whether the fences of a block leave room for one character. *)
Wrappable(line) == 2 * line.fence + line.info + 2 < MaxChars

IsOpener(line) == line.fence > 0 /\ Wrappable(line)

IsCloser(line, fence) == line.fence >= fence /\ line.info = 0

(* Clean fence markers go; every other line is prose or code. *)
TakeLine(parse, line, i) ==
  CASE parse.fence = 0 /\ IsOpener(line) ->
         [parse EXCEPT !.fence = line.fence, !.info = line.info]
    [] parse.fence > 0 /\ IsCloser(line, parse.fence) ->
         [parse EXCEPT !.fence = 0, !.info = 0]
    [] OTHER ->
         [parse EXCEPT !.units = Append(@, Unit(i, line.len, parse.fence, parse.info))]

Parsed(text) ==
  FoldLeft(LAMBDA parse, i : TakeLine(parse, text[i], i),
           [fence |-> 0, info |-> 0, units |-> << >>],
           [i \in DOMAIN text |-> i])

ToUnits(text) == Parsed(text).units

(***************************************************************************)
(* Rendering                                                                *)
(***************************************************************************)

SumOf(s) == FoldLeft(LAMBDA total, n : total + n, 0, s)

(* A unit that begins a run of code: the unit before it is not of a block with the same fence. *)
BeginsRun(units, i) ==
  /\ IsCode(units[i])
  /\ i = 1 \/ units[i - 1].fence # units[i].fence \/ units[i - 1].info # units[i].info

(* The rendered chunk: lines joined by newlines, every run of code between two fence lines. *)
RenderedLen(units) ==
  SumOf([i \in DOMAIN units |->
           units[i].len + 1
           + IF BeginsRun(units, i) THEN 2 * units[i].fence + units[i].info + 2 ELSE 0]) - 1

(* A unit on its own. *)
SoloLen(unit) ==
  IF IsCode(unit) THEN 2 * unit.fence + unit.info + unit.len + 2 ELSE unit.len

(* Mutant: a block that begins behind other text is thought to have no fences. *)
Bug_AppendCost(tail, unit) == 1 + unit.len

(* What a unit adds behind tail, the fence of the last unit of a chunk. *)
AppendCost(tail, unit) ==
  IF IsCode(unit) /\ tail = <<unit.fence, unit.info>> THEN 1 + unit.len ELSE 1 + SoloLen(unit)

TailOf(unit) == <<unit.fence, unit.info>>

(***************************************************************************)
(* Splitting a line that fits no message                                    *)
(***************************************************************************)

(* Code is cut hard, with room for its fences. *)
CodePieces(unit) ==
  LET size  == MaxChars - SoloLen([unit EXCEPT !.len = 0])
      count == (unit.len + size - 1) \div size
  IN [i \in 1..count |->
        [unit EXCEPT !.len = IF i < count THEN size ELSE unit.len - size * (count - 1)]]

(* Prose is cut behind a sentence or a word in the second half of the limit, or at the limit:    *)
(* where depends on the text.                                                                    *)
Cuts[len \in Nat] ==
  IF len <= MaxChars THEN {<<len>>}
  ELSE LET half == IF MaxChars \div 2 > 1 THEN MaxChars \div 2 ELSE 1
       IN UNION {{<<cut>> \o rest : rest \in Cuts[len - cut]} :
                   cut \in {c \in half..MaxChars : c > half \/ c = MaxChars}}

Pieces(unit) ==
  IF IsCode(unit) THEN {CodePieces(unit)}
  ELSE {[i \in DOMAIN cut |-> [unit EXCEPT !.len = cut[i]]] : cut \in Cuts[unit.len]}

(***************************************************************************)
(* Packing                                                                  *)
(***************************************************************************)

EmptyPack == [chunks |-> << >>, buf |-> << >>, size |-> 0]

Flushed(pack) ==
  IF pack.buf = << >> THEN pack.chunks ELSE Append(pack.chunks, pack.buf)

(* A unit too large even alone: its pieces are chunks, the last goes on being packed. *)
TakeLarge(pack, unit) ==
  {[chunks |-> Flushed(pack) \o [i \in 1..(Len(p) - 1) |-> <<p[i]>>],
    buf |-> <<Last(p)>>, size |-> SoloLen(Last(p))] : p \in Pieces(unit)}

TakeUnit(pack, unit) ==
  LET fits == pack.buf # << >>
              /\ pack.size + AppendCost(TailOf(Last(pack.buf)), unit) <= MaxChars
  IN CASE fits ->
            {[pack EXCEPT !.buf = Append(@, unit),
                          !.size = @ + AppendCost(TailOf(Last(pack.buf)), unit)]}
       [] ~fits /\ SoloLen(unit) <= MaxChars ->
            {[chunks |-> Flushed(pack), buf |-> <<unit>>, size |-> SoloLen(unit)]}
       [] OTHER -> TakeLarge(pack, unit)

Packings(units) ==
  {Flushed(pack) : pack \in FoldLeft(LAMBDA packs, unit : UNION {TakeUnit(p, unit) : p \in packs},
                                     {EmptyPack}, units)}

(* rstrip: blank prose at the end of a chunk goes. *)
Stripped(units) ==
  SubSeq(units, 1, LET full == {i \in DOMAIN units : IsCode(units[i]) \/ units[i].len > 0}
                   IN IF full = {} THEN 0 ELSE CHOOSE i \in full : \A j \in full : j <= i)

(* A chunk of which nothing is left is none. *)
Strip(kept, chunk) == IF Stripped(chunk) = << >> THEN kept ELSE Append(kept, Stripped(chunk))

TextLen(text) == SumOf([i \in DOMAIN text |-> text[i].len + 1]) - 1

IsBlank(text) == \A i \in DOMAIN text : text[i].len = 0

(* A text that fits is posted as it is: its lines, fences and all, are one chunk. *)
Verbatim(text) == [i \in DOMAIN text |-> Unit(i, text[i].len, 0, 0)]

ChunkSplits(text) ==
  CASE IsBlank(text)              -> {<< >>}
    [] ~IsBlank(text) /\ TextLen(text) <= MaxChars -> {<<Verbatim(text)>>}
    [] OTHER -> {FoldLeft(Strip, << >>, chunks) : chunks \in Packings(ToUnits(text))}

(***************************************************************************)
(* Properties of a split                                                    *)
(***************************************************************************)

(* No message is longer than the limit, its fences included: Discord would refuse it. *)
ChunksFit(chunks) == \A i \in DOMAIN chunks : RenderedLen(chunks[i]) <= MaxChars

(* Which lines of a text are content: all but clean fence markers. *)
ContentLines(text) == {ToUnits(text)[k].line : k \in DOMAIN ToUnits(text)}

(* How much of a line is among units. *)
Share(units, i) ==
  SumOf([k \in DOMAIN units |-> IF units[k].line = i THEN units[k].len ELSE 0])

(* The answer survives: the pieces of every line that is not a fence marker are in the chunks, in *)
(* order, and make up the line; and when a text is taken apart code stays code, in its own fence. *)
ContentKept(text, chunks) ==
  /\ \A a, b \in DOMAIN chunks : \A j \in DOMAIN chunks[a], k \in DOMAIN chunks[b] :
       a < b \/ (a = b /\ j < k) => chunks[a][j].line <= chunks[b][k].line
  /\ \A i \in ContentLines(text) :
       SumOf([a \in DOMAIN chunks |-> Share(chunks[a], i)]) = text[i].len
  /\ TextLen(text) > MaxChars =>
       \A a \in DOMAIN chunks : \A j \in DOMAIN chunks[a] :
         \E k \in DOMAIN ToUnits(text) :
           chunks[a][j] = [ToUnits(text)[k] EXCEPT !.len = chunks[a][j].len]
=============================================================================
