--------------------------- MODULE StepTraceProofs ---------------------------
(***************************************************************************)
(* Proofs about StepTrace, for every set of personas, keys and faults and  *)
(* every bound.                                                            *)
(***************************************************************************)
EXTENDS StepTrace, SequenceTheorems, TLAPS

-----------------------------------------------------------------------------
(* Segments, as the drain changes them                                       *)

LEMMA FunctionIsSeq ==
    ASSUME NEW S, NEW n \in Nat, NEW f \in [1..n -> S]
    PROVE  f \in Seq(S) /\ Len(f) = n
<1>1. f \in Seq(S)
  BY SeqDef
<1>2. DOMAIN f = 1..Len(f) /\ Len(f) \in Nat
  BY <1>1, LenProperties
<1> QED
  BY <1>1, <1>2

LEMMA SegmentFields ==
    ASSUME NEW seg \in Segment
    PROVE  /\ seg.message_id \in Nat
           /\ seg.dirty \in BOOLEAN
           /\ seg.persona \in Personas
           /\ seg.rows \in Seq(Row)
           /\ Len(seg.rows) \in Nat
           /\ DOMAIN seg.rows = 1..Len(seg.rows)
<1>1. seg.message_id \in Nat /\ seg.dirty \in BOOLEAN /\ seg.persona \in Personas
  BY DEF Segment
<1>2. seg.rows \in Seq(Row)
  BY DEF Segment
<1> QED
  BY <1>1, <1>2, LenProperties

LEMMA SegmentParts ==
    ASSUME NEW segs \in Seq(Segment), NEW i \in 1..Len(segs)
    PROVE  /\ segs[i] \in Segment
           /\ segs[i].message_id \in Nat
           /\ segs[i].dirty \in BOOLEAN
           /\ segs[i].persona \in Personas
           /\ segs[i].rows \in Seq(Row)
           /\ Len(segs[i].rows) \in Nat
<1>1. segs[i] \in Segment
  BY ElementOfSeq
<1> QED
  BY <1>1, SegmentFields

KeepsRow(old, new) == new = old \/ Resolves(old, new)

(* A segment grows at its end, its rows stay or resolve, its message stays    *)
(* its own, and whatever changed it marked it dirty.                          *)
KeepsSegment(old, new) ==
    /\ new.message_id = old.message_id
    /\ new = old \/ new.dirty = TRUE
    /\ Len(new.rows) >= Len(old.rows)
    /\ \A r \in 1..Len(old.rows) : KeepsRow(old.rows[r], new.rows[r])

Fresh(seg) == seg.message_id = 0 /\ seg.dirty = TRUE

(* What every change the drain makes to the segments keeps.                   *)
Keeps(segs, new) ==
    /\ new \in Seq(Segment)
    /\ Len(new) >= Len(segs)
    /\ \A i \in 1..Len(segs) : KeepsSegment(segs[i], new[i])
    /\ \A i \in (Len(segs) + 1)..Len(new) : Fresh(new[i])

LEMMA KeepsSegmentReflexive ==
    ASSUME NEW seg \in Segment
    PROVE  KeepsSegment(seg, seg)
  BY SegmentFields DEF KeepsSegment, KeepsRow

LEMMA KeepsReflexive ==
    ASSUME NEW segs \in Seq(Segment)
    PROVE  Keeps(segs, segs)
<1>1. Len(segs) \in Nat /\ \A i \in 1..Len(segs) : KeepsSegment(segs[i], segs[i])
  BY ElementOfSeq, KeepsSegmentReflexive
<1> QED
  BY <1>1 DEF Keeps

LEMMA KeepsSegmentTransitive ==
    ASSUME NEW a \in Segment, NEW b \in Segment, NEW c \in Segment,
           KeepsSegment(a, b), KeepsSegment(b, c)
    PROVE  KeepsSegment(a, c)
<1>1. Len(a.rows) \in Nat /\ Len(b.rows) \in Nat /\ Len(c.rows) \in Nat
  BY SegmentFields
<1>2. c.message_id = a.message_id /\ Len(c.rows) >= Len(a.rows)
  BY <1>1 DEF KeepsSegment
<1>3. c = a \/ c.dirty = TRUE
  BY DEF KeepsSegment
<1>4. ASSUME NEW r \in 1..Len(a.rows)
      PROVE  KeepsRow(a.rows[r], c.rows[r])
  <2>1. KeepsRow(a.rows[r], b.rows[r])
    BY DEF KeepsSegment
  <2>2. r \in 1..Len(b.rows)
    BY <1>1 DEF KeepsSegment
  <2>3. KeepsRow(b.rows[r], c.rows[r])
    BY <2>2 DEF KeepsSegment
  <2>4. ~(Resolves(a.rows[r], b.rows[r]) /\ Resolves(b.rows[r], c.rows[r]))
    BY DEF Resolves
  <2> QED
    BY <2>1, <2>3, <2>4 DEF KeepsRow
<1> QED
  BY <1>2, <1>3, <1>4 DEF KeepsSegment

LEMMA KeepsTransitive ==
    ASSUME NEW a \in Seq(Segment), NEW b, NEW c, Keeps(a, b), Keeps(b, c)
    PROVE  Keeps(a, c)
<1>1. /\ b \in Seq(Segment) /\ c \in Seq(Segment)
      /\ Len(a) \in Nat /\ Len(b) \in Nat /\ Len(c) \in Nat
      /\ Len(a) <= Len(b) /\ Len(b) <= Len(c)
  BY DEF Keeps
<1>2. ASSUME NEW i \in 1..Len(a) PROVE KeepsSegment(a[i], c[i])
  <2>1. i \in 1..Len(b) /\ i \in 1..Len(c)
    BY <1>1
  <2>2. KeepsSegment(a[i], b[i]) /\ KeepsSegment(b[i], c[i])
    BY <2>1 DEF Keeps
  <2>3. a[i] \in Segment /\ b[i] \in Segment /\ c[i] \in Segment
    BY <1>1, <2>1, ElementOfSeq
  <2> QED
    BY <2>2, <2>3, KeepsSegmentTransitive
<1>3. ASSUME NEW i \in (Len(a) + 1)..Len(c) PROVE Fresh(c[i])
  <2>1. CASE i <= Len(b)
    <3>1. i \in (Len(a) + 1)..Len(b) /\ i \in 1..Len(b)
      BY <1>1, <2>1
    <3>2. Fresh(b[i]) /\ KeepsSegment(b[i], c[i])
      BY <3>1 DEF Keeps
    <3> QED
      BY <3>2 DEF Fresh, KeepsSegment
  <2>2. CASE i > Len(b)
    <3>1. i \in (Len(b) + 1)..Len(c)
      BY <1>1, <2>2
    <3> QED
      BY <3>1 DEF Keeps
  <2>3. i <= Len(b) \/ i > Len(b)
    BY <1>1
  <2> QED
    BY <2>1, <2>2, <2>3
<1>4. Len(c) >= Len(a)
  BY <1>1
<1> QED
  BY <1>1, <1>2, <1>3, <1>4 DEF Keeps

(* A change to one segment that resolves or adds rows and marks it dirty.     *)
OneChanged(segs, n, seg, new) == new = [segs EXCEPT ![n] = seg]

LEMMA ChangedKeeps ==
    ASSUME NEW segs \in Seq(Segment), NEW n \in 1..Len(segs), NEW seg \in Segment,
           KeepsSegment(segs[n], seg),
           NEW new, OneChanged(segs, n, seg, new)
    PROVE  /\ Keeps(segs, new) /\ Len(new) = Len(segs) /\ new[n] = seg
           /\ \A i \in 1..Len(segs) : i # n => new[i] = segs[i]
<1>1. /\ new \in Seq(Segment)
      /\ Len(new) = Len(segs)
      /\ \A j \in 1..Len(segs) : new[j] = IF j = n THEN seg ELSE segs[j]
  BY ExceptSeq DEF OneChanged
<1>2. \A i \in 1..Len(segs) : KeepsSegment(segs[i], segs[i])
  BY ElementOfSeq, KeepsSegmentReflexive
<1>3. \A i \in 1..Len(segs) : KeepsSegment(segs[i], new[i])
  BY <1>1, <1>2
<1>4. Len(segs) \in Nat
  OBVIOUS
<1>5. \A i \in (Len(segs) + 1)..Len(new) : FALSE
  BY <1>1, <1>4
<1> QED
  BY <1>1, <1>3, <1>4, <1>5 DEF Keeps

-----------------------------------------------------------------------------
(* _append: the row goes to the end of the last segment or opens a new one.   *)
(* An append leaves every row there was as it was.                            *)
Extends(segs, new) ==
    \A i \in 1..Len(segs) : \A r \in 1..Len(segs[i].rows) : new[i].rows[r] = segs[i].rows[r]

LEMMA AppendedKeeps ==
    ASSUME NEW segs \in Seq(Segment), NEW p \in Personas, NEW row \in Row,
           NEW overflow \in BOOLEAN,
           NEW new, new = Appended(segs, p, row, overflow)
    PROVE  /\ Keeps(segs, new)
           /\ Extends(segs, new)
           /\ Len(new) # 0
           /\ Len(new[Len(new)].rows) # 0
           /\ new[Len(new)].rows[Len(new[Len(new)].rows)] = row
<1>1. CASE NeedsSegment(segs, p, overflow)
  <2> DEFINE fresh == [persona |-> p, rows |-> <<row>>, message_id |-> 0, dirty |-> TRUE]
  <2>1. fresh \in Segment /\ Fresh(fresh) /\ fresh.rows = <<row>>
    BY DEF Segment, Fresh
  <2>2. new = Append(segs, fresh)
    BY <1>1 DEF Appended
  <2> HIDE DEF fresh
  <2>3. /\ new \in Seq(Segment)
        /\ Len(segs) \in Nat
        /\ Len(new) = Len(segs) + 1
        /\ new[Len(new)] = fresh
        /\ \A i \in 1..Len(segs) : new[i] = segs[i]
    BY <2>1, <2>2
  <2>4. \A i \in 1..Len(segs) : KeepsSegment(segs[i], new[i])
    BY <2>3, ElementOfSeq, KeepsSegmentReflexive
  <2>5. \A i \in (Len(segs) + 1)..Len(new) : Fresh(new[i])
    BY <2>1, <2>3
  <2>6. Keeps(segs, new)
    BY <2>3, <2>4, <2>5 DEF Keeps
  <2>7. Len(<<row>>) = 1 /\ <<row>>[1] = row
    OBVIOUS
  <2>8. new[Len(new)].rows = <<row>>
    BY <2>1, <2>3
  <2>9. Extends(segs, new)
    BY <2>3 DEF Extends
  <2> QED
    BY <2>3, <2>6, <2>7, <2>8, <2>9
<1>2. CASE ~NeedsSegment(segs, p, overflow)
  <2> DEFINE n == Len(segs)
             old == segs[n]
             grown == [old EXCEPT !.rows = Append(@, row), !.dirty = TRUE]
  <2>1. n \in 1..Len(segs) /\ old \in Segment
    BY <1>2, ElementOfSeq DEF NeedsSegment
  <2>2. /\ Append(old.rows, row) \in Seq(Row)
        /\ Len(old.rows) \in Nat
        /\ Len(Append(old.rows, row)) = Len(old.rows) + 1
        /\ Append(old.rows, row)[Len(old.rows) + 1] = row
        /\ \A r \in 1..Len(old.rows) : Append(old.rows, row)[r] = old.rows[r]
    BY <2>1 DEF Segment
  <2>3. /\ grown \in Segment
        /\ grown.message_id = old.message_id
        /\ grown.dirty = TRUE
        /\ grown.rows = Append(old.rows, row)
    BY <2>1, <2>2 DEF Segment
  <2>4. OneChanged(segs, n, grown, new)
    BY <1>2, <2>1 DEF Appended, OneChanged
  <2>5. KeepsSegment(old, grown)
    <3> HIDE DEF grown
    <3> QED
      BY <2>2, <2>3 DEF KeepsSegment, KeepsRow
  <2> HIDE DEF grown
  <2>6. Keeps(segs, new) /\ Len(new) = Len(segs) /\ new[n] = grown
        /\ \A i \in 1..Len(segs) : i # n => new[i] = segs[i]
    BY <2>1, <2>3, <2>4, <2>5, ChangedKeeps
  <2>7. Extends(segs, new)
    <3> SUFFICES ASSUME NEW i \in 1..Len(segs), NEW r \in 1..Len(segs[i].rows)
                 PROVE  new[i].rows[r] = segs[i].rows[r]
      BY DEF Extends
    <3> QED
      BY <2>2, <2>3, <2>6
  <2> QED
    BY <2>1, <2>2, <2>3, <2>6, <2>7
<1> QED
  BY <1>1, <1>2

\* A row is in the last segment, which is dirty.
EndsWith(segs, row) ==
    /\ segs[Len(segs)].dirty = TRUE
    /\ \E r \in 1..Len(segs[Len(segs)].rows) : segs[Len(segs)].rows[r] = row

LEMMA AppendedEnds ==
    ASSUME NEW segs \in Seq(Segment), NEW p \in Personas, NEW row \in Row,
           NEW overflow \in BOOLEAN,
           NEW new, new = Appended(segs, p, row, overflow)
    PROVE  EndsWith(new, row)
<1>1. CASE NeedsSegment(segs, p, overflow)
  <2> DEFINE fresh == [persona |-> p, rows |-> <<row>>, message_id |-> 0, dirty |-> TRUE]
  <2>1. fresh \in Segment /\ fresh.rows = <<row>> /\ fresh.dirty = TRUE
    BY DEF Segment
  <2>2. new = Append(segs, fresh)
    BY <1>1 DEF Appended
  <2> HIDE DEF fresh
  <2>3. new[Len(new)] = fresh
    BY <2>1, <2>2
  <2>4. 1 \in 1..Len(<<row>>) /\ <<row>>[1] = row
    OBVIOUS
  <2> QED
    BY <2>1, <2>3, <2>4 DEF EndsWith
<1>2. CASE ~NeedsSegment(segs, p, overflow)
  <2> DEFINE n == Len(segs)
             old == segs[n]
             grown == [old EXCEPT !.rows = Append(@, row), !.dirty = TRUE]
             last == Len(old.rows) + 1
  <2>1. n \in 1..Len(segs) /\ old \in Segment
    BY <1>2, ElementOfSeq DEF NeedsSegment
  <2>2. last \in 1..Len(Append(old.rows, row)) /\ Append(old.rows, row)[last] = row
    BY <2>1 DEF Segment
  <2>3. grown.dirty = TRUE /\ grown.rows = Append(old.rows, row)
    BY <2>1 DEF Segment
  <2>4. new = [segs EXCEPT ![n] = grown]
    BY <1>2, <2>1 DEF Appended
  <2> HIDE DEF grown, last
  <2>5. Len(new) = n /\ new[n] = grown
    BY <2>1, <2>4
  <2> QED
    BY <2>2, <2>3, <2>5 DEF EndsWith
<1> QED
  BY <1>1, <1>2

\* Every row but one is as it was.
SameElsewhere(segs, new, n, m) ==
    \A i \in 1..Len(segs) : \A r \in 1..Len(segs[i].rows) :
        <<i, r>> # <<n, m>> => new[i].rows[r] = segs[i].rows[r]

(* _replace: one pending row of one segment changes to its outcome.           *)
LEMMA ReplacedKeeps ==
    ASSUME NEW segs \in Seq(Segment), NEW n \in 1..Len(segs), NEW m \in 1..Len(segs[n].rows),
           NEW row \in Row, KeepsRow(segs[n].rows[m], row),
           NEW new, new = Replaced(segs, <<n, m>>, row)
    PROVE  Keeps(segs, new) /\ SameElsewhere(segs, new, n, m)
<1> DEFINE old == segs[n]
           seg == [old EXCEPT !.rows[m] = row, !.dirty = TRUE]
<1>1. old \in Segment /\ old.rows \in Seq(Row) /\ Len(old.rows) \in Nat
  BY SegmentParts
<1>2. /\ [old.rows EXCEPT ![m] = row] \in Seq(Row)
      /\ Len([old.rows EXCEPT ![m] = row]) = Len(old.rows)
      /\ \A j \in 1..Len(old.rows) :
           [old.rows EXCEPT ![m] = row][j] = IF j = m THEN row ELSE old.rows[j]
  BY <1>1, ExceptSeq
<1>3. /\ seg \in Segment
      /\ seg.message_id = old.message_id
      /\ seg.dirty = TRUE
      /\ seg.rows = [old.rows EXCEPT ![m] = row]
  BY <1>1, <1>2 DEF Segment
<1>4. OneChanged(segs, n, seg, new)
  BY DEF Replaced, OneChanged
<1>5. KeepsSegment(old, seg)
  <2> HIDE DEF seg
  <2> QED
    BY <1>1, <1>2, <1>3 DEF KeepsSegment, KeepsRow
<1>6. seg \in Segment
  BY <1>3
<1> HIDE DEF seg
<1>7. /\ Keeps(segs, new)
      /\ new[n] = seg
      /\ \A i \in 1..Len(segs) : i # n => new[i] = segs[i]
  BY <1>4, <1>5, <1>6, ChangedKeeps
<1>8. ASSUME NEW i \in 1..Len(segs), NEW r \in 1..Len(segs[i].rows), <<i, r>> # <<n, m>>
      PROVE  new[i].rows[r] = segs[i].rows[r]
  <2>1. CASE i # n
    BY <1>7, <2>1
  <2>2. CASE i = n
    <3>1. r # m /\ r \in 1..Len(old.rows)
      BY <1>8, <2>2
    <3>2. seg.rows[r] = old.rows[r]
      BY <1>2, <1>3, <3>1
    <3> QED
      BY <1>7, <2>2, <3>2
  <2> QED
    BY <2>1, <2>2
<1> QED
  BY <1>7, <1>8 DEF SameElsewhere

(* _seal_entry: every pending row becomes interrupted.                        *)
LEMMA InterruptedSegmentKeeps ==
    ASSUME NEW seg \in Segment, NEW out, out = InterruptedSegment(seg)
    PROVE  out \in Segment /\ KeepsSegment(seg, out)
<1>1. seg.rows \in Seq(Row) /\ Len(seg.rows) \in Nat /\ DOMAIN seg.rows = 1..Len(seg.rows)
  BY SegmentFields
<1>2. \A r \in 1..Len(seg.rows) : seg.rows[r] \in Row
  BY <1>1, ElementOfSeq
<1>3. CASE \E r \in DOMAIN seg.rows : IsPending(seg.rows[r])
  <2> DEFINE rows == [r \in 1..Len(seg.rows) |-> InterruptedRow(seg.rows[r])]
  <2>1. \A row \in Row : InterruptedRow(row) \in Row
    BY DEF InterruptedRow, Row, RowStates
  <2>2. rows \in [1..Len(seg.rows) -> Row]
    BY <1>2, <2>1
  <2>3. rows \in Seq(Row) /\ Len(rows) = Len(seg.rows)
    BY <1>1, <2>2, FunctionIsSeq
  <2>4. \A row \in Row : KeepsRow(row, InterruptedRow(row))
    BY DEF KeepsRow, InterruptedRow, Row, Resolves, IsPending
  <2>5. \A r \in 1..Len(seg.rows) : KeepsRow(seg.rows[r], rows[r])
    BY <1>2, <2>4
  <2>6. out = [seg EXCEPT !.rows = rows, !.dirty = TRUE]
    BY <1>1, <1>3 DEF InterruptedSegment
  <2> HIDE DEF rows
  <2>7. out \in Segment /\ out.message_id = seg.message_id /\ out.dirty = TRUE /\ out.rows = rows
    BY <2>3, <2>6 DEF Segment
  <2> QED
    BY <1>1, <2>3, <2>5, <2>7 DEF KeepsSegment
<1>4. CASE ~ \E r \in DOMAIN seg.rows : IsPending(seg.rows[r])
  <2>1. out = seg
    BY <1>4 DEF InterruptedSegment
  <2> QED
    BY <2>1, KeepsSegmentReflexive
<1> QED
  BY <1>3, <1>4

LEMMA InterruptedKeeps ==
    ASSUME NEW segs \in Seq(Segment), NEW new, new = Interrupted(segs)
    PROVE  Keeps(segs, new) /\ Len(new) = Len(segs)
<1>1. Len(segs) \in Nat /\ DOMAIN segs = 1..Len(segs)
  OBVIOUS
<1>2. \A i \in 1..Len(segs) : segs[i] \in Segment
  BY ElementOfSeq
<1>3. new = [i \in 1..Len(segs) |-> InterruptedSegment(segs[i])]
  BY <1>1 DEF Interrupted
<1>4. \A i \in 1..Len(segs) :
         InterruptedSegment(segs[i]) \in Segment /\ KeepsSegment(segs[i], InterruptedSegment(segs[i]))
  BY <1>2, InterruptedSegmentKeeps
<1>5. new \in [1..Len(segs) -> Segment]
  BY <1>3, <1>4
<1>6. new \in Seq(Segment) /\ Len(new) = Len(segs)
  BY <1>1, <1>5, FunctionIsSeq
<1>7. \A i \in 1..Len(segs) : KeepsSegment(segs[i], new[i])
  BY <1>3, <1>4
<1>8. \A i \in (Len(segs) + 1)..Len(new) : FALSE
  BY <1>1, <1>6
<1> QED
  BY <1>1, <1>6, <1>7, <1>8 DEF Keeps

LEMMA SealEntryKeeps ==
    ASSUME NEW segs \in Seq(Segment), Len(segs) # 0, NEW overflow \in BOOLEAN,
           NEW new, new = SealEntry(segs, overflow)
    PROVE  Keeps(segs, new)
<1> DEFINE mid == Interrupted(segs)
           p == segs[Len(segs)].persona
<1>1. Keeps(segs, mid)
  BY InterruptedKeeps
<1>2. mid \in Seq(Segment)
  BY <1>1 DEF Keeps
<1>3. p \in Personas
  <2>1. Len(segs) \in 1..Len(segs)
    OBVIOUS
  <2> QED
    BY <2>1, SegmentParts
<1>4. SealRow \in Row
  BY DEF SealRow, Row, RowKinds, RowStates
<1>5. new = Appended(mid, p, SealRow, overflow)
  BY DEF SealEntry
<1> HIDE DEF mid, p
<1>6. Keeps(mid, new)
  BY <1>2, <1>3, <1>4, <1>5, AppendedKeeps
<1> QED
  BY <1>1, <1>6, KeepsTransitive
-----------------------------------------------------------------------------
(* The index: a located key leads to a pending row of its own key.            *)

PendingAt(segs, place, k) ==
    /\ place[1] \in 1..Len(segs)
    /\ place[2] \in 1..Len(segs[place[1]].rows)
    /\ segs[place[1]].rows[place[2]].state = "pending"
    /\ segs[place[1]].rows[place[2]].key = k

LocateInv(segs, loc) ==
    /\ loc \in [Keys -> Nat \X Nat]
    /\ \A k \in Keys : loc[k] # NoPlace => PendingAt(segs, loc[k], k)

LEMMA LocateKept ==
    ASSUME NEW segs \in Seq(Segment), NEW new, Keeps(segs, new), Extends(segs, new),
           NEW loc, LocateInv(segs, loc)
    PROVE  LocateInv(new, loc)
<1> SUFFICES ASSUME NEW k \in Keys, loc[k] # NoPlace
             PROVE  PendingAt(new, loc[k], k)
  BY DEF LocateInv
<1>1. PendingAt(segs, loc[k], k)
  BY DEF LocateInv
<1> DEFINE i == loc[k][1]
           r == loc[k][2]
<1>2. i \in 1..Len(segs) /\ r \in 1..Len(segs[i].rows)
  BY <1>1 DEF PendingAt
<1>3. /\ new \in Seq(Segment) /\ Len(segs) \in Nat /\ Len(new) \in Nat /\ Len(new) >= Len(segs)
      /\ KeepsSegment(segs[i], new[i])
  BY <1>2 DEF Keeps
<1>4. i \in 1..Len(new)
  BY <1>2, <1>3
<1>5. Len(segs[i].rows) \in Nat /\ Len(new[i].rows) \in Nat
  BY <1>2, <1>3, <1>4, SegmentParts
<1>6. r \in 1..Len(new[i].rows)
  BY <1>2, <1>3, <1>5 DEF KeepsSegment
<1>7. new[i].rows[r] = segs[i].rows[r]
  BY <1>2 DEF Extends
<1> QED
  BY <1>1, <1>4, <1>6, <1>7 DEF PendingAt

LEMMA LocateCleared == ASSUME NEW segs PROVE LocateInv(segs, [k \in Keys |-> NoPlace])
  BY DEF LocateInv, NoPlace

LEMMA RowTypes ==
    /\ \A k \in Keys \cup {NoKey} : /\ KeyedRow("tool", k, "pending") \in Row
                                    /\ KeyedRow("consult", k, "pending") \in Row
                                    /\ \A result \in Results : KeyedRow("tool", k, result) \in Row
    /\ TextRow \in Row
  BY DEF KeyedRow, TextRow, Row, RowKinds, RowStates

-----------------------------------------------------------------------------
(* Type correctness                                                          *)

FlagsOK ==
    /\ sealed \in BOOLEAN
    /\ wake \in BOOLEAN
    /\ flush_requested \in BOOLEAN
    /\ flushed \in BOOLEAN
    /\ finished \in BOOLEAN
    /\ drain \in {"draining", "barrier", "finishing", "done"}

\* The call in flight is for a segment of the copy the flush iterates over.
WriterOK ==
    /\ writer \in Writer
    /\ writer.pc = "sending" => /\ writer.seg \in 1..writer.upto
                                /\ writer.upto <= Len(segments)

ChannelOK ==
    /\ channel \in Seq(Message)
    /\ \A i \in 1..Len(segments) : segments[i].message_id <= Len(channel)
    /\ faults \in 0..MaxFaults

IndTypeOK ==
    /\ segments \in Seq(Segment)
    /\ LocateInv(segments, locate)
    /\ FlagsOK
    /\ WriterOK
    /\ ChannelOK

\* What every action of the drain leaves to the writer and to Discord.
DrainFrame == UNCHANGED <<writer, channel, faults>>

\* What a step of the run's stream does.
StepEffect ==
    /\ Keeps(segments, segments')
    /\ LocateInv(segments', locate')
    /\ FlagsOK'
    /\ DrainFrame

LEMMA AppendStepEffect ==
    ASSUME IndTypeOK, NEW p \in Personas, NEW row \in Row, NEW overflow \in BOOLEAN,
           AppendStep(p, row, overflow)
    PROVE  /\ Keeps(segments, segments')
           /\ Extends(segments, segments')
           /\ LocateInv(segments', locate)
           /\ LastPlace(segments') \in Nat \X Nat
           /\ row.state = "pending" => PendingAt(segments', LastPlace(segments'), row.key)
           /\ FlagsOK'
           /\ DrainFrame
<1>1. segments \in Seq(Segment) /\ LocateInv(segments, locate) /\ FlagsOK
  BY DEF IndTypeOK
<1>2. segments' = Appended(segments, p, row, overflow)
  BY DEF AppendStep
<1>3. /\ Keeps(segments, segments')
      /\ Extends(segments, segments')
      /\ Len(segments') # 0
      /\ Len(segments'[Len(segments')].rows) # 0
      /\ segments'[Len(segments')].rows[Len(segments'[Len(segments')].rows)] = row
  BY <1>1, <1>2, AppendedKeeps
<1>4. LocateInv(segments', locate)
  BY <1>1, <1>3, LocateKept
<1>5. segments' \in Seq(Segment) /\ Len(segments') \in 1..Len(segments')
  BY <1>3 DEF Keeps
<1>6. Len(segments'[Len(segments')].rows) \in 1..Len(segments'[Len(segments')].rows)
  BY <1>3, <1>5, SegmentParts
<1>7. LastPlace(segments') \in Nat \X Nat
  BY <1>5, <1>6 DEF LastPlace
<1>8. row.state = "pending" => PendingAt(segments', LastPlace(segments'), row.key)
  BY <1>3, <1>5, <1>6 DEF LastPlace, PendingAt
<1>9. FlagsOK' /\ DrainFrame
  BY <1>1 DEF AppendStep, FlagsOK, DrainFrame
<1> QED
  BY <1>3, <1>4, <1>7, <1>8, <1>9

LEMMA LocatePlaced ==
    ASSUME NEW segs, NEW loc, LocateInv(segs, loc), NEW k \in Keys,
           NEW place \in Nat \X Nat, PendingAt(segs, place, k)
    PROVE  LocateInv(segs, [loc EXCEPT ![k] = place])
  BY DEF LocateInv

LEMMA ResolveRowEffect ==
    ASSUME IndTypeOK, NEW k \in Keys, NEW kind, NEW result \in Results,
           ResolveRow(k, kind, result)
    PROVE  StepEffect
<1> DEFINE i == locate[k][1]
           r == locate[k][2]
           old == segments[i].rows[r]
           row == [old EXCEPT !.state = result]
<1>1. segments \in Seq(Segment) /\ LocateInv(segments, locate) /\ FlagsOK
  BY DEF IndTypeOK
<1>2. locate[k] \in Nat \X Nat /\ locate[k] # NoPlace /\ locate[k] = <<i, r>>
  BY <1>1 DEF LocateInv, ResolveRow
<1>3. PendingAt(segments, locate[k], k)
  BY <1>1, <1>2 DEF LocateInv
<1>4. /\ i \in 1..Len(segments)
      /\ r \in 1..Len(segments[i].rows)
      /\ old.state = "pending"
      /\ old.key = k
  BY <1>3 DEF PendingAt
<1>5. old \in Row
  BY <1>1, <1>4, SegmentParts, ElementOfSeq
<1>6. result \in {"ok", "failed", "denied"}
  BY StepTraceAssumption
<1>7. row \in Row /\ KeepsRow(old, row)
  BY <1>4, <1>5, <1>6 DEF Row, RowStates, KeepsRow, Resolves, IsPending
<1>8. segments' = Replaced(segments, <<i, r>>, row)
  BY <1>2 DEF ResolveRow
<1>9. locate' = [locate EXCEPT ![k] = NoPlace] /\ FlagsOK' /\ DrainFrame
  BY <1>1 DEF ResolveRow, Retired, FlagsOK, DrainFrame
<1> HIDE DEF row, i, r
<1>a. row \in Row /\ KeepsRow(segments[i].rows[r], row)
  BY <1>7
<1> HIDE DEF old
<1>10. Keeps(segments, segments') /\ SameElsewhere(segments, segments', i, r)
  BY <1>1, <1>4, <1>a, <1>8, ReplacedKeeps
<1>11. ASSUME NEW h \in Keys, locate'[h] # NoPlace
       PROVE  PendingAt(segments', locate'[h], h)
  <2>1. h # k /\ locate'[h] = locate[h]
    BY <1>1, <1>9, <1>11 DEF LocateInv
  <2>2. PendingAt(segments, locate[h], h)
    BY <1>1, <1>11, <2>1 DEF LocateInv
  <2> DEFINE j == locate[h][1]
             q == locate[h][2]
  <2>3. /\ j \in 1..Len(segments)
        /\ q \in 1..Len(segments[j].rows)
        /\ segments[j].rows[q].state = "pending"
        /\ segments[j].rows[q].key = h
    BY <2>2 DEF PendingAt
  <2>4. <<j, q>> # <<i, r>>
    BY <1>4, <2>1, <2>3 DEF old
  <2>5. segments'[j].rows[q] = segments[j].rows[q]
    BY <1>10, <2>3, <2>4 DEF SameElsewhere
  <2>6. /\ segments' \in Seq(Segment) /\ Len(segments) \in Nat /\ Len(segments') \in Nat
        /\ Len(segments') >= Len(segments)
        /\ KeepsSegment(segments[j], segments'[j])
    BY <1>1, <1>10, <2>3 DEF Keeps
  <2>7. j \in 1..Len(segments')
    BY <2>3, <2>6
  <2>8. Len(segments[j].rows) \in Nat /\ Len(segments'[j].rows) \in Nat
    BY <1>1, <2>3, <2>6, <2>7, SegmentParts
  <2>9. q \in 1..Len(segments'[j].rows)
    BY <2>3, <2>6, <2>8 DEF KeepsSegment
  <2> QED
    BY <2>1, <2>3, <2>5, <2>7, <2>9 DEF PendingAt
<1>12. LocateInv(segments', locate')
  BY <1>1, <1>9, <1>11 DEF LocateInv, NoPlace
<1> QED
  BY <1>9, <1>10, <1>12 DEF StepEffect

LEMMA StepsEffect ==
    ASSUME IndTypeOK, NEW p \in Personas, NEW overflow \in BOOLEAN, Step(p, overflow)
    PROVE  StepEffect
<1>1. segments \in Seq(Segment) /\ LocateInv(segments, locate)
  BY DEF IndTypeOK
<1>2. ASSUME NEW k \in Keys \cup {NoKey}, NEW kind \in {"tool", "consult"},
             AppendStep(p, KeyedRow(kind, k, "pending"), overflow),
             locate' = IF k = NoKey THEN locate
                       ELSE [locate EXCEPT ![k] = LastPlace(segments')]
      PROVE  StepEffect
  <2> DEFINE row == KeyedRow(kind, k, "pending")
  <2>1. row \in Row /\ row.state = "pending" /\ row.key = k
    BY RowTypes DEF KeyedRow
  <2>2. AppendStep(p, row, overflow)
    BY <1>2
  <2> HIDE DEF row
  <2>3. /\ Keeps(segments, segments')
        /\ LocateInv(segments', locate)
        /\ LastPlace(segments') \in Nat \X Nat
        /\ PendingAt(segments', LastPlace(segments'), k)
        /\ FlagsOK'
        /\ DrainFrame
    BY <2>1, <2>2, AppendStepEffect
  <2>4. CASE k = NoKey
    BY <1>2, <2>3, <2>4 DEF StepEffect
  <2>5. CASE k # NoKey
    <3>1. k \in Keys /\ locate' = [locate EXCEPT ![k] = LastPlace(segments')]
      BY <1>2, <2>5
    <3>2. LocateInv(segments', locate')
      BY <2>3, <3>1, LocatePlaced
    <3> QED
      BY <2>3, <3>2 DEF StepEffect
  <2> QED
    BY <2>4, <2>5
<1>3. ASSUME NEW row \in Row, AppendStep(p, row, overflow), UNCHANGED locate
      PROVE  StepEffect
  BY <1>3, AppendStepEffect DEF StepEffect
<1>4. ASSUME NEW k \in Keys \cup {NoKey}, ToolCall(p, k, overflow)
      PROVE  StepEffect
  BY <1>2, <1>4 DEF ToolCall
<1>5. ASSUME NEW k \in Keys \cup {NoKey}, NEW result \in Results, ToolResult(p, k, result, overflow)
      PROVE  StepEffect
  <2>1. CASE k \in Keys /\ ResolveRow(k, "tool", result)
    BY <2>1, ResolveRowEffect
  <2>2. CASE OrphanResult(p, k, result, overflow)
    BY <1>3, <2>2, RowTypes DEF OrphanResult
  <2> QED
    BY <1>5, <2>1, <2>2 DEF ToolResult
<1>6. ASSUME NEW k \in Keys \cup {NoKey}, Consult(p, k, overflow)
      PROVE  StepEffect
  BY <1>2, <1>6 DEF Consult
<1>7. ASSUME Text(p, overflow)
      PROVE  StepEffect
  BY <1>3, <1>7, RowTypes DEF Text
<1> QED
  BY <1>4, <1>5, <1>6, <1>7 DEF Step

LEMMA DrainEffect ==
    ASSUME IndTypeOK, Drain
    PROVE  StepEffect
<1>1. segments \in Seq(Segment) /\ LocateInv(segments, locate) /\ FlagsOK
  BY DEF IndTypeOK
<1>2. ASSUME UNCHANGED <<segments, locate>>, FlagsOK', DrainFrame
      PROVE  StepEffect
  BY <1>1, <1>2, KeepsReflexive DEF StepEffect
<1>3. ASSUME NEW overflow \in BOOLEAN, Len(segments) # 0,
             segments' = SealEntry(segments, overflow), locate' = [k \in Keys |-> NoPlace],
             FlagsOK', DrainFrame
      PROVE  StepEffect
  BY <1>1, <1>3, SealEntryKeeps, LocateCleared DEF StepEffect
<1>4. ASSUME NEW overflow \in BOOLEAN, Seal(overflow) PROVE StepEffect
  <2>1. FlagsOK' /\ DrainFrame
    BY <1>1, <1>4 DEF Seal, FlagsOK, DrainFrame
  <2> QED
    BY <1>3, <1>4, <2>1 DEF Seal, HasEntry
<1>5. ASSUME NEW overflow \in BOOLEAN, Finish(overflow) PROVE StepEffect
  <2>1. FlagsOK' /\ DrainFrame
    BY <1>1, <1>5 DEF Finish, FinishSignals, FlagsOK, DrainFrame
  <2>2. CASE sealed = TRUE
    BY <1>2, <1>5, <2>1, <2>2 DEF Finish
  <2>3. CASE sealed = FALSE
    BY <1>3, <1>5, <2>1, <2>3 DEF Finish, HasEntry
  <2> QED
    BY <1>1, <2>2, <2>3 DEF FlagsOK
<1>6. CASE FinishNothing
  BY <1>1, <1>2, <1>6 DEF FinishNothing, FlagsOK, DrainFrame, events
<1>7. CASE FinishReturns
  BY <1>1, <1>2, <1>7 DEF FinishReturns, FlagsOK, DrainFrame, events
<1>8. CASE FlushBegins
  BY <1>1, <1>2, <1>8 DEF FlushBegins, ArmBarrier, FlagsOK, DrainFrame
<1>9. CASE FlushReturns
  BY <1>1, <1>2, <1>9 DEF FlushReturns, FlagsOK, DrainFrame, events
<1>10. CASE FlushTimesOut
  BY <1>1, <1>2, <1>10 DEF FlushTimesOut, FlagsOK, DrainFrame
<1>11. CASE \E p \in Personas, overflow \in BOOLEAN : Step(p, overflow)
  BY <1>11, StepsEffect
<1>12. CASE \E k \in Keys, result \in Results : ConsultResult(k, result)
  BY <1>12, ResolveRowEffect DEF ConsultResult
<1> QED
  BY <1>4, <1>5, <1>6, <1>7, <1>8, <1>9, <1>10, <1>11, <1>12 DEF Drain

-----------------------------------------------------------------------------
(* The writer's steps                                                        *)

\* The writer changes only message ids and dirty marks, never rows.
SameRows(segs, new) ==
    /\ new \in Seq(Segment)
    /\ Len(new) = Len(segs)
    /\ \A i \in 1..Len(segs) : new[i].rows = segs[i].rows

\* Where the writer may be after the flush has gone on from a segment.
Goes(segs, from, upto, blocked) ==
    \/ /\ segments' = segs
       /\ Sendable(segs, from, upto, blocked) = {}
       /\ writer'.pc \in {"exited", "spacing"}
       /\ flushed' = TRUE => flushed = TRUE \/ Dirty(segs) = {}
    \/ \E i \in from..upto :
         /\ i \in Sendable(segs, from, upto, blocked)
         /\ \A j \in Sendable(segs, from, upto, blocked) : i <= j
         /\ segments' = [segs EXCEPT ![i] = [segs[i] EXCEPT !.dirty = FALSE]]
         /\ writer'.pc = "sending"
         /\ writer'.seg = i
         /\ writer'.upto = upto
         /\ writer'.blocked = blocked
         /\ writer'.body = segs[i].rows
         /\ flushed' = flushed

LEMMA EndFlushEffect ==
    ASSUME NEW STATE segs, FlagsOK, EndFlush(segs)
    PROVE  /\ segments' = segs
           /\ writer' \in Writer /\ writer'.pc \in {"exited", "spacing"}
           /\ flush_requested' \in BOOLEAN /\ flushed' \in BOOLEAN
           /\ flushed' = TRUE => flushed = TRUE \/ Dirty(segs) = {}
<1>1. writer' = AtRest("exited") \/ writer' = AtRest("spacing")
  BY DEF EndFlush
<1>2. \A pc \in WriterPcs : AtRest(pc) \in Writer /\ AtRest(pc).pc = pc
  BY EmptySeq DEF AtRest, Writer
<1>3. flush_requested' \in BOOLEAN /\ flushed' \in BOOLEAN
  BY DEF EndFlush, FlagsOK
<1>4. flushed' = TRUE => flushed = TRUE \/ Dirty(segs) = {}
  BY DEF EndFlush, FlagsOK, BarrierMet
<1> QED
  BY <1>1, <1>2, <1>3, <1>4 DEF EndFlush, WriterPcs

LEMMA ProceedEffect ==
    ASSUME NEW STATE segs, segs \in Seq(Segment), NEW STATE from, from \in Nat, from >= 1,
           NEW STATE upto, upto \in Nat, upto <= Len(segs),
           NEW STATE blocked, blocked \in BOOLEAN,
           FlagsOK, Proceed(segs, from, upto, blocked)
    PROVE  /\ Goes(segs, from, upto, blocked)
           /\ writer' \in Writer
           /\ flush_requested' \in BOOLEAN /\ flushed' \in BOOLEAN
<1> DEFINE ready == Sendable(segs, from, upto, blocked)
<1>1. CASE ready = {} /\ EndFlush(segs)
  BY <1>1, EndFlushEffect DEF Goes
<1>2. ASSUME NEW i \in ready, \A j \in ready : i <= j,
             segments' = [segs EXCEPT ![i].dirty = FALSE],
             writer' = Sending(i, upto, blocked, segs[i].rows),
             UNCHANGED <<flush_requested, flushed>>
      PROVE  /\ Goes(segs, from, upto, blocked)
             /\ writer' \in Writer
             /\ flush_requested' \in BOOLEAN /\ flushed' \in BOOLEAN
  <2>1. i \in from..upto
    BY DEF Sendable
  <2>2. i \in 1..Len(segs) /\ i \in Nat
    BY <2>1
  <2>3. segs[i].rows \in Seq(Row)
    BY <2>2, SegmentParts
  <2>4. flush_requested \in BOOLEAN /\ flushed \in BOOLEAN /\ finished \in BOOLEAN
    BY DEF FlagsOK
  <2>5. Sending(i, upto, blocked, segs[i].rows) \in Writer
    BY <2>2, <2>3, <2>4 DEF Sending, Writer, WriterPcs
  <2>6. /\ writer'.pc = "sending" /\ writer'.seg = i /\ writer'.upto = upto
        /\ writer'.blocked = blocked /\ writer'.body = segs[i].rows
    BY <1>2 DEF Sending
  <2>7. segments' = [segs EXCEPT ![i] = [segs[i] EXCEPT !.dirty = FALSE]]
    BY <1>2
  <2> QED
    BY <1>2, <2>1, <2>4, <2>5, <2>6, <2>7 DEF Goes
<1> QED
  BY <1>1, <1>2 DEF Proceed

LEMMA SameRowsReflexive ==
    ASSUME NEW segs \in Seq(Segment)
    PROVE  SameRows(segs, segs)
  BY DEF SameRows

\* Marking a segment, or giving it its message, leaves it a segment.
LEMMA MarkedIsSegment ==
    ASSUME NEW seg \in Segment
    PROVE  /\ \A d \in BOOLEAN : /\ [seg EXCEPT !.dirty = d] \in Segment
                                 /\ [seg EXCEPT !.dirty = d].rows = seg.rows
                                 /\ [seg EXCEPT !.dirty = d].message_id = seg.message_id
                                 /\ [seg EXCEPT !.dirty = d].dirty = d
           /\ \A n \in Nat : /\ [seg EXCEPT !.message_id = n] \in Segment
                             /\ [seg EXCEPT !.message_id = n].rows = seg.rows
                             /\ [seg EXCEPT !.message_id = n].message_id = n
                             /\ [seg EXCEPT !.message_id = n].dirty = seg.dirty
  BY DEF Segment

LEMMA OneChangedSameRows ==
    ASSUME NEW segs \in Seq(Segment), NEW n \in 1..Len(segs), NEW seg \in Segment,
           seg.rows = segs[n].rows,
           NEW new, OneChanged(segs, n, seg, new)
    PROVE  /\ SameRows(segs, new)
           /\ \A i \in 1..Len(segs) : new[i] = IF i = n THEN seg ELSE segs[i]
<1>1. /\ new \in Seq(Segment)
      /\ Len(new) = Len(segs)
      /\ \A j \in 1..Len(segs) : new[j] = IF j = n THEN seg ELSE segs[j]
  BY ExceptSeq DEF OneChanged
<1> QED
  BY <1>1 DEF SameRows

\* What Goes says of the segments: at most one mark is cleared.
ClearsAtMost(segs, new) ==
    /\ SameRows(segs, new)
    /\ \A i \in 1..Len(segs) : new[i].message_id = segs[i].message_id

\* What follows from Goes, field by field.
WentOn(segs, from, upto, blocked) ==
    /\ ClearsAtMost(segs, segments')
    /\ writer'.pc = "sending" =>
         /\ writer'.seg \in from..upto
         /\ writer'.upto = upto
         /\ writer'.blocked = blocked
         /\ writer'.seg \in Sendable(segs, from, upto, blocked)
         /\ \A j \in Sendable(segs, from, upto, blocked) : writer'.seg <= j
         /\ writer'.body = segs[writer'.seg].rows
         /\ \A i \in 1..Len(segs) : i # writer'.seg => segments'[i] = segs[i]
         /\ segments'[writer'.seg].dirty = FALSE
         /\ flushed' = flushed
    /\ writer'.pc # "sending" =>
         /\ segments' = segs
         /\ flushed' = TRUE => flushed = TRUE \/ Dirty(segs) = {}
         /\ Sendable(segs, from, upto, blocked) = {}

LEMMA GoesEffect ==
    ASSUME NEW STATE segs, segs \in Seq(Segment), NEW STATE from, from \in Nat, from >= 1,
           NEW STATE upto, upto \in Nat, upto <= Len(segs), NEW STATE blocked,
           Goes(segs, from, upto, blocked)
    PROVE  WentOn(segs, from, upto, blocked)
<1>1. CASE /\ segments' = segs
           /\ Sendable(segs, from, upto, blocked) = {}
           /\ writer'.pc \in {"exited", "spacing"}
           /\ flushed' = TRUE => flushed = TRUE \/ Dirty(segs) = {}
  BY <1>1, SameRowsReflexive DEF ClearsAtMost, WentOn
<1>2. ASSUME NEW i \in from..upto,
             i \in Sendable(segs, from, upto, blocked),
             \A j \in Sendable(segs, from, upto, blocked) : i <= j,
             segments' = [segs EXCEPT ![i] = [segs[i] EXCEPT !.dirty = FALSE]],
             writer'.pc = "sending", writer'.seg = i, writer'.upto = upto,
             writer'.blocked = blocked, writer'.body = segs[i].rows, flushed' = flushed
      PROVE  /\ ClearsAtMost(segs, segments')
             /\ segments'[i].dirty = FALSE
             /\ \A j \in 1..Len(segs) : j # i => segments'[j] = segs[j]
  <2> DEFINE seg == [segs[i] EXCEPT !.dirty = FALSE]
  <2>1. i \in 1..Len(segs)
    OBVIOUS
  <2>2. /\ seg \in Segment /\ seg.rows = segs[i].rows /\ seg.dirty = FALSE
        /\ seg.message_id = segs[i].message_id
    BY <2>1, SegmentParts, MarkedIsSegment
  <2>3. OneChanged(segs, i, seg, segments')
    BY <1>2 DEF OneChanged
  <2> HIDE DEF seg
  <2>4. /\ SameRows(segs, segments')
        /\ \A j \in 1..Len(segs) : segments'[j] = IF j = i THEN seg ELSE segs[j]
    BY <2>1, <2>2, <2>3, OneChangedSameRows
  <2> QED
    BY <2>1, <2>2, <2>4 DEF ClearsAtMost
<1> QED
  BY <1>1, <1>2 DEF Goes, WentOn

LEMMA LocateSameRows ==
    ASSUME NEW segs \in Seq(Segment), NEW new, SameRows(segs, new), NEW loc, LocateInv(segs, loc)
    PROVE  LocateInv(new, loc)
<1>1. \A k \in Keys : PendingAt(segs, loc[k], k) => PendingAt(new, loc[k], k)
  BY DEF PendingAt, SameRows
<1> QED
  BY <1>1 DEF LocateInv

\* The call in flight, and what Discord shows once it took effect.
LEMMA SendingFacts ==
    ASSUME IndTypeOK, writer.pc = "sending"
    PROVE  /\ segments \in Seq(Segment)
           /\ Len(segments) \in Nat
           /\ writer.seg \in 1..Len(segments)
           /\ writer.seg \in Nat /\ writer.seg >= 1
           /\ writer.upto \in Nat /\ writer.upto <= Len(segments)
           /\ writer.seg <= writer.upto
           /\ writer.blocked \in BOOLEAN
           /\ writer.again \in BOOLEAN
           /\ writer.retry_once \in BOOLEAN
           /\ writer.body \in Seq(Row)
           /\ segments[writer.seg] \in Segment
           /\ segments[writer.seg].message_id \in 0..Len(channel)
           /\ channel \in Seq(Message)
           /\ Len(channel) \in Nat
<1>1. /\ segments \in Seq(Segment) /\ writer \in Writer /\ channel \in Seq(Message)
      /\ Len(segments) \in Nat /\ Len(channel) \in Nat
      /\ writer.seg \in 1..writer.upto /\ writer.upto <= Len(segments)
  BY DEF IndTypeOK, WriterOK, ChannelOK
<1>2. /\ writer.seg \in Nat /\ writer.upto \in Nat /\ writer.blocked \in BOOLEAN
      /\ writer.again \in BOOLEAN /\ writer.retry_once \in BOOLEAN /\ writer.body \in Seq(Row)
  BY <1>1 DEF Writer
<1>3. writer.seg \in 1..Len(segments)
  BY <1>1, <1>2
<1>4. /\ segments[writer.seg] \in Segment
      /\ segments[writer.seg].message_id \in 0..Len(channel)
  BY <1>1, <1>3, SegmentParts DEF IndTypeOK, ChannelOK
<1> QED
  BY <1>1, <1>2, <1>3, <1>4

LEMMA DeliveredEffect ==
    ASSUME IndTypeOK, writer.pc = "sending", NEW STATE new, new = Delivered(segments[writer.seg])
    PROVE  /\ new \in Seq(Message)
           /\ Len(new) >= Len(channel)
           /\ \A m \in 1..Len(channel) : new[m].seg = channel[m].seg
           /\ \A m \in 1..Len(channel) :
                m # segments[writer.seg].message_id => new[m] = channel[m]
           /\ Posted(segments[writer.seg]) =>
                /\ Len(new) = Len(channel)
                /\ new[segments[writer.seg].message_id].rows = writer.body
           /\ ~Posted(segments[writer.seg]) =>
                /\ Len(new) = Len(channel) + 1
                /\ new[Len(channel) + 1].seg = writer.seg
                /\ new[Len(channel) + 1].rows = writer.body
<1> DEFINE mid == segments[writer.seg].message_id
<1>1. /\ channel \in Seq(Message) /\ Len(channel) \in Nat /\ mid \in 0..Len(channel)
      /\ writer.body \in Seq(Row) /\ writer.seg \in Nat
  BY SendingFacts
<1>2. CASE Posted(segments[writer.seg])
  <2> DEFINE msg == [channel[mid] EXCEPT !.rows = writer.body]
  <2>1. mid \in 1..Len(channel)
    BY <1>1, <1>2 DEF Posted
  <2>2. channel[mid] \in Message
    BY <1>1, <2>1, ElementOfSeq
  <2>3. msg \in Message /\ msg.seg = channel[mid].seg /\ msg.rows = writer.body
    BY <1>1, <2>2 DEF Message
  <2>4. new = [channel EXCEPT ![mid] = msg]
    BY <1>2 DEF Delivered
  <2> HIDE DEF msg, mid
  <2>5. /\ new \in Seq(Message)
        /\ Len(new) = Len(channel)
        /\ \A m \in 1..Len(channel) : new[m] = IF m = mid THEN msg ELSE channel[m]
    BY <1>1, <2>1, <2>3, <2>4, ExceptSeq
  <2>6. \A m \in 1..Len(channel) : new[m].seg = channel[m].seg
    BY <2>3, <2>5
  <2>7. new[mid].rows = writer.body
    BY <2>1, <2>3, <2>5
  <2>8. \A m \in 1..Len(channel) : m # mid => new[m] = channel[m]
    BY <2>5
  <2>9. Len(new) >= Len(channel)
    BY <1>1, <2>5
  <2> QED
    BY <1>2, <2>5, <2>6, <2>7, <2>8, <2>9 DEF mid
<1>3. CASE ~Posted(segments[writer.seg])
  <2> DEFINE msg == [seg |-> writer.seg, rows |-> writer.body]
  <2>1. msg \in Message /\ msg.seg = writer.seg /\ msg.rows = writer.body
    BY <1>1 DEF Message
  <2>2. new = Append(channel, msg)
    BY <1>3 DEF Delivered
  <2> HIDE DEF msg
  <2>3. /\ new \in Seq(Message)
        /\ Len(new) = Len(channel) + 1
        /\ new[Len(channel) + 1] = msg
        /\ \A m \in 1..Len(channel) : new[m] = channel[m]
    BY <1>1, <2>1, <2>2
  <2> QED
    BY <1>1, <1>3, <2>1, <2>3
<1> QED
  BY <1>2, <1>3

\* The segments a flush goes on with once the call in flight has succeeded.
Acknowledged ==
    IF Posted(segments[writer.seg]) THEN segments
    ELSE [segments EXCEPT ![writer.seg].message_id = Len(channel) + 1]

LEMMA AcknowledgedEffect ==
    ASSUME IndTypeOK, writer.pc = "sending", NEW STATE segs, segs = Acknowledged
    PROVE  /\ SameRows(segments, segs)
           /\ \A i \in 1..Len(segments) : i # writer.seg => segs[i] = segments[i]
           /\ segs[writer.seg].message_id # 0
           /\ segs[writer.seg].dirty = segments[writer.seg].dirty
           /\ Posted(segments[writer.seg]) => segs = segments
           /\ ~Posted(segments[writer.seg]) => segs[writer.seg].message_id = Len(channel) + 1
<1> DEFINE seg == segments[writer.seg]
<1>1. /\ segments \in Seq(Segment) /\ writer.seg \in 1..Len(segments)
      /\ seg \in Segment /\ Len(channel) + 1 \in Nat /\ Len(channel) + 1 # 0
  BY SendingFacts
<1>2. CASE Posted(seg)
  <2>1. segs = segments
    BY <1>2 DEF Acknowledged
  <2> QED
    BY <1>1, <1>2, <2>1, SameRowsReflexive DEF Posted
<1>3. CASE ~Posted(seg)
  <2> DEFINE n == Len(channel) + 1
             new == [seg EXCEPT !.message_id = n]
  <2> HIDE DEF seg, n
  <2>0. seg \in Segment /\ n \in Nat
    BY <1>1 DEF seg, n
  <2>1. /\ new \in Segment /\ new.rows = seg.rows /\ new.dirty = seg.dirty
        /\ new.message_id = n
    BY <2>0, MarkedIsSegment
  <2>2. OneChanged(segments, writer.seg, new, segs)
    BY <1>3 DEF Acknowledged, OneChanged, seg, n
  <2> HIDE DEF new
  <2>3. /\ SameRows(segments, segs)
        /\ \A i \in 1..Len(segments) : segs[i] = IF i = writer.seg THEN new ELSE segments[i]
    BY <1>1, <2>1, <2>2, OneChangedSameRows DEF seg
  <2> QED
    BY <1>1, <1>3, <2>1, <2>3 DEF seg, n
<1> QED
  BY <1>2, <1>3

LEMMA RequeuedEffect ==
    ASSUME IndTypeOK, writer.pc = "sending", NEW STATE segs, segs = Requeued
    PROVE  /\ ClearsAtMost(segments, segs)
           /\ \A i \in 1..Len(segments) : i # writer.seg => segs[i] = segments[i]
           /\ segs[writer.seg].dirty = TRUE
<1> DEFINE seg == segments[writer.seg]
           new == [seg EXCEPT !.dirty = TRUE]
<1>1. /\ segments \in Seq(Segment) /\ writer.seg \in 1..Len(segments) /\ seg \in Segment
  BY SendingFacts
<1>2. /\ new \in Segment /\ new.rows = seg.rows /\ new.dirty = TRUE
      /\ new.message_id = seg.message_id
  BY <1>1, MarkedIsSegment
<1>3. OneChanged(segments, writer.seg, new, segs)
  BY DEF Requeued, OneChanged
<1> HIDE DEF new
<1>4. /\ SameRows(segments, segs)
      /\ \A i \in 1..Len(segments) : segs[i] = IF i = writer.seg THEN new ELSE segments[i]
  BY <1>1, <1>2, <1>3, OneChangedSameRows
<1> QED
  BY <1>1, <1>2, <1>4 DEF ClearsAtMost

\* The four ways a step of the writer goes on, each from a state of Discord and
\* of the segments it has just brought about.
FlushGoes(segs, from, upto, blocked) ==
    /\ Goes(segs, from, upto, blocked)
    /\ writer' \in Writer
    /\ flush_requested' \in BOOLEAN /\ flushed' \in BOOLEAN

LEMMA FlushGoesOK ==
    ASSUME segments \in Seq(Segment), LocateInv(segments, locate), FlagsOK,
           NEW STATE segs, SameRows(segments, segs),
           NEW STATE from, from \in Nat, from >= 1,
           NEW STATE upto, upto \in Nat, upto <= Len(segments), NEW STATE blocked,
           FlushGoes(segs, from, upto, blocked),
           UNCHANGED <<locate, sealed, finished, drain>>, wake' \in BOOLEAN,
           channel' \in Seq(Message), faults' \in 0..MaxFaults,
           \A i \in 1..Len(segments) : segs[i].message_id <= Len(channel')
    PROVE  IndTypeOK'
<1>1. segs \in Seq(Segment) /\ Len(segs) = Len(segments) /\ Len(segments) \in Nat
  BY DEF SameRows
<1>2. /\ ClearsAtMost(segs, segments')
      /\ writer'.pc = "sending" => writer'.seg \in from..upto /\ writer'.upto = upto
  BY <1>1, GoesEffect DEF FlushGoes, WentOn
<1>3. SameRows(segs, segments')
  BY <1>2 DEF ClearsAtMost
<1>4. segments' \in Seq(Segment) /\ Len(segments') = Len(segments)
  BY <1>1, <1>3 DEF SameRows
<1>5. LocateInv(segments', locate')
  BY <1>1, <1>3, LocateSameRows
<1>6. FlagsOK'
  BY DEF FlagsOK, FlushGoes
<1>7. WriterOK'
  BY <1>1, <1>2, <1>4 DEF WriterOK, FlushGoes
<1>8. \A i \in 1..Len(segments') : segments'[i].message_id <= Len(channel')
  BY <1>1, <1>2, <1>4 DEF ClearsAtMost
<1>9. ChannelOK'
  BY <1>8 DEF ChannelOK
<1> QED
  BY <1>4, <1>5, <1>6, <1>7, <1>9 DEF IndTypeOK

LEMMA EndFlushGoes ==
    ASSUME NEW STATE segs, segs \in Seq(Segment), FlagsOK, EndFlush(segs)
    PROVE  /\ segments' = segs
           /\ writer'.pc # "sending"
           /\ UNCHANGED <<sealed, finished, drain>> /\ wake' \in BOOLEAN => FlagsOK'
           /\ WriterOK'
<1>1. /\ segments' = segs
      /\ writer' \in Writer /\ writer'.pc \in {"exited", "spacing"}
      /\ flush_requested' \in BOOLEAN /\ flushed' \in BOOLEAN
  BY EndFlushEffect
<1> QED
  BY <1>1 DEF FlagsOK, WriterOK

\* Each writer step, as one of: the flush goes on, the retry starts, the
\* exception ends the flush, the throttle interval ends.
LEMMA WakesCase ==
    ASSUME IndTypeOK, WriterWakes
    PROVE  /\ writer.pc = "parked"
           /\ FlushGoes(segments, 1, Len(segments), FALSE)
           /\ wake' = FALSE
           /\ UNCHANGED <<locate, sealed, finished, drain, channel, faults>>
<1>1. /\ segments \in Seq(Segment) /\ Len(segments) \in Nat /\ FlagsOK
      /\ Len(segments) <= Len(segments) /\ 1 \in Nat /\ 1 >= 1 /\ FALSE \in BOOLEAN
  BY DEF IndTypeOK
<1>2. Proceed(segments, 1, Len(segments), FALSE)
  BY DEF WriterWakes
<1>3. FlushGoes(segments, 1, Len(segments), FALSE)
  BY <1>1, <1>2, ProceedEffect DEF FlushGoes
<1> QED
  BY <1>3 DEF WriterWakes

LEMMA SucceedsCase ==
    ASSUME IndTypeOK, SendSucceeds
    PROVE  /\ writer.pc = "sending"
           /\ FlushGoes(Acknowledged, writer.seg + 1, writer.upto, writer.blocked)
           /\ channel' = Delivered(segments[writer.seg])
           /\ UNCHANGED <<locate, sealed, wake, finished, drain, faults>>
<1>1. writer.pc = "sending"
  BY DEF SendSucceeds
<1>2. Proceed(Acknowledged, writer.seg + 1, writer.upto, writer.blocked)
  BY DEF SendSucceeds, Acknowledged
<1>3. SameRows(segments, Acknowledged)
  BY <1>1, AcknowledgedEffect
<1>4. /\ Acknowledged \in Seq(Segment) /\ Len(Acknowledged) = Len(segments)
      /\ writer.seg + 1 \in Nat /\ writer.seg + 1 >= 1
      /\ writer.upto \in Nat /\ writer.upto <= Len(segments) /\ writer.blocked \in BOOLEAN
  BY <1>1, <1>3, SendingFacts DEF SameRows
<1>5. FlushGoes(Acknowledged, writer.seg + 1, writer.upto, writer.blocked)
  BY <1>2, <1>4, ProceedEffect DEF FlushGoes, IndTypeOK
<1> QED
  BY <1>1, <1>5 DEF SendSucceeds

\* What a failed call may have done to the channel.
FailedChannel(kind) ==
    channel' = IF kind = "applied" THEN Delivered(segments[writer.seg]) ELSE channel

LEMMA FailsCase ==
    ASSUME IndTypeOK, NEW kind, SendFails(kind)
    PROVE  /\ writer.pc = "sending"
           /\ FailedChannel(kind)
           /\ faults' = CountFault
           /\ UNCHANGED <<locate, sealed, wake, finished, drain>>
           /\ \/ /\ writer' = [writer EXCEPT !.again = TRUE]
                 /\ UNCHANGED <<segments, flush_requested, flushed>>
              \/ /\ Posted(segments[writer.seg])
                 /\ FlushGoes(segments, writer.seg + 1, writer.upto, writer.blocked)
              \/ /\ ~Posted(segments[writer.seg])
                 /\ FlushGoes(Requeued, writer.seg + 1, writer.upto, TRUE)
<1>1. writer.pc = "sending"
  BY DEF SendFails
<1>2. SameRows(segments, Requeued)
  BY <1>1, RequeuedEffect DEF ClearsAtMost
<1>3. /\ segments \in Seq(Segment) /\ FlagsOK
      /\ Requeued \in Seq(Segment) /\ Len(Requeued) = Len(segments)
      /\ writer.seg + 1 \in Nat /\ writer.seg + 1 >= 1
      /\ writer.upto \in Nat /\ writer.upto <= Len(segments) /\ writer.blocked \in BOOLEAN
  BY <1>1, <1>2, SendingFacts DEF SameRows, IndTypeOK
<1>4. Proceed(segments, writer.seg + 1, writer.upto, writer.blocked)
        => FlushGoes(segments, writer.seg + 1, writer.upto, writer.blocked)
  BY <1>3, ProceedEffect DEF FlushGoes
<1>5. Proceed(Requeued, writer.seg + 1, writer.upto, TRUE)
        => FlushGoes(Requeued, writer.seg + 1, writer.upto, TRUE)
  BY <1>3, ProceedEffect DEF FlushGoes
<1>6. \/ /\ writer' = [writer EXCEPT !.again = TRUE]
         /\ UNCHANGED <<segments, flush_requested, flushed>>
      \/ /\ Posted(segments[writer.seg])
         /\ Proceed(segments, writer.seg + 1, writer.upto, writer.blocked)
      \/ /\ ~Posted(segments[writer.seg])
         /\ Proceed(Requeued, writer.seg + 1, writer.upto, TRUE)
  BY DEF SendFails
<1> QED
  BY <1>1, <1>4, <1>5, <1>6 DEF SendFails, FailedChannel

LEMMA CountFaultOK ==
    ASSUME faults \in 0..MaxFaults
    PROVE  CountFault \in 0..MaxFaults /\ (MaxFaults > 0 => CountFault # 0)
  BY StepTraceAssumption DEF CountFault

LEMMA FailedChannelOK ==
    ASSUME IndTypeOK, writer.pc = "sending", NEW kind, FailedChannel(kind)
    PROVE  /\ channel' \in Seq(Message)
           /\ Len(channel') >= Len(channel)
<1>1. Len(channel) \in Nat /\ channel \in Seq(Message)
  BY SendingFacts
<1>2. /\ Delivered(segments[writer.seg]) \in Seq(Message)
      /\ Len(Delivered(segments[writer.seg])) >= Len(channel)
  BY DeliveredEffect
<1> QED
  BY <1>1, <1>2 DEF FailedChannel

-----------------------------------------------------------------------------
(* Theorems: types, and rows that only resolve                               *)

LEMMA InitOK == Init => IndTypeOK
<1> SUFFICES ASSUME Init PROVE IndTypeOK
  OBVIOUS
<1>1. segments \in Seq(Segment) /\ Len(segments) = 0 /\ channel \in Seq(Message)
  BY EmptySeq DEF Init
<1>2. LocateInv(segments, locate)
  BY LocateCleared DEF Init
<1>3. FlagsOK
  BY DEF Init, FlagsOK
<1>4. WriterOK
  BY EmptySeq DEF Init, WriterOK, AtRest, Writer, WriterPcs
<1>5. ChannelOK
  BY <1>1, StepTraceAssumption DEF Init, ChannelOK
<1> QED
  BY <1>1, <1>2, <1>3, <1>4, <1>5 DEF IndTypeOK

LEMMA DrainOK ==
    ASSUME IndTypeOK, Drain
    PROVE  IndTypeOK'
<1>1. /\ Keeps(segments, segments') /\ LocateInv(segments', locate') /\ FlagsOK'
      /\ UNCHANGED <<writer, channel, faults>>
  BY DrainEffect DEF StepEffect, DrainFrame
<1>2. /\ segments \in Seq(Segment) /\ WriterOK /\ ChannelOK
      /\ Len(segments) \in Nat /\ Len(channel) \in Nat
  BY DEF IndTypeOK, ChannelOK
<1>3. segments' \in Seq(Segment) /\ Len(segments') >= Len(segments) /\ Len(segments') \in Nat
  BY <1>1 DEF Keeps
<1>4. WriterOK'
  <2>1. writer.upto \in Nat
    BY <1>2 DEF WriterOK, Writer
  <2> QED
    BY <1>1, <1>2, <1>3, <2>1 DEF WriterOK
<1>5. ASSUME NEW i \in 1..Len(segments')
      PROVE  segments'[i].message_id <= Len(channel')
  <2>1. CASE i \in 1..Len(segments)
    BY <1>1, <1>2, <2>1 DEF Keeps, KeepsSegment, ChannelOK
  <2>2. CASE i \notin 1..Len(segments)
    <3>1. i \in (Len(segments) + 1)..Len(segments')
      BY <1>2, <1>3, <2>2
    <3> QED
      BY <1>1, <1>2, <3>1 DEF Keeps, Fresh
  <2> QED
    BY <2>1, <2>2
<1>6. ChannelOK'
  BY <1>1, <1>2, <1>5 DEF ChannelOK
<1> QED
  BY <1>1, <1>3, <1>4, <1>6 DEF IndTypeOK

LEMMA WriterTaskOK ==
    ASSUME IndTypeOK, WriterTask
    PROVE  IndTypeOK' /\ SameRows(segments, segments')
<1>1. /\ segments \in Seq(Segment) /\ LocateInv(segments, locate) /\ FlagsOK /\ ChannelOK
      /\ WriterOK /\ Len(segments) \in Nat /\ wake \in BOOLEAN /\ faults \in 0..MaxFaults
  BY DEF IndTypeOK, FlagsOK, ChannelOK
<1>2. CASE WriterWakes
  <2>1. /\ FlushGoes(segments, 1, Len(segments), FALSE)
        /\ wake' \in BOOLEAN
        /\ UNCHANGED <<locate, sealed, finished, drain, channel, faults>>
    BY <1>2, WakesCase
  <2>2. /\ 1 \in Nat /\ 1 >= 1 /\ Len(segments) <= Len(segments)
        /\ channel' \in Seq(Message) /\ faults' \in 0..MaxFaults
        /\ \A i \in 1..Len(segments) : segments[i].message_id <= Len(channel')
    BY <1>1, <2>1 DEF ChannelOK
  <2>3. IndTypeOK'
    BY <1>1, <2>1, <2>2, SameRowsReflexive, FlushGoesOK
  <2>4. SameRows(segments, segments')
    BY <1>1, <2>1, <2>2, GoesEffect DEF FlushGoes, WentOn, ClearsAtMost
  <2> QED
    BY <2>3, <2>4
<1>3. CASE SpacingEnds
  <2>1. AtRest("parked") \in Writer /\ AtRest("parked").pc = "parked"
    BY EmptySeq DEF AtRest, Writer, WriterPcs
  <2>2. /\ UNCHANGED <<segments, locate, sealed, wake, flush_requested, flushed, finished,
                       drain, channel, faults>>
        /\ writer' = AtRest("parked")
    BY <1>3 DEF SpacingEnds, events
  <2>3. LocateInv(segments', locate') /\ FlagsOK' /\ ChannelOK' /\ WriterOK'
    BY <1>1, <2>1, <2>2 DEF FlagsOK, ChannelOK, WriterOK
  <2> QED
    BY <1>1, <2>2, <2>3, SameRowsReflexive DEF IndTypeOK
<1>4. CASE SendSucceeds
  <2>1. /\ writer.pc = "sending"
        /\ FlushGoes(Acknowledged, writer.seg + 1, writer.upto, writer.blocked)
        /\ channel' = Delivered(segments[writer.seg])
        /\ UNCHANGED <<locate, sealed, wake, finished, drain, faults>>
    BY <1>4, SucceedsCase
  <2>2. /\ writer.seg + 1 \in Nat /\ writer.seg + 1 >= 1
        /\ writer.upto \in Nat /\ writer.upto <= Len(segments)
        /\ writer.seg \in 1..Len(segments) /\ Len(channel) \in Nat
    BY <2>1, SendingFacts
  <2>3. /\ SameRows(segments, Acknowledged)
        /\ \A i \in 1..Len(segments) : i # writer.seg => Acknowledged[i] = segments[i]
        /\ Posted(segments[writer.seg]) => Acknowledged = segments
        /\ ~Posted(segments[writer.seg]) =>
              Acknowledged[writer.seg].message_id = Len(channel) + 1
    BY <2>1, AcknowledgedEffect
  <2>4. /\ channel' \in Seq(Message)
        /\ Len(channel') >= Len(channel)
        /\ ~Posted(segments[writer.seg]) => Len(channel') = Len(channel) + 1
    BY <2>1, DeliveredEffect
  <2>5. \A i \in 1..Len(segments) : segments[i].message_id \in Nat
    BY <1>1, SegmentParts
  <2>6. Len(channel') \in Nat
    BY <2>4
  <2>7. ASSUME NEW i \in 1..Len(segments)
        PROVE  Acknowledged[i].message_id <= Len(channel')
    <3>1. segments[i].message_id <= Len(channel')
      BY <1>1, <2>2, <2>4, <2>5, <2>6 DEF ChannelOK
    <3> QED
      BY <2>2, <2>3, <2>4, <3>1
  <2>8. IndTypeOK'
    <3> DEFINE segs == Acknowledged
    <3>1. SameRows(segments, segs)
      BY <2>3
    <3>2. wake' \in BOOLEAN /\ faults' \in 0..MaxFaults
      BY <1>1, <2>1
    <3>3. /\ UNCHANGED <<locate, sealed, finished, drain>>
          /\ FlushGoes(segs, writer.seg + 1, writer.upto, writer.blocked)
      BY <2>1
    <3>4. \A i \in 1..Len(segments) : segs[i].message_id <= Len(channel')
      BY <2>7
    <3> QED
      BY <1>1, <2>2, <2>4, <3>1, <3>2, <3>3, <3>4, FlushGoesOK
  <2>9. SameRows(Acknowledged, segments')
    <3>1. Acknowledged \in Seq(Segment) /\ Len(Acknowledged) = Len(segments)
      BY <2>3 DEF SameRows
    <3> QED
      BY <2>1, <2>2, <3>1, GoesEffect DEF FlushGoes, WentOn, ClearsAtMost
  <2>10. SameRows(segments, segments')
    BY <2>3, <2>9 DEF SameRows
  <2> QED
    BY <2>8, <2>10
<1>5. ASSUME NEW kind \in FaultKinds, SendFails(kind)
      PROVE  IndTypeOK' /\ SameRows(segments, segments')
  <2>1. /\ writer.pc = "sending"
        /\ FailedChannel(kind)
        /\ faults' = CountFault
        /\ UNCHANGED <<locate, sealed, wake, finished, drain>>
    BY <1>5, FailsCase
  <2>2. /\ writer.seg + 1 \in Nat /\ writer.seg + 1 >= 1
        /\ writer.upto \in Nat /\ writer.upto <= Len(segments)
        /\ writer \in Writer /\ Len(channel) \in Nat
    BY <1>1, <2>1, SendingFacts DEF WriterOK
  <2>3. channel' \in Seq(Message) /\ Len(channel') >= Len(channel) /\ Len(channel') \in Nat
    BY <2>1, FailedChannelOK
  <2>4. wake' \in BOOLEAN /\ faults' \in 0..MaxFaults
    BY <1>1, <2>1, CountFaultOK
  <2>5. \A i \in 1..Len(segments) :
           segments[i].message_id \in Nat /\ segments[i].message_id <= Len(channel')
    BY <1>1, <2>2, <2>3, SegmentParts DEF ChannelOK
  <2>6. CASE /\ writer' = [writer EXCEPT !.again = TRUE]
             /\ UNCHANGED <<segments, flush_requested, flushed>>
    <3>1. /\ writer' \in Writer /\ writer'.pc = writer.pc
          /\ writer'.seg = writer.seg /\ writer'.upto = writer.upto
      BY <2>2, <2>6 DEF Writer
    <3>2. LocateInv(segments', locate') /\ FlagsOK' /\ ChannelOK' /\ WriterOK'
      BY <1>1, <2>1, <2>3, <2>4, <2>5, <2>6, <3>1 DEF FlagsOK, ChannelOK, WriterOK
    <3> QED
      BY <1>1, <2>6, <3>2, SameRowsReflexive DEF IndTypeOK
  <2>7. CASE FlushGoes(segments, writer.seg + 1, writer.upto, writer.blocked)
    <3>1. IndTypeOK'
      BY <1>1, <2>1, <2>2, <2>3, <2>4, <2>5, <2>7, SameRowsReflexive, FlushGoesOK
    <3> QED
      BY <1>1, <2>2, <2>7, <3>1, GoesEffect DEF FlushGoes, WentOn, ClearsAtMost
  <2>8. CASE FlushGoes(Requeued, writer.seg + 1, writer.upto, TRUE)
    <3> DEFINE segs == Requeued
    <3>1. ClearsAtMost(segments, segs)
      BY <2>1, RequeuedEffect
    <3>2. SameRows(segments, segs)
      BY <3>1 DEF ClearsAtMost
    <3>3. segs \in Seq(Segment) /\ Len(segs) = Len(segments)
      BY <3>2 DEF SameRows
    <3>4. \A i \in 1..Len(segments) : segs[i].message_id <= Len(channel')
      BY <2>5, <3>1 DEF ClearsAtMost
    <3>5. FlushGoes(segs, writer.seg + 1, writer.upto, TRUE)
      BY <2>8
    <3> HIDE DEF segs
    <3>6. IndTypeOK'
      BY <1>1, <2>1, <2>2, <2>3, <2>4, <3>2, <3>4, <3>5, FlushGoesOK
    <3>7. SameRows(segs, segments')
      BY <2>2, <3>3, <3>5, GoesEffect DEF FlushGoes, WentOn, ClearsAtMost
    <3>8. SameRows(segments, segments')
      BY <3>2, <3>7 DEF SameRows
    <3> QED
      BY <3>6, <3>8
  <2> QED
    BY <1>5, <2>6, <2>7, <2>8, FailsCase
<1>6. CASE SendRaises
  <2>1. /\ EndFlush(segments)
        /\ faults' = CountFault
        /\ UNCHANGED <<locate, sealed, wake, finished, drain, channel>>
    BY <1>6 DEF SendRaises
  <2>2. segments' = segments /\ FlagsOK' /\ WriterOK'
    BY <1>1, <2>1, EndFlushGoes
  <2>3. LocateInv(segments', locate') /\ ChannelOK'
    BY <1>1, <2>1, <2>2, CountFaultOK DEF ChannelOK
  <2> QED
    BY <1>1, <2>2, <2>3, SameRowsReflexive DEF IndTypeOK
<1> QED
  BY <1>2, <1>3, <1>4, <1>5, <1>6 DEF WriterTask, SendEnds

LEMMA StutterOK ==
    ASSUME IndTypeOK, UNCHANGED vars
    PROVE  IndTypeOK'
<1>1. UNCHANGED <<segments, locate, sealed, wake, flush_requested, flushed, finished,
                  writer, drain, channel, faults>>
  BY DEF vars, events
<1>2. FlagsOK' /\ WriterOK' /\ ChannelOK'
  BY <1>1 DEF IndTypeOK, FlagsOK, WriterOK, ChannelOK
<1> QED
  BY <1>1, <1>2 DEF IndTypeOK

LEMMA IndTypeOKStep == IndTypeOK /\ [Next]_vars => IndTypeOK'
  BY DrainOK, WriterTaskOK, StutterOK DEF Next, Over

LEMMA IndTypeOKAlways == Spec => []IndTypeOK
  BY InitOK, IndTypeOKStep, PTL DEF Spec

LEMMA IndTypeOKImplies == IndTypeOK => TypeOK
<1> SUFFICES ASSUME IndTypeOK PROVE TypeOK
  OBVIOUS
<1>1. /\ segments \in Seq(Segment) /\ DOMAIN segments = 1..Len(segments)
      /\ LocateInv(segments, locate) /\ FlagsOK /\ WriterOK /\ ChannelOK
  BY DEF IndTypeOK
<1>2. locate \in [Keys -> Nat \X Nat]
  BY <1>1 DEF LocateInv
<1>3. ASSUME NEW k \in Keys, locate[k] # NoPlace
      PROVE  /\ locate[k][1] \in DOMAIN segments
             /\ locate[k][2] \in DOMAIN segments[locate[k][1]].rows
  <2>1. PendingAt(segments, locate[k], k)
    BY <1>1, <1>3 DEF LocateInv
  <2>2. /\ locate[k][1] \in 1..Len(segments)
        /\ locate[k][2] \in 1..Len(segments[locate[k][1]].rows)
    BY <2>1 DEF PendingAt
  <2>3. segments[locate[k][1]].rows \in Seq(Row)
    BY <1>1, <2>2, SegmentParts
  <2> QED
    BY <1>1, <2>2, <2>3
<1>4. writer.pc = "sending" => writer.seg \in DOMAIN segments
  BY <1>1, SendingFacts
<1> QED
  BY <1>1, <1>2, <1>3, <1>4 DEF TypeOK, FlagsOK, WriterOK, ChannelOK

(* The entry keeps its shape: message ids name messages of the channel, the   *)
(* row index names rows that exist, the call in flight is for a segment       *)
(* (_Entry, _Segment, _write_loop).                                           *)
THEOREM TypeCorrect == Spec => []TypeOK
  BY IndTypeOKAlways, IndTypeOKImplies, PTL

(* Whatever order or number of results arrives, and whatever Discord does, a  *)
(* row of the trace never moves or vanishes, and changes once at most.        *)
THEOREM RowsResolveOnce == Spec => RowsOnlyResolve
<1> DEFINE A == \A i \in DOMAIN segments : \A r \in DOMAIN segments[i].rows :
                  LET row == segments[i].rows[r]
                      new == segments'[i].rows[r]
                  IN new = row \/ Resolves(row, new)
<1>1. ASSUME IndTypeOK, [Next]_vars PROVE A
  <2>1. segments \in Seq(Segment) /\ DOMAIN segments = 1..Len(segments)
    BY <1>1 DEF IndTypeOK
  <2>2. \A i \in 1..Len(segments) : DOMAIN segments[i].rows = 1..Len(segments[i].rows)
    BY <2>1, ElementOfSeq, SegmentFields
  <2>3. CASE Drain
    <3>1. Keeps(segments, segments')
      BY <1>1, <2>3, DrainEffect DEF StepEffect
    <3> SUFFICES ASSUME NEW i \in 1..Len(segments), NEW r \in 1..Len(segments[i].rows)
                 PROVE  KeepsRow(segments[i].rows[r], segments'[i].rows[r])
      BY <2>1, <2>2 DEF KeepsRow
    <3> QED
      BY <3>1 DEF Keeps, KeepsSegment
  <2>4. CASE WriterTask
    <3>1. SameRows(segments, segments')
      BY <1>1, <2>4, WriterTaskOK
    <3> QED
      BY <2>1, <3>1 DEF SameRows
  <2>5. CASE UNCHANGED vars
    BY <2>5 DEF vars
  <2> QED
    BY <1>1, <2>3, <2>4, <2>5 DEF Next, Over
<1>2. IndTypeOK /\ [Next]_vars => [A]_segments
  BY <1>1
<1> QED
  BY <1>2, IndTypeOKAlways, PTL DEF Spec, RowsOnlyResolve

-----------------------------------------------------------------------------
(* Post order.  As long as no call raises an exception the writer does not    *)
(* catch, an unposted segment is dirty or in flight; a flush that was not      *)
(* held back has every earlier segment on Discord; and a message is only ever  *)
(* posted by such a flush.                                                     *)

KeptInv ==
    \A i \in 1..Len(segments) :
        segments[i].message_id = 0 =>
            segments[i].dirty = TRUE \/ (writer.pc = "sending" /\ writer.seg = i)

PostedBefore(segs, n) == \A j \in 1..Len(segs) : j < n => segs[j].message_id # 0

FlightInv ==
    writer.pc = "sending" =>
        /\ writer.blocked = FALSE => PostedBefore(segments, writer.seg)
        /\ segments[writer.seg].message_id = 0 => writer.blocked = FALSE

ShownInv ==
    /\ \A m \in 1..Len(channel) :
         channel[m].seg \in 1..Len(segments) /\ PostedBefore(segments, channel[m].seg)
    /\ \A m, n \in 1..Len(channel) : m <= n => channel[m].seg <= channel[n].seg

PostInv == KeptInv /\ FlightInv /\ ShownInv

\* A posted segment stays posted.
KeepsPosted(segs, new) ==
    /\ Len(new) >= Len(segs)
    /\ \A i \in 1..Len(segs) : segs[i].message_id # 0 => new[i].message_id # 0

LEMMA ShownKept ==
    ASSUME IndTypeOK, ShownInv, segments' \in Seq(Segment),
           KeepsPosted(segments, segments'),
           \A i \in 1..Len(segments') : i > Len(segments) => segments'[i].message_id = 0,
           Len(channel') = Len(channel),
           \A m \in 1..Len(channel) : channel'[m].seg = channel[m].seg
    PROVE  ShownInv'
<1>1. Len(segments) \in Nat /\ Len(segments') \in Nat /\ Len(segments') >= Len(segments)
  BY DEF IndTypeOK, KeepsPosted
<1>2. ASSUME NEW m \in 1..Len(channel)
      PROVE  channel'[m].seg \in 1..Len(segments') /\ PostedBefore(segments', channel'[m].seg)
  <2>1. channel[m].seg \in 1..Len(segments) /\ PostedBefore(segments, channel[m].seg)
    BY DEF ShownInv
  <2>2. \A j \in 1..Len(segments') : j < channel[m].seg => j \in 1..Len(segments)
    BY <1>1, <2>1
  <2> QED
    BY <1>1, <2>1, <2>2 DEF PostedBefore, KeepsPosted
<1>3. \A m, n \in 1..Len(channel) : m <= n => channel'[m].seg <= channel'[n].seg
  BY DEF ShownInv
<1> QED
  BY <1>2, <1>3 DEF ShownInv

LEMMA DrainPost ==
    ASSUME IndTypeOK, PostInv, Drain
    PROVE  PostInv'
<1>1. Keeps(segments, segments') /\ UNCHANGED <<writer, channel, faults>>
  BY DrainEffect DEF StepEffect, DrainFrame
<1>2. /\ segments' \in Seq(Segment) /\ Len(segments') >= Len(segments)
      /\ Len(segments) \in Nat /\ Len(segments') \in Nat
  BY <1>1 DEF IndTypeOK, Keeps
<1>3. \A i \in 1..Len(segments) :
         /\ segments'[i].message_id = segments[i].message_id
         /\ segments'[i] = segments[i] \/ segments'[i].dirty = TRUE
  BY <1>1 DEF Keeps, KeepsSegment
<1>4. ASSUME NEW i \in 1..Len(segments'), i > Len(segments)
      PROVE  segments'[i].message_id = 0 /\ segments'[i].dirty = TRUE
  <2>1. i \in (Len(segments) + 1)..Len(segments')
    BY <1>2, <1>4
  <2> QED
    BY <1>1, <2>1 DEF Keeps, Fresh
<1>5. KeptInv'
  <2> SUFFICES ASSUME NEW i \in 1..Len(segments'), segments'[i].message_id = 0
               PROVE  segments'[i].dirty = TRUE \/ (writer.pc = "sending" /\ writer.seg = i)
    BY <1>1 DEF KeptInv
  <2>1. CASE i \in 1..Len(segments)
    BY <1>3, <2>1 DEF PostInv, KeptInv
  <2>2. CASE i > Len(segments)
    BY <1>4, <2>2
  <2>3. i \in 1..Len(segments) \/ i > Len(segments)
    BY <1>2
  <2> QED
    BY <2>1, <2>2, <2>3
<1>6. FlightInv'
  <2> SUFFICES ASSUME writer.pc = "sending"
               PROVE  /\ writer.blocked = FALSE => PostedBefore(segments', writer.seg)
                      /\ segments'[writer.seg].message_id = 0 => writer.blocked = FALSE
    BY <1>1 DEF FlightInv
  <2>1. writer.seg \in 1..Len(segments)
    BY SendingFacts
  <2>2. \A j \in 1..Len(segments') : j < writer.seg => j \in 1..Len(segments)
    BY <1>2, <2>1
  <2> QED
    BY <1>3, <2>1, <2>2 DEF PostInv, FlightInv, PostedBefore
<1>7. KeepsPosted(segments, segments')
  BY <1>2, <1>3 DEF KeepsPosted
<1>8. ShownInv'
  BY <1>1, <1>2, <1>4, <1>7, ShownKept DEF PostInv
<1> QED
  BY <1>5, <1>6, <1>8 DEF PostInv

\* A flush that goes on over segments whose unposted ones are all dirty picks
\* the first of them, unless a failed post holds it back.
LEMMA GoesPost ==
    ASSUME NEW STATE segs, segs \in Seq(Segment),
           NEW STATE from, from \in Nat, from >= 1,
           NEW STATE upto, upto \in Nat, upto <= Len(segs),
           NEW STATE blocked, blocked \in BOOLEAN,
           FlushGoes(segs, from, upto, blocked),
           \A i \in 1..Len(segs) : segs[i].message_id = 0 => segs[i].dirty = TRUE,
           blocked = FALSE => PostedBefore(segs, from)
    PROVE  /\ KeptInv' /\ FlightInv'
           /\ KeepsPosted(segs, segments')
           /\ segments' \in Seq(Segment) /\ Len(segments') = Len(segs)
<1>0. WentOn(segs, from, upto, blocked)
  BY GoesEffect DEF FlushGoes
<1>1. /\ ClearsAtMost(segs, segments')
      /\ writer'.pc = "sending" =>
           /\ writer'.seg \in from..upto
           /\ writer'.blocked = blocked
           /\ writer'.seg \in Sendable(segs, from, upto, blocked)
           /\ \A j \in Sendable(segs, from, upto, blocked) : writer'.seg <= j
           /\ \A i \in 1..Len(segs) : i # writer'.seg => segments'[i] = segs[i]
      /\ writer'.pc # "sending" => segments' = segs
  BY <1>0 DEF WentOn
<1>2. /\ segments' \in Seq(Segment) /\ Len(segments') = Len(segs) /\ Len(segs) \in Nat
      /\ \A i \in 1..Len(segs) : segments'[i].message_id = segs[i].message_id
  BY <1>1 DEF ClearsAtMost, SameRows
<1>3. KeepsPosted(segs, segments')
  BY <1>2 DEF KeepsPosted
<1>4. KeptInv'
  <2> SUFFICES ASSUME NEW i \in 1..Len(segments'), segments'[i].message_id = 0
               PROVE  segments'[i].dirty = TRUE \/ (writer'.pc = "sending" /\ writer'.seg = i)
    BY DEF KeptInv
  <2>1. i \in 1..Len(segs) /\ segs[i].dirty = TRUE
    BY <1>2
  <2> QED
    BY <1>1, <2>1
<1>5. ASSUME writer'.pc = "sending"
      PROVE  /\ writer'.blocked = FALSE => PostedBefore(segments', writer'.seg)
             /\ segments'[writer'.seg].message_id = 0 => writer'.blocked = FALSE
  <2>1. writer'.seg \in from..upto /\ writer'.seg \in 1..Len(segs)
    BY <1>1, <1>5
  <2>2. ASSUME writer'.blocked = FALSE, NEW j \in 1..Len(segs), j < writer'.seg
        PROVE  segs[j].message_id # 0
    <3>1. blocked = FALSE
      BY <1>1, <1>5, <2>2
    <3>2. CASE j < from
      BY <3>1, <3>2 DEF PostedBefore
    <3>3. CASE j >= from
      <4>1. j \in from..upto
        BY <2>1, <2>2, <3>3
      <4>2. j \notin Sendable(segs, from, upto, blocked)
        BY <1>1, <1>5, <2>1, <2>2
      <4>3. segs[j].dirty # TRUE
        BY <3>1, <4>1, <4>2 DEF Sendable
      <4> QED
        BY <4>3
    <3> QED
      BY <3>2, <3>3
  <2>3. segments'[writer'.seg].message_id = 0 => writer'.blocked = FALSE
    BY <1>1, <1>2, <1>5, <2>1 DEF Sendable, Posted
  <2> QED
    BY <1>2, <2>2, <2>3 DEF PostedBefore
<1>6. FlightInv'
  BY <1>5 DEF FlightInv
<1> QED
  BY <1>2, <1>3, <1>4, <1>6

\* A call that took effect keeps the channel in order.
LEMMA DeliveredShown ==
    ASSUME IndTypeOK, PostInv, writer.pc = "sending",
           channel' = Delivered(segments[writer.seg]),
           segments' \in Seq(Segment), Len(segments') = Len(segments),
           KeepsPosted(segments, segments')
    PROVE  ShownInv'
<1>1. /\ writer.seg \in 1..Len(segments) /\ writer.blocked \in BOOLEAN
      /\ Len(channel) \in Nat /\ Len(segments) \in Nat
  BY SendingFacts
<1>2. CASE Posted(segments[writer.seg])
  <2>1. /\ Len(channel') = Len(channel)
        /\ \A m \in 1..Len(channel) : channel'[m].seg = channel[m].seg
    BY <1>2, DeliveredEffect
  <2>2. \A i \in 1..Len(segments') : i > Len(segments) => segments'[i].message_id = 0
    BY <1>1
  <2> QED
    BY <2>1, <2>2, ShownKept DEF PostInv
<1>3. CASE ~Posted(segments[writer.seg])
  <2>1. /\ Len(channel') = Len(channel) + 1
        /\ \A m \in 1..Len(channel) : channel'[m].seg = channel[m].seg
        /\ channel'[Len(channel) + 1].seg = writer.seg
    BY <1>3, DeliveredEffect
  <2>2. segments[writer.seg].message_id = 0 /\ PostedBefore(segments, writer.seg)
    BY <1>3 DEF PostInv, FlightInv, Posted
  <2>3. \A m \in 1..Len(channel) :
          /\ channel[m].seg \in 1..Len(segments)
          /\ PostedBefore(segments, channel[m].seg)
    BY DEF PostInv, ShownInv
  <2>4. \A m \in 1..Len(channel) : channel[m].seg <= writer.seg
    BY <1>1, <2>2, <2>3 DEF PostedBefore
  <2>5. ASSUME NEW n, PostedBefore(segments, n)
        PROVE  PostedBefore(segments', n)
    BY <2>5 DEF PostedBefore, KeepsPosted
  <2>6. \A m \in 1..Len(channel') :
          channel'[m].seg \in 1..Len(segments') /\ PostedBefore(segments', channel'[m].seg)
    BY <1>1, <2>1, <2>2, <2>3, <2>5
  <2>7. ASSUME NEW m \in 1..Len(channel'), NEW n \in 1..Len(channel'), m <= n
        PROVE  channel'[m].seg <= channel'[n].seg
    <3>1. CASE n <= Len(channel)
      BY <1>1, <2>1, <2>7, <3>1 DEF PostInv, ShownInv
    <3>2. CASE n = Len(channel) + 1
      BY <1>1, <2>1, <2>4, <2>7, <3>2
    <3> QED
      BY <1>1, <2>1, <3>1, <3>2
  <2> QED
    BY <2>6, <2>7 DEF ShownInv
<1> QED
  BY <1>2, <1>3

LEMMA KeepsPostedTransitive ==
    ASSUME NEW a \in Seq(Segment), NEW b \in Seq(Segment), NEW c \in Seq(Segment),
           KeepsPosted(a, b), KeepsPosted(b, c)
    PROVE  KeepsPosted(a, c)
<1>1. Len(a) \in Nat /\ Len(b) \in Nat /\ Len(c) \in Nat
  OBVIOUS
<1>2. Len(b) >= Len(a) /\ Len(c) >= Len(b)
  BY DEF KeepsPosted
<1>3. \A i \in 1..Len(a) : i \in 1..Len(b)
  BY <1>1, <1>2
<1> QED
  BY <1>1, <1>2, <1>3 DEF KeepsPosted

LEMMA WakesPost ==
    ASSUME IndTypeOK, PostInv, WriterWakes
    PROVE  PostInv'
<1>1. /\ writer.pc = "parked"
      /\ FlushGoes(segments, 1, Len(segments), FALSE)
      /\ UNCHANGED <<channel, faults>>
  BY WakesCase
<1>2. /\ segments \in Seq(Segment) /\ Len(segments) \in Nat /\ Len(segments) <= Len(segments)
      /\ 1 \in Nat /\ 1 >= 1 /\ FALSE \in BOOLEAN
  BY DEF IndTypeOK
<1>3. \A i \in 1..Len(segments) : segments[i].message_id = 0 => segments[i].dirty = TRUE
  BY <1>1 DEF PostInv, KeptInv
<1>4. PostedBefore(segments, 1)
  BY DEF PostedBefore
<1>5. /\ KeptInv' /\ FlightInv' /\ KeepsPosted(segments, segments')
      /\ segments' \in Seq(Segment) /\ Len(segments') = Len(segments)
  BY <1>1, <1>2, <1>3, <1>4, GoesPost
<1>6. \A i \in 1..Len(segments') : i > Len(segments) => segments'[i].message_id = 0
  BY <1>2, <1>5
<1>7. ShownInv'
  BY <1>1, <1>5, <1>6, ShownKept DEF PostInv
<1> QED
  BY <1>5, <1>7 DEF PostInv

LEMMA SucceedsPost ==
    ASSUME IndTypeOK, PostInv, SendSucceeds
    PROVE  PostInv'
<1> DEFINE segs == Acknowledged
<1>1. /\ writer.pc = "sending"
      /\ FlushGoes(segs, writer.seg + 1, writer.upto, writer.blocked)
      /\ channel' = Delivered(segments[writer.seg])
  BY SucceedsCase
<1>2. /\ segments \in Seq(Segment) /\ Len(segments) \in Nat
      /\ writer.seg + 1 \in Nat /\ writer.seg + 1 >= 1 /\ writer.seg \in 1..Len(segments)
      /\ writer.upto \in Nat /\ writer.upto <= Len(segments) /\ writer.blocked \in BOOLEAN
  BY <1>1, SendingFacts
<1>3. /\ SameRows(segments, segs)
      /\ \A i \in 1..Len(segments) : i # writer.seg => segs[i] = segments[i]
      /\ segs[writer.seg].message_id # 0
  BY <1>1, AcknowledgedEffect
<1> HIDE DEF segs
<1>4. segs \in Seq(Segment) /\ Len(segs) = Len(segments)
  BY <1>3 DEF SameRows
<1>5. \A i \in 1..Len(segs) : segs[i].message_id = 0 => segs[i].dirty = TRUE
  BY <1>3, <1>4 DEF PostInv, KeptInv
<1>6. writer.blocked = FALSE => PostedBefore(segs, writer.seg + 1)
  <2> SUFFICES ASSUME writer.blocked = FALSE, NEW j \in 1..Len(segs), j < writer.seg + 1
               PROVE  segs[j].message_id # 0
    BY DEF PostedBefore
  <2>1. j = writer.seg \/ j < writer.seg
    BY <1>2
  <2>2. PostedBefore(segments, writer.seg)
    BY <1>1 DEF PostInv, FlightInv
  <2> QED
    BY <1>2, <1>3, <1>4, <2>1, <2>2 DEF PostedBefore
<1>7. writer.upto <= Len(segs)
  BY <1>2, <1>4
<1>8. /\ KeptInv' /\ FlightInv' /\ KeepsPosted(segs, segments')
      /\ segments' \in Seq(Segment) /\ Len(segments') = Len(segs)
  BY <1>1, <1>2, <1>4, <1>5, <1>6, <1>7, GoesPost
<1>9. KeepsPosted(segments, segs)
  BY <1>2, <1>3, <1>4 DEF KeepsPosted
<1>10. KeepsPosted(segments, segments')
  BY <1>2, <1>4, <1>8, <1>9, KeepsPostedTransitive
<1>11. ShownInv'
  BY <1>1, <1>4, <1>8, <1>10, DeliveredShown
<1> QED
  BY <1>8, <1>11 DEF PostInv

LEMMA FailsPost ==
    ASSUME IndTypeOK, PostInv, NEW kind, SendFails(kind)
    PROVE  PostInv'
<1>1. /\ writer.pc = "sending"
      /\ FailedChannel(kind)
  BY FailsCase
<1>2. /\ segments \in Seq(Segment) /\ Len(segments) \in Nat
      /\ writer.seg + 1 \in Nat /\ writer.seg + 1 >= 1 /\ writer.seg \in 1..Len(segments)
      /\ writer.upto \in Nat /\ writer.upto <= Len(segments) /\ writer.blocked \in BOOLEAN
      /\ writer \in Writer
  BY <1>1, SendingFacts DEF IndTypeOK, WriterOK
<1>3. ASSUME segments' \in Seq(Segment), Len(segments') = Len(segments),
             KeepsPosted(segments, segments')
      PROVE  ShownInv'
  <2>1. CASE channel' = channel
    <3>1. \A i \in 1..Len(segments') : i > Len(segments) => segments'[i].message_id = 0
      BY <1>2, <1>3
    <3>2. /\ Len(channel') = Len(channel)
          /\ \A m \in 1..Len(channel) : channel'[m].seg = channel[m].seg
      BY <2>1
    <3> QED
      BY <1>3, <3>1, <3>2, ShownKept DEF PostInv
  <2>2. CASE channel' = Delivered(segments[writer.seg])
    BY <1>1, <1>3, <2>2, DeliveredShown
  <2> QED
    BY <1>1, <2>1, <2>2 DEF FailedChannel
<1>4. CASE /\ writer' = [writer EXCEPT !.again = TRUE]
           /\ UNCHANGED <<segments, flush_requested, flushed>>
  <2>1. /\ writer'.pc = writer.pc /\ writer'.seg = writer.seg
        /\ writer'.blocked = writer.blocked
    BY <1>2, <1>4 DEF Writer
  <2>2. KeptInv' /\ FlightInv'
    BY <1>4, <2>1 DEF PostInv, KeptInv, FlightInv
  <2>3. KeepsPosted(segments, segments')
    BY <1>2, <1>4 DEF KeepsPosted
  <2>4. ShownInv'
    BY <1>2, <1>3, <1>4, <2>3
  <2> QED
    BY <2>2, <2>4 DEF PostInv
<1>5. CASE /\ Posted(segments[writer.seg])
           /\ FlushGoes(segments, writer.seg + 1, writer.upto, writer.blocked)
  <2>1. \A i \in 1..Len(segments) : segments[i].message_id = 0 => segments[i].dirty = TRUE
    BY <1>5 DEF PostInv, KeptInv, Posted
  <2>2. writer.blocked = FALSE => PostedBefore(segments, writer.seg + 1)
    <3> SUFFICES ASSUME writer.blocked = FALSE, NEW j \in 1..Len(segments), j < writer.seg + 1
                 PROVE  segments[j].message_id # 0
      BY DEF PostedBefore
    <3>1. j = writer.seg \/ j < writer.seg
      BY <1>2
    <3>2. PostedBefore(segments, writer.seg)
      BY <1>1 DEF PostInv, FlightInv
    <3> QED
      BY <1>5, <3>1, <3>2 DEF PostedBefore, Posted
  <2>3. /\ KeptInv' /\ FlightInv' /\ KeepsPosted(segments, segments')
        /\ segments' \in Seq(Segment) /\ Len(segments') = Len(segments)
    BY <1>2, <1>5, <2>1, <2>2, GoesPost
  <2> QED
    BY <1>3, <2>3 DEF PostInv
<1>6. CASE /\ ~Posted(segments[writer.seg])
           /\ FlushGoes(Requeued, writer.seg + 1, writer.upto, TRUE)
  <2> DEFINE segs == Requeued
  <2>1. /\ ClearsAtMost(segments, segs)
        /\ \A i \in 1..Len(segments) : i # writer.seg => segs[i] = segments[i]
        /\ segs[writer.seg].dirty = TRUE
    BY <1>1, RequeuedEffect
  <2>2. FlushGoes(segs, writer.seg + 1, writer.upto, TRUE)
    BY <1>6
  <2> HIDE DEF segs
  <2>3. /\ segs \in Seq(Segment) /\ Len(segs) = Len(segments)
        /\ \A i \in 1..Len(segments) : segs[i].message_id = segments[i].message_id
    BY <2>1 DEF ClearsAtMost, SameRows
  <2>4. \A i \in 1..Len(segs) : segs[i].message_id = 0 => segs[i].dirty = TRUE
    BY <2>1, <2>3 DEF PostInv, KeptInv
  <2>5. writer.upto <= Len(segs) /\ TRUE \in BOOLEAN
    BY <1>2, <2>3
  <2>6. TRUE = FALSE => PostedBefore(segs, writer.seg + 1)
    OBVIOUS
  <2>7. /\ KeptInv' /\ FlightInv' /\ KeepsPosted(segs, segments')
        /\ segments' \in Seq(Segment) /\ Len(segments') = Len(segs)
    BY <1>2, <2>2, <2>3, <2>4, <2>5, <2>6, GoesPost
  <2>8. KeepsPosted(segments, segs)
    BY <1>2, <2>3 DEF KeepsPosted
  <2>9. KeepsPosted(segments, segments')
    BY <1>2, <2>3, <2>7, <2>8, KeepsPostedTransitive
  <2> QED
    BY <1>3, <2>3, <2>7, <2>9 DEF PostInv
<1> QED
  BY <1>4, <1>5, <1>6, FailsCase

LEMMA PostInvStep ==
    ASSUME "raised" \notin Faults, IndTypeOK, PostInv, [Next]_vars
    PROVE  PostInv'
<1>1. CASE SpacingEnds
  <2>1. writer' = AtRest("parked") /\ writer.pc = "spacing" /\ UNCHANGED <<segments, channel>>
    BY <1>1 DEF SpacingEnds
  <2>2. writer'.pc = "parked"
    BY <2>1 DEF AtRest
  <2> QED
    BY <2>1, <2>2 DEF PostInv, KeptInv, FlightInv, ShownInv
<1>2. CASE UNCHANGED vars
  BY <1>2 DEF vars, PostInv, KeptInv, FlightInv, ShownInv
<1>3. ~SendRaises
  BY DEF SendRaises
<1> QED
  BY <1>1, <1>2, <1>3, DrainPost, WakesPost, SucceedsPost, FailsPost
     DEF Next, WriterTask, SendEnds, Over

LEMMA PostInvAlways ==
    ASSUME "raised" \notin Faults
    PROVE  Spec => []PostInv
<1>1. Init => PostInv
  <2> SUFFICES ASSUME Init PROVE PostInv
    OBVIOUS
  <2>1. Len(segments) = 0 /\ Len(channel) = 0 /\ writer.pc = "parked"
    BY DEF Init, AtRest
  <2> QED
    BY <2>1 DEF PostInv, KeptInv, FlightInv, ShownInv
<1>2. IndTypeOK /\ PostInv /\ [Next]_vars => PostInv'
  BY PostInvStep
<1> QED
  BY <1>1, <1>2, IndTypeOKAlways, PTL DEF Spec

(* A message of a later segment never stands above one of an earlier one, for *)
(* every sequence of rollovers, failed posts and posts that landed but were   *)
(* not acknowledged, unless an exception escapes the writer (_flush).         *)
THEOREM PostsInOrder ==
    ASSUME "raised" \notin Faults
    PROVE  Spec => []PostOrder
<1>1. IndTypeOK /\ PostInv => PostOrder
  BY DEF IndTypeOK, ChannelOK, PostInv, ShownInv, PostOrder
<1> QED
  BY <1>1, IndTypeOKAlways, PostInvAlways, PTL

(* A segment Discord has not acknowledged is dirty or in flight, so no flush  *)
(* forgets it, unless an exception escapes the writer (_flush, _post).        *)
THEOREM NothingForgotten ==
    ASSUME "raised" \notin Faults
    PROVE  Spec => []UnpostedKept
<1>1. IndTypeOK /\ PostInv => UnpostedKept
  BY DEF IndTypeOK, PostInv, KeptInv, UnpostedKept, Posted
<1> QED
  BY <1>1, IndTypeOKAlways, PostInvAlways, PTL

-----------------------------------------------------------------------------
(* The barrier.  While no call has failed, a clean segment is shown as it is, *)
(* or is the one in flight as it is; and once the barrier is released nothing *)
(* is dirty and nothing is in flight.                                         *)

Shown(segs, chan, i) ==
    /\ segs[i].message_id # 0
    /\ chan[segs[i].message_id].rows = segs[i].rows

CleanOK ==
    \A i \in 1..Len(segments) :
        segments[i].dirty = FALSE =>
            IF writer.pc = "sending" /\ writer.seg = i
            THEN writer.body = segments[i].rows
            ELSE Shown(segments, channel, i)

LinkOK ==
    \A i \in 1..Len(segments) :
        segments[i].message_id # 0 => channel[segments[i].message_id].seg = i

ReleasedOK ==
    drain = "barrier" /\ flushed = TRUE =>
        /\ writer.pc # "sending"
        /\ \A i \in 1..Len(segments) : segments[i].dirty = FALSE

CarryInv == faults = 0 => CleanOK /\ LinkOK /\ ReleasedOK

\* No step of the drain is taken inside the barrier but its end.
LEMMA DrainOutsideBarrier ==
    ASSUME IndTypeOK, Drain
    PROVE  ~(drain' = "barrier" /\ flushed' = TRUE)
<1>1. ASSUME NEW p \in Personas, NEW overflow \in BOOLEAN, Step(p, overflow)
      PROVE  drain' = "draining"
  BY <1>1 DEF Step, ToolCall, ToolResult, OrphanResult, ResolveRow, Consult, Text, AppendStep, CanStep
<1>2. ASSUME NEW k \in Keys, NEW result \in Results, ConsultResult(k, result)
      PROVE  drain' = "draining"
  BY <1>2 DEF ConsultResult, ResolveRow, CanStep
<1>3. ASSUME NEW overflow \in BOOLEAN, Seal(overflow) \/ Finish(overflow)
      PROVE  drain' # "barrier"
  BY <1>3 DEF Seal, Finish, CanStep
<1>4. CASE FinishNothing \/ FinishReturns \/ FlushReturns \/ FlushTimesOut
  BY <1>4 DEF FinishNothing, FinishReturns, FlushReturns, FlushTimesOut
<1>5. CASE FlushBegins
  BY <1>5 DEF FlushBegins, ArmBarrier
<1> QED
  BY <1>1, <1>2, <1>3, <1>4, <1>5 DEF Drain

LEMMA DrainCarries ==
    ASSUME IndTypeOK, CarryInv, Drain
    PROVE  CarryInv'
<1>1. Keeps(segments, segments') /\ UNCHANGED <<writer, channel, faults>>
  BY DrainEffect DEF StepEffect, DrainFrame
<1> SUFFICES ASSUME faults = 0 PROVE CleanOK' /\ LinkOK' /\ ReleasedOK'
  BY <1>1 DEF CarryInv
<1>2. CleanOK /\ LinkOK /\ Len(segments) \in Nat /\ Len(segments') \in Nat
  BY <1>1 DEF CarryInv, IndTypeOK, Keeps
<1>3. ASSUME NEW i \in 1..Len(segments')
      PROVE  \/ i \in 1..Len(segments) /\ segments'[i] = segments[i]
             \/ /\ i \in 1..Len(segments) /\ segments'[i].dirty = TRUE
                /\ segments'[i].message_id = segments[i].message_id
             \/ segments'[i].dirty = TRUE /\ segments'[i].message_id = 0
  <2>1. CASE i \in 1..Len(segments)
    BY <1>1, <2>1 DEF Keeps, KeepsSegment
  <2>2. CASE i \notin 1..Len(segments)
    <3>1. i \in (Len(segments) + 1)..Len(segments')
      BY <1>2, <2>2
    <3> QED
      BY <1>1, <3>1 DEF Keeps, Fresh
  <2> QED
    BY <2>1, <2>2
<1>4. CleanOK'
  <2> SUFFICES ASSUME NEW i \in 1..Len(segments'), segments'[i].dirty = FALSE
               PROVE  IF writer'.pc = "sending" /\ writer'.seg = i
                      THEN writer'.body = segments'[i].rows
                      ELSE Shown(segments', channel', i)
    BY DEF CleanOK
  <2>1. i \in 1..Len(segments) /\ segments'[i] = segments[i]
    BY <1>3
  <2> QED
    BY <1>1, <1>2, <2>1 DEF CleanOK, Shown
<1>5. LinkOK'
  BY <1>1, <1>2, <1>3 DEF LinkOK
<1>6. ReleasedOK'
  BY DrainOutsideBarrier DEF ReleasedOK
<1> QED
  BY <1>4, <1>5, <1>6

\* A flush that goes on over segments whose clean ones are all shown.
LEMMA GoesCarries ==
    ASSUME NEW STATE segs, segs \in Seq(Segment),
           NEW STATE from, from \in Nat, from >= 1,
           NEW STATE upto, upto \in Nat, upto <= Len(segs), NEW STATE blocked,
           FlushGoes(segs, from, upto, blocked),
           \A i \in 1..Len(segs) : segs[i].dirty = FALSE => Shown(segs, channel', i),
           \A i \in 1..Len(segs) :
               segs[i].message_id # 0 => channel'[segs[i].message_id].seg = i,
           flushed = TRUE /\ drain' = "barrier" => \A i \in 1..Len(segs) : segs[i].dirty = FALSE
    PROVE  CleanOK' /\ LinkOK' /\ ReleasedOK'
<1>0. WentOn(segs, from, upto, blocked)
  BY GoesEffect DEF FlushGoes
<1>1. /\ segments' \in Seq(Segment) /\ Len(segments') = Len(segs) /\ Len(segs) \in Nat
      /\ \A i \in 1..Len(segs) : /\ segments'[i].message_id = segs[i].message_id
                                 /\ segments'[i].rows = segs[i].rows
  BY <1>0 DEF WentOn, ClearsAtMost, SameRows
<1>2. LinkOK'
  BY <1>1 DEF LinkOK
<1>3. CASE writer'.pc = "sending"
  <2>1. /\ writer'.seg \in from..upto
        /\ writer'.seg \in Sendable(segs, from, upto, blocked)
        /\ writer'.body = segs[writer'.seg].rows
        /\ \A i \in 1..Len(segs) : i # writer'.seg => segments'[i] = segs[i]
        /\ flushed' = flushed
    BY <1>0, <1>3 DEF WentOn
  <2>2. writer'.seg \in 1..Len(segs) /\ segs[writer'.seg].dirty
    BY <2>1 DEF Sendable
  <2>3. CleanOK'
    <3> SUFFICES ASSUME NEW i \in 1..Len(segments'), segments'[i].dirty = FALSE
                 PROVE  IF writer'.pc = "sending" /\ writer'.seg = i
                        THEN writer'.body = segments'[i].rows
                        ELSE Shown(segments', channel', i)
      BY DEF CleanOK
    <3>1. CASE i = writer'.seg
      BY <1>1, <1>3, <2>1, <3>1
    <3>2. CASE i # writer'.seg
      <4>1. i \in 1..Len(segs) /\ segs[i].dirty = FALSE
        BY <1>1, <2>1, <3>2
      <4>2. Shown(segs, channel', i)
        BY <4>1
      <4>3. Shown(segments', channel', i)
        BY <1>1, <4>1, <4>2 DEF Shown
      <4> QED
        BY <3>2, <4>3
    <3> QED
      BY <3>1, <3>2
  <2>4. ReleasedOK'
    BY <2>1, <2>2 DEF ReleasedOK
  <2> QED
    BY <1>2, <2>3, <2>4
<1>4. CASE writer'.pc # "sending"
  <2>1. /\ segments' = segs
        /\ flushed' = TRUE => flushed = TRUE \/ Dirty(segs) = {}
    BY <1>0, <1>4 DEF WentOn
  <2>2. CleanOK'
    BY <1>4, <2>1 DEF CleanOK
  <2>3. DOMAIN segs = 1..Len(segs) /\ \A i \in 1..Len(segs) : segs[i].dirty \in BOOLEAN
    BY SegmentParts
  <2>4. Dirty(segs) = {} => \A i \in 1..Len(segs) : segs[i].dirty = FALSE
    BY <2>3 DEF Dirty
  <2>5. ReleasedOK'
    BY <1>4, <2>1, <2>4 DEF ReleasedOK
  <2> QED
    BY <1>2, <2>2, <2>5
<1> QED
  BY <1>3, <1>4

LEMMA WakesCarries ==
    ASSUME IndTypeOK, CarryInv, WriterWakes
    PROVE  CarryInv'
<1>1. /\ writer.pc = "parked"
      /\ FlushGoes(segments, 1, Len(segments), FALSE)
      /\ UNCHANGED <<drain, channel, faults>>
  BY WakesCase
<1> SUFFICES ASSUME faults = 0 PROVE CleanOK' /\ LinkOK' /\ ReleasedOK'
  BY <1>1 DEF CarryInv
<1>2. /\ segments \in Seq(Segment) /\ Len(segments) \in Nat /\ Len(segments) <= Len(segments)
      /\ 1 \in Nat /\ 1 >= 1
  BY DEF IndTypeOK
<1>3. \A i \in 1..Len(segments) : segments[i].dirty = FALSE => Shown(segments, channel', i)
  BY <1>1 DEF CarryInv, CleanOK
<1>4. \A i \in 1..Len(segments) :
         segments[i].message_id # 0 => channel'[segments[i].message_id].seg = i
  BY <1>1 DEF CarryInv, LinkOK
<1>5. flushed = TRUE /\ drain' = "barrier" =>
         \A i \in 1..Len(segments) : segments[i].dirty = FALSE
  BY <1>1 DEF CarryInv, ReleasedOK
<1> QED
  BY <1>1, <1>2, <1>3, <1>4, <1>5, GoesCarries

LEMMA SucceedsCarries ==
    ASSUME IndTypeOK, CarryInv, SendSucceeds
    PROVE  CarryInv'
<1> DEFINE segs == Acknowledged
           mid == segments[writer.seg].message_id
<1>1. /\ writer.pc = "sending"
      /\ FlushGoes(segs, writer.seg + 1, writer.upto, writer.blocked)
      /\ channel' = Delivered(segments[writer.seg])
      /\ UNCHANGED <<drain, faults>>
  BY SucceedsCase
<1> SUFFICES ASSUME faults = 0 PROVE CleanOK' /\ LinkOK' /\ ReleasedOK'
  BY <1>1 DEF CarryInv
<1>2. /\ segments \in Seq(Segment) /\ Len(segments) \in Nat
      /\ writer.seg + 1 \in Nat /\ writer.seg + 1 >= 1 /\ writer.seg \in 1..Len(segments)
      /\ writer.upto \in Nat /\ writer.upto <= Len(segments)
      /\ Len(channel) \in Nat /\ mid \in 0..Len(channel)
  BY <1>1, SendingFacts
<1>3. /\ SameRows(segments, segs)
      /\ \A i \in 1..Len(segments) : i # writer.seg => segs[i] = segments[i]
      /\ segs[writer.seg].dirty = segments[writer.seg].dirty
      /\ mid # 0 => segs = segments
      /\ mid = 0 => segs[writer.seg].message_id = Len(channel) + 1
  BY <1>1, AcknowledgedEffect DEF Posted
<1>4. /\ \A m \in 1..Len(channel) : channel'[m].seg = channel[m].seg
      /\ \A m \in 1..Len(channel) : m # mid => channel'[m] = channel[m]
      /\ mid # 0 => channel'[mid].rows = writer.body
      /\ mid = 0 => /\ channel'[Len(channel) + 1].seg = writer.seg
                    /\ channel'[Len(channel) + 1].rows = writer.body
  BY <1>1, DeliveredEffect DEF Posted
<1> HIDE DEF segs
<1>5. /\ segs \in Seq(Segment) /\ Len(segs) = Len(segments)
      /\ \A i \in 1..Len(segments) : segs[i].rows = segments[i].rows
  BY <1>3 DEF SameRows
<1>6. CleanOK /\ LinkOK /\ ReleasedOK
  BY DEF CarryInv
<1>7. \A i \in 1..Len(segments) :
         segments[i].message_id # 0 => segments[i].message_id \in 1..Len(channel)
  BY <1>2, SegmentParts DEF IndTypeOK, ChannelOK
<1>8. ASSUME NEW i \in 1..Len(segs), segs[i].message_id # 0
      PROVE  channel'[segs[i].message_id].seg = i
  <2>1. CASE i # writer.seg
    BY <1>3, <1>4, <1>5, <1>6, <1>7, <1>8, <2>1 DEF LinkOK
  <2>2. CASE i = writer.seg /\ mid # 0
    BY <1>2, <1>3, <1>4, <1>6, <1>7, <2>2 DEF LinkOK
  <2>3. CASE i = writer.seg /\ mid = 0
    BY <1>3, <1>4, <2>3
  <2> QED
    BY <2>1, <2>2, <2>3
<1>9. ASSUME NEW i \in 1..Len(segs), segs[i].dirty = FALSE
      PROVE  Shown(segs, channel', i)
  <2>1. CASE i # writer.seg
    <3>1. segs[i] = segments[i] /\ Shown(segments, channel, i)
      BY <1>1, <1>3, <1>5, <1>6, <1>9, <2>1 DEF CleanOK
    <3>2. segments[i].message_id \in 1..Len(channel)
      BY <1>5, <1>7, <3>1 DEF Shown
    <3>3. segments[i].message_id # mid
      BY <1>2, <1>5, <1>6, <2>1, <3>1 DEF LinkOK, Shown
    <3> QED
      BY <1>4, <3>1, <3>2, <3>3 DEF Shown
  <2>2. CASE i = writer.seg
    <3>1. writer.body = segments[i].rows
      BY <1>1, <1>2, <1>3, <1>6, <1>9, <2>2 DEF CleanOK
    <3>2. CASE mid # 0
      BY <1>3, <1>4, <2>2, <3>1, <3>2 DEF Shown
    <3>3. CASE mid = 0
      <4>1. segs[i].message_id = Len(channel) + 1 /\ segs[i].rows = segments[i].rows
        BY <1>2, <1>3, <1>5, <2>2, <3>3
      <4> QED
        BY <1>2, <1>4, <3>1, <3>3, <4>1 DEF Shown
    <3> QED
      BY <3>2, <3>3
  <2> QED
    BY <2>1, <2>2
<1>10. flushed = TRUE /\ drain' = "barrier" => \A i \in 1..Len(segs) : segs[i].dirty = FALSE
  BY <1>1, <1>6 DEF ReleasedOK
<1>11. writer.upto <= Len(segs)
  BY <1>2, <1>5
<1> QED
  BY <1>1, <1>2, <1>5, <1>8, <1>9, <1>10, <1>11, GoesCarries

LEMMA CarryInvStep ==
    ASSUME MaxFaults > 0, IndTypeOK, CarryInv, [Next]_vars
    PROVE  CarryInv'
<1>1. CASE SpacingEnds
  <2>1. /\ writer' = AtRest("parked") /\ writer.pc = "spacing"
        /\ UNCHANGED <<segments, channel, faults, drain, flushed>>
    BY <1>1 DEF SpacingEnds, events
  <2>2. writer'.pc = "parked"
    BY <2>1 DEF AtRest
  <2> QED
    BY <2>1, <2>2 DEF CarryInv, CleanOK, LinkOK, ReleasedOK, Shown
<1>2. CASE UNCHANGED vars
  BY <1>2 DEF vars, events, CarryInv, CleanOK, LinkOK, ReleasedOK, Shown
<1>3. ASSUME NEW kind, SendFails(kind) \/ SendRaises
      PROVE  CarryInv'
  <2>1. faults' = CountFault
    BY <1>3 DEF SendFails, SendRaises
  <2>2. faults' # 0
    BY <2>1, CountFaultOK DEF IndTypeOK, ChannelOK
  <2> QED
    BY <2>2 DEF CarryInv
<1> QED
  BY <1>1, <1>2, <1>3, DrainCarries, WakesCarries, SucceedsCarries
     DEF Next, WriterTask, SendEnds, Over

(* When the writer releases the barrier and no call has failed, every row     *)
(* appended before it is on Discord, each segment in its own message: the     *)
(* response posted next cannot appear above work that preceded it (flush).    *)
THEOREM BarrierCarriesRows ==
    ASSUME MaxFaults > 0
    PROVE  Spec => []BarrierCarries
<1>1. Init => CarryInv
  <2> SUFFICES ASSUME Init PROVE CarryInv
    OBVIOUS
  <2>1. Len(segments) = 0 /\ drain = "draining"
    BY DEF Init
  <2> QED
    BY <2>1 DEF CarryInv, CleanOK, LinkOK, ReleasedOK
<1>2. IndTypeOK /\ CarryInv /\ [Next]_vars => CarryInv'
  BY CarryInvStep
<1>3. IndTypeOK /\ CarryInv => BarrierCarries
  <2> SUFFICES ASSUME IndTypeOK, CarryInv, drain = "barrier", flushed, faults = 0,
                      NEW i \in DOMAIN segments
               PROVE  /\ Posted(segments[i])
                      /\ channel[segments[i].message_id].rows = segments[i].rows
    BY DEF BarrierCarries
  <2>1. i \in 1..Len(segments) /\ flushed = TRUE
    BY DEF IndTypeOK, FlagsOK
  <2>2. CleanOK /\ writer.pc # "sending" /\ segments[i].dirty = FALSE
    BY <2>1 DEF CarryInv, ReleasedOK
  <2>3. Shown(segments, channel, i)
    BY <2>1, <2>2 DEF CleanOK
  <2> QED
    BY <2>3 DEF Shown, Posted
<1> QED
  BY <1>1, <1>2, <1>3, IndTypeOKAlways, PTL DEF Spec

-----------------------------------------------------------------------------
(* The last pass.  finish is called once, and the pass the writer makes after *)
(* it is woken by it takes every segment that is still dirty, in order, with  *)
(* a retry for each call.                                                     *)

\* Where a step of the writer that is not a retry leaves it.
Rests ==
    /\ writer'.pc = "exited" => finished = TRUE /\ wake' = FALSE
    /\ writer'.pc = "spacing" => finished = FALSE \/ wake' = TRUE
    /\ writer'.pc = "sending" =>
         writer'.again = FALSE /\ (finished = TRUE => writer'.retry_once = TRUE)

LEMMA ProceedRests ==
    ASSUME FlagsOK, wake' \in BOOLEAN, NEW STATE segs, NEW STATE from, NEW STATE upto,
           NEW STATE blocked, Proceed(segs, from, upto, blocked)
    PROVE  Rests /\ writer'.pc \in {"sending", "spacing", "exited"}
<1>1. CASE EndFlush(segs)
  BY <1>1 DEF EndFlush, AtRest, MayExit, FlagsOK, Rests
<1>2. CASE \E i \in Sendable(segs, from, upto, blocked) :
             writer' = Sending(i, upto, blocked, segs[i].rows)
  BY <1>2 DEF Sending, FlagsOK, Rests
<1> QED
  BY <1>1, <1>2 DEF Proceed

LEMMA WriterRests ==
    ASSUME IndTypeOK, WriterWakes \/ SendSucceeds
    PROVE  Rests /\ writer'.pc \in {"sending", "spacing", "exited"}
<1>1. FlagsOK /\ wake' \in BOOLEAN
  BY DEF IndTypeOK, FlagsOK, WriterWakes, SendSucceeds
<1>2. CASE WriterWakes
  <2>1. Proceed(segments, 1, Len(segments), FALSE)
    BY <1>2 DEF WriterWakes
  <2> QED
    BY <1>1, <2>1, ProceedRests
<1>3. CASE SendSucceeds
  <2>1. Proceed(Acknowledged, writer.seg + 1, writer.upto, writer.blocked)
    BY <1>3 DEF SendSucceeds, Acknowledged
  <2> QED
    BY <1>1, <2>1, ProceedRests
<1> QED
  BY <1>2, <1>3

\* A failed call is retried, or the flush goes on.
LEMMA FailsRests ==
    ASSUME IndTypeOK, NEW kind, SendFails(kind)
    PROVE  \/ /\ writer' = [writer EXCEPT !.again = TRUE]
              /\ UNCHANGED segments
           \/ /\ ~RetriesNow(segments[writer.seg])
              /\ Rests /\ writer'.pc \in {"sending", "spacing", "exited"}
<1>1. FlagsOK /\ wake' \in BOOLEAN
  BY DEF IndTypeOK, FlagsOK, SendFails
<1>2. ASSUME NEW STATE segs, NEW STATE blocked,
             Proceed(segs, writer.seg + 1, writer.upto, blocked)
      PROVE  Rests /\ writer'.pc \in {"sending", "spacing", "exited"}
  BY <1>1, <1>2, ProceedRests
<1> QED
  BY <1>2 DEF SendFails

\* finish is called once, and the writer exits after it, with nothing woken.
PhaseInv ==
    /\ finished = TRUE => drain \in {"finishing", "done"} /\ Len(segments) # 0
    /\ writer.pc = "exited" => finished = TRUE /\ wake = FALSE
    /\ finished = TRUE /\ wake = FALSE => writer.pc \in {"sending", "exited"}
    /\ drain = "done" /\ Len(segments) # 0 => writer.pc = "exited"
    /\ writer.pc = "sending" /\ writer.again = TRUE => faults >= 1

\* Of the drain, finish calls for the last pass, and nothing follows it but the
\* return.
LEMMA DrainPhases ==
    ASSUME IndTypeOK, PhaseInv, Drain
    PROVE  \/ FinishReturns
           \/ /\ finished = FALSE /\ finished' = FALSE
              /\ drain' = "done" => Len(segments') = 0
           \/ finished = FALSE /\ \E overflow \in BOOLEAN : Finish(overflow)
<1> USE DEF PhaseInv
<1>0. finished \in BOOLEAN /\ Len(segments) \in Nat
  BY DEF IndTypeOK, FlagsOK
<1>1. ASSUME NEW p \in Personas, NEW overflow \in BOOLEAN, Step(p, overflow)
      PROVE  drain = "draining" /\ drain' = "draining" /\ finished' = finished
  BY <1>1 DEF Step, ToolCall, ToolResult, OrphanResult, ResolveRow, Consult, Text, AppendStep,
              CanStep
<1>2. ASSUME NEW k \in Keys, NEW result \in Results, ConsultResult(k, result)
      PROVE  drain = "draining" /\ drain' = "draining" /\ finished' = finished
  BY <1>2 DEF ConsultResult, ResolveRow, CanStep
<1>3. ASSUME NEW overflow \in BOOLEAN, Seal(overflow)
      PROVE  drain = "draining" /\ drain' = "draining" /\ finished' = finished
  BY <1>3 DEF Seal, CanStep
<1>4. CASE FinishNothing
  BY <1>0, <1>4 DEF FinishNothing, events
<1>5. CASE FlushBegins \/ FlushReturns \/ FlushTimesOut
  BY <1>0, <1>5 DEF FlushBegins, FlushReturns, FlushTimesOut, ArmBarrier, CanStep, events
<1>6. ASSUME NEW overflow \in BOOLEAN, Finish(overflow)
      PROVE  finished = FALSE
  BY <1>0, <1>6 DEF Finish, HasEntry
<1> QED
  BY <1>0, <1>1, <1>2, <1>3, <1>4, <1>5, <1>6 DEF Drain

\* The seal is the last row of the last segment, which is left dirty.
LEMMA SealEntryEnds ==
    ASSUME NEW segs \in Seq(Segment), Len(segs) # 0, NEW overflow \in BOOLEAN,
           NEW new, new = SealEntry(segs, overflow)
    PROVE  EndsWith(new, SealRow)
<1> DEFINE mid == Interrupted(segs)
           p == segs[Len(segs)].persona
<1>1. mid \in Seq(Segment)
  BY InterruptedKeeps DEF Keeps
<1>2. Len(segs) \in 1..Len(segs)
  OBVIOUS
<1>3. p \in Personas
  BY <1>2, SegmentParts
<1>4. PICK row \in Row : row = SealRow
  BY DEF SealRow, Row, RowKinds, RowStates
<1>5. new = Appended(mid, p, row, overflow)
  BY <1>4 DEF SealEntry
<1> HIDE DEF mid, p
<1> QED
  BY <1>1, <1>3, <1>4, <1>5, AppendedEnds

LEMMA FinishEffect ==
    ASSUME IndTypeOK, NEW overflow \in BOOLEAN, Finish(overflow)
    PROVE  /\ finished' = TRUE /\ wake' = TRUE /\ drain' = "finishing"
           /\ Len(segments') # 0
           /\ UNCHANGED <<writer, channel, faults>>
           /\ sealed = FALSE => EndsWith(segments', SealRow)
<1>1. Finish(overflow) => Drain
  BY DEF Drain
<1>2. Keeps(segments, segments') /\ segments \in Seq(Segment) /\ Len(segments) # 0
  BY <1>1, DrainEffect DEF StepEffect, IndTypeOK, Finish, HasEntry
<1>3. Len(segments') # 0 /\ Len(segments') \in Nat /\ segments' \in Seq(Segment)
  BY <1>2 DEF Keeps
<1>4. ASSUME sealed = FALSE
      PROVE  EndsWith(segments', SealRow)
  <2>1. segments' = SealEntry(segments, overflow)
    BY <1>4 DEF Finish
  <2> QED
    BY <1>2, <2>1, SealEntryEnds
<1> QED
  BY <1>3, <1>4 DEF Finish, FinishSignals

LEMMA PhaseStep ==
    ASSUME "raised" \notin Faults, MaxFaults > 1, IndTypeOK, PhaseInv, [Next]_vars
    PROVE  PhaseInv'
<1>0. /\ finished \in BOOLEAN /\ wake \in BOOLEAN /\ Len(segments) \in Nat
      /\ faults \in Nat /\ MaxFaults \in Nat
  BY StepTraceAssumption DEF IndTypeOK, FlagsOK, ChannelOK
<1>1. CASE Drain
  <2>1. UNCHANGED <<writer, faults>>
    BY <1>1, DrainEffect DEF StepEffect, DrainFrame
  <2>2. CASE FinishReturns
    BY <2>1, <2>2 DEF FinishReturns, events, PhaseInv
  <2>3. CASE finished = FALSE /\ finished' = FALSE /\ (drain' = "done" => Len(segments') = 0)
    BY <2>1, <2>3 DEF PhaseInv
  <2>4. CASE finished = FALSE /\ \E overflow \in BOOLEAN : Finish(overflow)
    BY <2>1, <2>4, FinishEffect DEF PhaseInv
  <2> QED
    BY <1>1, <2>2, <2>3, <2>4, DrainPhases
<1>2. CASE WriterWakes \/ SendSucceeds
  <2>1. Rests /\ writer'.pc \in {"sending", "spacing", "exited"}
    BY <1>2, WriterRests
  <2>2. UNCHANGED <<finished, drain, faults>> /\ writer.pc # "exited" /\ wake' \in BOOLEAN
    BY <1>0, <1>2 DEF WriterWakes, SendSucceeds
  <2>3. Len(segments') = Len(segments)
    BY <1>2, WriterTaskOK DEF WriterTask, SendEnds, SameRows
  <2> QED
    BY <1>0, <2>1, <2>2, <2>3 DEF Rests, PhaseInv
<1>3. ASSUME NEW kind \in FaultKinds, SendFails(kind)
      PROVE  PhaseInv'
  <2>1. /\ UNCHANGED <<finished, drain, wake>> /\ writer.pc = "sending"
        /\ faults' = CountFault
    BY <1>3, FailsCase
  <2>2. faults' >= 1
    BY <1>0, <2>1 DEF CountFault
  <2>3. Len(segments') = Len(segments)
    BY <1>3, WriterTaskOK DEF WriterTask, SendEnds, SameRows
  <2>4. CASE writer' = [writer EXCEPT !.again = TRUE]
    <3>1. writer'.pc = "sending"
      BY <2>1, <2>4, SendingFacts DEF IndTypeOK, WriterOK, Writer
    <3> QED
      BY <2>1, <2>2, <2>3, <3>1 DEF PhaseInv
  <2>5. CASE Rests /\ writer'.pc \in {"sending", "spacing", "exited"}
    BY <1>0, <2>1, <2>2, <2>3, <2>5 DEF Rests, PhaseInv
  <2> QED
    BY <1>3, <2>4, <2>5, FailsRests
<1>4. CASE SpacingEnds
  <2>1. writer'.pc = "parked" /\ writer.pc = "spacing"
    BY <1>4 DEF SpacingEnds, AtRest
  <2> QED
    BY <1>4, <2>1 DEF SpacingEnds, events, PhaseInv
<1>5. CASE UNCHANGED vars
  BY <1>5 DEF vars, events, PhaseInv
<1>6. ~SendRaises
  BY DEF SendRaises
<1> QED
  BY <1>1, <1>2, <1>3, <1>4, <1>5, <1>6 DEF Next, WriterTask, SendEnds, Over

\* In the last pass what is dirty lies ahead of the call in flight, nothing holds
\* the flush back, and each call has its retry.
FinalInv ==
    finished = TRUE /\ wake = FALSE /\ faults <= 1 =>
        /\ writer.pc = "sending" =>
             /\ writer.upto = Len(segments) /\ writer.blocked = FALSE /\ writer.retry_once = TRUE
             /\ \A i \in 1..Len(segments) : segments[i].dirty = TRUE => i > writer.seg
        /\ writer.pc = "exited" => \A i \in 1..Len(segments) : segments[i].dirty = FALSE

LEMMA GoesFinal ==
    ASSUME NEW STATE segs, segs \in Seq(Segment),
           NEW STATE from, from \in Nat, from >= 1,
           NEW STATE upto, upto = Len(segs),
           FlushGoes(segs, from, upto, FALSE), Rests, finished = TRUE,
           \A i \in 1..Len(segs) : segs[i].dirty = TRUE => i >= from
    PROVE  /\ writer'.pc = "sending" =>
                /\ writer'.upto = Len(segments') /\ writer'.blocked = FALSE
                /\ writer'.retry_once = TRUE
                /\ \A i \in 1..Len(segments') : segments'[i].dirty = TRUE => i > writer'.seg
           /\ writer'.pc # "sending" =>
                \A i \in 1..Len(segments') : segments'[i].dirty = FALSE
<1>0. upto \in Nat /\ upto <= Len(segs) /\ Len(segs) \in Nat
  OBVIOUS
<1>1. WentOn(segs, from, upto, FALSE)
  BY <1>0, GoesEffect DEF FlushGoes
<1>2. Len(segments') = Len(segs)
  BY <1>1 DEF WentOn, ClearsAtMost, SameRows
<1>3. \A i \in 1..Len(segs) :
         segs[i].dirty = TRUE => i \in Sendable(segs, from, upto, FALSE)
  BY <1>0 DEF Sendable
<1>4. CASE writer'.pc = "sending"
  <2>1. ASSUME NEW i \in 1..Len(segs), segments'[i].dirty = TRUE
        PROVE  i > writer'.seg
    <3>1. i # writer'.seg /\ segments'[i] = segs[i] /\ writer'.seg \in from..upto
      BY <1>1, <1>4, <2>1 DEF WentOn
    <3>2. writer'.seg <= i
      BY <1>1, <1>3, <1>4, <2>1, <3>1 DEF WentOn
    <3> QED
      BY <1>0, <3>1, <3>2
  <2> QED
    BY <1>1, <1>2, <1>4, <2>1 DEF WentOn, Rests
<1>5. CASE writer'.pc # "sending"
  <2>1. segments' = segs /\ Sendable(segs, from, upto, FALSE) = {}
    BY <1>1, <1>5 DEF WentOn
  <2>2. \A i \in 1..Len(segs) : segs[i].dirty \in BOOLEAN
    BY SegmentParts
  <2> QED
    BY <1>3, <1>5, <2>1, <2>2
<1> QED
  BY <1>4, <1>5

\* The first failure of the last pass is retried.
LEMMA FirstFailRetried ==
    ASSUME MaxFaults > 1, IndTypeOK, PhaseInv, NEW kind, SendFails(kind), faults' <= 1
    PROVE  /\ faults = 0 /\ writer.again = FALSE
           /\ finished = TRUE /\ writer.retry_once = TRUE => RetriesNow(segments[writer.seg])
<1>1. writer.pc = "sending" /\ faults' = CountFault
  BY FailsCase
<1>2. faults \in Nat /\ MaxFaults \in Nat
  BY StepTraceAssumption DEF IndTypeOK, ChannelOK
<1>3. faults = 0
  BY <1>1, <1>2 DEF CountFault
<1>4. writer.again = FALSE
  BY <1>1, <1>3, SendingFacts DEF PhaseInv
<1> QED
  BY <1>3, <1>4 DEF RetriesNow

LEMMA FinalStep ==
    ASSUME "raised" \notin Faults, MaxFaults > 1, IndTypeOK, PhaseInv, FinalInv, [Next]_vars
    PROVE  FinalInv'
<1>0. /\ finished \in BOOLEAN /\ wake \in BOOLEAN /\ Len(segments) \in Nat
      /\ segments \in Seq(Segment)
  BY DEF IndTypeOK, FlagsOK
<1>1. CASE Drain
  <2>1. UNCHANGED <<writer, faults>>
    BY <1>1, DrainEffect DEF StepEffect, DrainFrame
  <2>2. CASE FinishReturns
    BY <2>1, <2>2 DEF FinishReturns, events, FinalInv
  <2>3. CASE finished' = FALSE
    BY <2>3 DEF FinalInv
  <2>4. CASE \E overflow \in BOOLEAN : Finish(overflow)
    BY <2>4, FinishEffect DEF FinalInv
  <2> QED
    BY <1>1, <2>2, <2>3, <2>4, DrainPhases
<1>2. CASE WriterWakes
  <2>1. FlushGoes(segments, 1, Len(segments), FALSE) /\ Rests
    BY <1>2, WakesCase, WriterRests
  <2>2. finished' = finished
    BY <1>2, WakesCase
  <2>3. /\ 1 \in Nat /\ 1 >= 1
        /\ \A i \in 1..Len(segments) : segments[i].dirty = TRUE => i >= 1
    BY <1>0
  <2> QED
    BY <1>0, <2>1, <2>2, <2>3, GoesFinal DEF FinalInv
<1>3. CASE SendSucceeds
  <2> DEFINE segs == Acknowledged
  <2>1. /\ writer.pc = "sending"
        /\ FlushGoes(segs, writer.seg + 1, writer.upto, writer.blocked) /\ Rests
        /\ UNCHANGED <<wake, finished, faults>>
    BY <1>3, SucceedsCase, WriterRests
  <2> SUFFICES ASSUME finished = TRUE, wake = FALSE, faults <= 1
               PROVE  FinalInv'
    BY <2>1 DEF FinalInv
  <2>2. /\ writer.upto = Len(segments) /\ writer.blocked = FALSE
        /\ \A i \in 1..Len(segments) : segments[i].dirty = TRUE => i > writer.seg
    BY <2>1 DEF FinalInv
  <2>3. /\ SameRows(segments, segs)
        /\ \A i \in 1..Len(segments) : i # writer.seg => segs[i] = segments[i]
        /\ segs[writer.seg].dirty = segments[writer.seg].dirty
    BY <2>1, AcknowledgedEffect
  <2>4. /\ writer.seg + 1 \in Nat /\ writer.seg + 1 >= 1 /\ writer.seg \in 1..Len(segments)
    BY <2>1, SendingFacts
  <2> HIDE DEF segs
  <2>5. segs \in Seq(Segment) /\ Len(segs) = Len(segments)
    BY <2>3 DEF SameRows
  <2>6. \A i \in 1..Len(segs) : segs[i].dirty = TRUE => i >= writer.seg + 1
    BY <1>0, <2>2, <2>3, <2>4, <2>5
  <2>7. FlushGoes(segs, writer.seg + 1, writer.upto, FALSE) /\ writer.upto = Len(segs)
    BY <2>1, <2>2, <2>5
  <2> QED
    BY <2>1, <2>4, <2>5, <2>6, <2>7, GoesFinal DEF FinalInv
<1>4. ASSUME NEW kind \in FaultKinds, SendFails(kind)
      PROVE  FinalInv'
  <2>1. writer.pc = "sending" /\ UNCHANGED <<wake, finished>>
    BY <1>4, FailsCase
  <2> SUFFICES ASSUME finished = TRUE, wake = FALSE, faults' <= 1
               PROVE  FinalInv'
    BY <2>1 DEF FinalInv
  <2>2. faults = 0 /\ (writer.retry_once = TRUE => RetriesNow(segments[writer.seg]))
    BY <1>4, FirstFailRetried
  <2>3. writer.retry_once = TRUE
    BY <2>1, <2>2 DEF FinalInv
  <2>4. writer' = [writer EXCEPT !.again = TRUE] /\ UNCHANGED segments
    BY <1>4, <2>2, <2>3, FailsRests
  <2>5. /\ writer'.pc = writer.pc /\ writer'.seg = writer.seg /\ writer'.upto = writer.upto
        /\ writer'.blocked = writer.blocked /\ writer'.retry_once = writer.retry_once
    BY <2>4 DEF IndTypeOK, WriterOK, Writer
  <2> QED
    BY <2>1, <2>2, <2>4, <2>5 DEF FinalInv
<1>5. CASE SpacingEnds
  <2>1. writer'.pc = "parked"
    BY <1>5 DEF SpacingEnds, AtRest
  <2> QED
    BY <2>1 DEF FinalInv
<1>6. CASE UNCHANGED vars
  BY <1>6 DEF vars, events, FinalInv
<1>7. ~SendRaises
  BY DEF SendRaises
<1> QED
  BY <1>1, <1>2, <1>3, <1>4, <1>5, <1>6, <1>7 DEF Next, WriterTask, SendEnds, Over

LEMMA FinalInvAlways ==
    ASSUME "raised" \notin Faults, MaxFaults > 1
    PROVE  Spec => [](PhaseInv /\ FinalInv)
<1>1. Init => PhaseInv /\ FinalInv
  <2> SUFFICES ASSUME Init PROVE PhaseInv /\ FinalInv
    OBVIOUS
  <2>1. writer.pc = "parked" /\ finished = FALSE /\ drain = "draining"
    BY DEF Init, AtRest
  <2> QED
    BY <2>1 DEF PhaseInv, FinalInv
<1>2. IndTypeOK /\ PhaseInv /\ FinalInv /\ [Next]_vars => (PhaseInv /\ FinalInv)'
  BY PhaseStep, FinalStep
<1> QED
  BY <1>1, <1>2, IndTypeOKAlways, PTL DEF Spec

(* finish loses no segment to a single failed call, at whatever moment: when  *)
(* it has returned every segment is a message of the channel and none waits   *)
(* for a flush that will not come, unless an exception escapes the writer     *)
(* (_post and _edit retry on the final flush, _write_loop's exit).            *)
THEOREM NoSegmentDropped ==
    ASSUME "raised" \notin Faults, MaxFaults > 1
    PROVE  Spec => []NothingDropped
<1>1. IndTypeOK /\ PostInv /\ PhaseInv /\ FinalInv => NothingDropped
  <2> SUFFICES ASSUME IndTypeOK, PostInv, PhaseInv, FinalInv, drain = "done", faults <= 1,
                      NEW i \in DOMAIN segments
               PROVE  Posted(segments[i]) /\ ~segments[i].dirty
    BY DEF NothingDropped
  <2>1. i \in 1..Len(segments) /\ Len(segments) # 0
    BY DEF IndTypeOK
  <2>2. writer.pc = "exited" /\ finished = TRUE /\ wake = FALSE
    BY <2>1 DEF PhaseInv
  <2>3. segments[i].dirty = FALSE
    BY <2>1, <2>2 DEF FinalInv
  <2> QED
    BY <2>1, <2>2, <2>3 DEF PostInv, KeptInv, Posted
<1> QED
  BY <1>1, IndTypeOKAlways, PostInvAlways, FinalInvAlways, PTL

-----------------------------------------------------------------------------
(* The seal.  A message of the channel is of the segment whose id it bears,   *)
(* and the seal, where it is finish that appends it, waits in a dirty         *)
(* segment, is in flight with its retry to come, or is shown.                 *)

LEMMA LinkStep ==
    ASSUME "raised" \notin Faults, IndTypeOK, LinkOK, [Next]_vars
    PROVE  LinkOK'
<1>0. /\ segments \in Seq(Segment) /\ Len(segments) \in Nat /\ Len(channel) \in Nat
      /\ \A i \in 1..Len(segments) :
            segments[i].message_id # 0 => segments[i].message_id \in 1..Len(channel)
  BY SegmentParts DEF IndTypeOK, ChannelOK
<1>1. CASE Drain
  <2>1. Keeps(segments, segments') /\ UNCHANGED channel
    BY <1>1, DrainEffect DEF StepEffect, DrainFrame
  <2> SUFFICES ASSUME NEW i \in 1..Len(segments'), segments'[i].message_id # 0
               PROVE  channel[segments'[i].message_id].seg = i
    BY <2>1 DEF LinkOK
  <2>2. Len(segments') \in Nat /\ Len(segments') >= Len(segments)
    BY <2>1 DEF Keeps
  <2>3. i \in 1..Len(segments)
    <3> SUFFICES ASSUME i \in (Len(segments) + 1)..Len(segments') PROVE FALSE
      BY <1>0, <2>2
    <3> QED
      BY <2>1 DEF Keeps, Fresh
  <2> QED
    BY <2>1, <2>3 DEF Keeps, KeepsSegment, LinkOK
<1>2. ASSUME NEW STATE segs, SameRows(segments, segs), ClearsAtMost(segs, segments'),
             \A i \in 1..Len(segments) :
                 segs[i].message_id # 0 => channel'[segs[i].message_id].seg = i
      PROVE  LinkOK'
  BY <1>2 DEF LinkOK, ClearsAtMost, SameRows
<1>3. CASE WriterWakes
  <2>1. FlushGoes(segments, 1, Len(segments), FALSE) /\ UNCHANGED channel
    BY <1>3, WakesCase
  <2>2. 1 \in Nat /\ 1 >= 1 /\ Len(segments) <= Len(segments)
    BY <1>0
  <2>3. ClearsAtMost(segments, segments')
    BY <1>0, <2>1, <2>2, GoesEffect DEF FlushGoes, WentOn
  <2> QED
    BY <1>0, <1>2, <2>1, <2>3, SameRowsReflexive DEF LinkOK
<1>4. CASE SendSucceeds
  <2> DEFINE segs == Acknowledged
  <2>1. /\ writer.pc = "sending"
        /\ FlushGoes(segs, writer.seg + 1, writer.upto, writer.blocked)
        /\ channel' = Delivered(segments[writer.seg])
    BY <1>4, SucceedsCase
  <2>2. /\ SameRows(segments, segs)
        /\ \A i \in 1..Len(segments) : i # writer.seg => segs[i] = segments[i]
        /\ Posted(segments[writer.seg]) => segs = segments
        /\ ~Posted(segments[writer.seg]) => segs[writer.seg].message_id = Len(channel) + 1
    BY <2>1, AcknowledgedEffect
  <2>3. /\ \A m \in 1..Len(channel) : channel'[m].seg = channel[m].seg
        /\ ~Posted(segments[writer.seg]) => channel'[Len(channel) + 1].seg = writer.seg
    BY <2>1, DeliveredEffect
  <2>4. /\ writer.seg + 1 \in Nat /\ writer.seg + 1 >= 1 /\ writer.upto \in Nat
        /\ writer.upto <= Len(segments)
    BY <2>1, SendingFacts
  <2> HIDE DEF segs
  <2>5. segs \in Seq(Segment) /\ Len(segs) = Len(segments)
    BY <2>2 DEF SameRows
  <2>6. ClearsAtMost(segs, segments')
    BY <2>1, <2>4, <2>5, GoesEffect DEF FlushGoes, WentOn
  <2>7. \A i \in 1..Len(segments) :
           segs[i].message_id # 0 => channel'[segs[i].message_id].seg = i
    <3> SUFFICES ASSUME NEW i \in 1..Len(segments), segs[i].message_id # 0
                 PROVE  channel'[segs[i].message_id].seg = i
      OBVIOUS
    <3>1. CASE segs[i] = segments[i]
      BY <1>0, <2>3, <3>1 DEF LinkOK
    <3>2. CASE segs[i] # segments[i]
      BY <2>2, <2>3, <3>2
    <3> QED
      BY <3>1, <3>2
  <2> QED
    BY <1>2, <2>2, <2>6, <2>7
<1>5. ASSUME NEW kind \in FaultKinds, SendFails(kind)
      PROVE  LinkOK'
  <2>1. writer.pc = "sending" /\ FailedChannel(kind)
    BY <1>5, FailsCase
  <2>2. \A m \in 1..Len(channel) : channel'[m].seg = channel[m].seg
    <3>1. \A m \in 1..Len(channel) :
             Delivered(segments[writer.seg])[m].seg = channel[m].seg
      BY <2>1, DeliveredEffect
    <3> QED
      BY <2>1, <3>1 DEF FailedChannel
  <2>3. /\ writer.seg + 1 \in Nat /\ writer.seg + 1 >= 1 /\ writer.upto \in Nat
        /\ writer.upto <= Len(segments)
    BY <2>1, SendingFacts
  <2>4. ClearsAtMost(segments, Requeued)
    BY <2>1, RequeuedEffect
  <2>5. Requeued \in Seq(Segment) /\ Len(Requeued) = Len(segments)
    BY <2>4 DEF ClearsAtMost, SameRows
  <2>6. \A i \in 1..Len(segments) :
           segments[i].message_id # 0 => channel'[segments[i].message_id].seg = i
    BY <1>0, <2>2 DEF LinkOK
  <2>7. CASE UNCHANGED segments
    BY <2>6, <2>7 DEF LinkOK
  <2>8. CASE FlushGoes(segments, writer.seg + 1, writer.upto, writer.blocked)
    <3>1. ClearsAtMost(segments, segments')
      BY <1>0, <2>3, <2>8, GoesEffect DEF FlushGoes, WentOn
    <3> QED
      BY <1>0, <1>2, <2>6, <3>1, SameRowsReflexive
  <2>9. CASE FlushGoes(Requeued, writer.seg + 1, writer.upto, TRUE)
    <3>1. ClearsAtMost(Requeued, segments')
      BY <2>3, <2>5, <2>9, GoesEffect DEF FlushGoes, WentOn
    <3> QED
      BY <1>2, <2>4, <2>6, <3>1 DEF ClearsAtMost
  <2> QED
    BY <1>5, <2>7, <2>8, <2>9, FailsCase
<1>6. CASE SpacingEnds
  BY <1>6 DEF SpacingEnds, LinkOK
<1>7. CASE UNCHANGED vars
  BY <1>7 DEF vars, LinkOK
<1>8. ~SendRaises
  BY DEF SendRaises
<1> QED
  BY <1>1, <1>3, <1>4, <1>5, <1>6, <1>7, <1>8 DEF Next, WriterTask, SendEnds, Over

LEMMA LinkAlways ==
    ASSUME "raised" \notin Faults
    PROVE  Spec => []LinkOK
<1>1. Init => LinkOK
  <2> SUFFICES ASSUME Init PROVE LinkOK
    OBVIOUS
  <2>1. Len(segments) = 0
    BY DEF Init
  <2> QED
    BY <2>1 DEF LinkOK
<1>2. IndTypeOK /\ LinkOK /\ [Next]_vars => LinkOK'
  BY LinkStep
<1> QED
  BY <1>1, <1>2, IndTypeOKAlways, PTL DEF Spec

Sealing == sealed = TRUE => finished = TRUE

SealAt(n) ==
    \/ segments[n].dirty = TRUE
    \/ IF writer.pc = "sending" /\ writer.seg = n
       THEN writer.body = segments[n].rows /\ writer.retry_once = TRUE
       ELSE Shows(n, SealRow)

SealInv ==
    finished = TRUE =>
        /\ \E r \in 1..Len(segments[Len(segments)].rows) :
               segments[Len(segments)].rows[r] = SealRow
        /\ faults <= 1 => SealAt(Len(segments))

LEMMA DrainSeals ==
    ASSUME AwaitsAfterSeal = FALSE, IndTypeOK, PhaseInv, Sealing, SealInv, Drain
    PROVE  Sealing' /\ SealInv'
<1>1. UNCHANGED <<writer, channel, faults>>
  BY DrainEffect DEF StepEffect, DrainFrame
<1>2. CASE FinishReturns
  BY <1>1, <1>2 DEF FinishReturns, events, Sealing, SealInv, SealAt, Shows
<1>3. CASE finished = FALSE /\ finished' = FALSE
  <2>1. sealed' = sealed
    <3>1. ASSUME NEW p \in Personas, NEW overflow \in BOOLEAN, Step(p, overflow)
          PROVE  sealed' = sealed
      BY <3>1 DEF Step, ToolCall, ToolResult, OrphanResult, ResolveRow, Consult, Text, AppendStep
    <3>2. ASSUME NEW k \in Keys, NEW result \in Results, ConsultResult(k, result)
          PROVE  sealed' = sealed
      BY <3>2 DEF ConsultResult, ResolveRow
    <3>3. ASSUME NEW overflow \in BOOLEAN
          PROVE  ~Seal(overflow) /\ ~Finish(overflow)
      BY <1>3 DEF Seal, Finish, FinishSignals
    <3>4. FinishNothing \/ FinishReturns \/ FlushBegins \/ FlushReturns \/ FlushTimesOut
            => sealed' = sealed
      BY DEF FinishNothing, FinishReturns, FlushBegins, FlushReturns, FlushTimesOut
    <3> QED
      BY <3>1, <3>2, <3>3, <3>4 DEF Drain
  <2> QED
    BY <1>3, <2>1 DEF Sealing, SealInv
<1>4. CASE finished = FALSE /\ \E overflow \in BOOLEAN : Finish(overflow)
  <2>1. sealed = FALSE
    BY <1>4 DEF Sealing, IndTypeOK, FlagsOK
  <2> QED
    BY <1>4, <2>1, FinishEffect DEF Sealing, SealInv, SealAt, EndsWith
<1> QED
  BY <1>2, <1>3, <1>4, DrainPhases

\* What Discord shows of a segment stays shown, unless the call in flight is for it.
LEMMA ShowsKept ==
    ASSUME IndTypeOK, LinkOK, writer.pc = "sending", NEW n, n # writer.seg, Shows(n, SealRow),
           NEW STATE chan, chan \in {channel, Delivered(segments[writer.seg])}
    PROVE  \E m \in DOMAIN chan :
              /\ chan[m].seg = n
              /\ \E r \in DOMAIN chan[m].rows : chan[m].rows[r] = SealRow
<1>1. CASE chan = channel
  BY <1>1 DEF Shows
<1>2. CASE chan = Delivered(segments[writer.seg])
  <2> DEFINE mid == segments[writer.seg].message_id
  <2>1. PICK m \in DOMAIN channel :
            /\ channel[m].seg = n
            /\ \E r \in DOMAIN channel[m].rows : channel[m].rows[r] = SealRow
    BY DEF Shows
  <2>2. /\ channel \in Seq(Message) /\ Len(channel) \in Nat /\ writer.seg \in 1..Len(segments)
        /\ mid \in 0..Len(channel)
    BY SendingFacts
  <2>3. m \in 1..Len(channel)
    BY <2>1, <2>2
  <2>4. m # mid
    BY <2>1, <2>2, <2>3 DEF LinkOK
  <2>5. /\ chan \in Seq(Message) /\ Len(chan) >= Len(channel)
        /\ chan[m] = channel[m]
    BY <1>2, <2>3, <2>4, DeliveredEffect
  <2>6. m \in DOMAIN chan
    BY <2>2, <2>3, <2>5
  <2> QED
    BY <2>1, <2>5, <2>6
<1> QED
  BY <1>1, <1>2

\* A call that took effect shows the rows it carried.
LEMMA DeliveredShows ==
    ASSUME IndTypeOK, LinkOK, writer.pc = "sending",
           NEW r \in 1..Len(writer.body), writer.body[r] = SealRow,
           NEW STATE chan, chan = Delivered(segments[writer.seg])
    PROVE  \E m \in DOMAIN chan :
              /\ chan[m].seg = writer.seg
              /\ \E s \in DOMAIN chan[m].rows : chan[m].rows[s] = SealRow
<1> DEFINE mid == segments[writer.seg].message_id
<1>1. /\ channel \in Seq(Message) /\ Len(channel) \in Nat /\ writer.seg \in 1..Len(segments)
      /\ mid \in 0..Len(channel) /\ writer.body \in Seq(Row)
  BY SendingFacts
<1>2. r \in DOMAIN writer.body
  BY <1>1
<1>3. CASE Posted(segments[writer.seg])
  <2>1. mid \in 1..Len(channel) /\ channel[mid].seg = writer.seg
    BY <1>1, <1>3 DEF Posted, LinkOK
  <2>2. /\ chan \in Seq(Message) /\ Len(chan) = Len(channel)
        /\ chan[mid].seg = channel[mid].seg /\ chan[mid].rows = writer.body
    BY <1>3, <2>1, DeliveredEffect
  <2>3. mid \in DOMAIN chan
    BY <1>1, <2>1, <2>2
  <2> QED
    BY <1>2, <2>1, <2>2, <2>3
<1>4. CASE ~Posted(segments[writer.seg])
  <2>1. /\ chan \in Seq(Message) /\ Len(chan) = Len(channel) + 1
        /\ chan[Len(channel) + 1].seg = writer.seg
        /\ chan[Len(channel) + 1].rows = writer.body
    BY <1>4, DeliveredEffect
  <2>2. Len(channel) + 1 \in DOMAIN chan
    BY <1>1, <2>1
  <2> QED
    BY <1>2, <2>1, <2>2
<1> QED
  BY <1>3, <1>4

\* A flush that goes on takes a dirty segment as it is, with its retry to come.
LEMMA GoesSeals ==
    ASSUME NEW STATE segs, segs \in Seq(Segment),
           NEW STATE from, from \in Nat, from >= 1,
           NEW STATE upto, upto \in Nat, upto <= Len(segs), NEW STATE blocked,
           FlushGoes(segs, from, upto, blocked), Rests, finished = TRUE,
           NEW n \in Nat, n \in 1..Len(segs),
           segs[n].dirty = TRUE \/ Shows(n, SealRow)'
    PROVE  SealAt(n)'
<1>1. WentOn(segs, from, upto, blocked)
  BY GoesEffect DEF FlushGoes
<1>2. segments'[n].rows = segs[n].rows
  BY <1>1 DEF WentOn, ClearsAtMost, SameRows
<1>3. CASE writer'.pc = "sending" /\ writer'.seg = n
  BY <1>1, <1>2, <1>3 DEF WentOn, Rests, SealAt
<1>4. CASE ~(writer'.pc = "sending" /\ writer'.seg = n)
  <2>1. segments'[n] = segs[n]
    BY <1>1, <1>4 DEF WentOn
  <2> QED
    BY <1>4, <2>1 DEF SealAt
<1> QED
  BY <1>3, <1>4

\* A step of the writer changes no row and none of finish's flags.
LEMMA WriterSeals ==
    ASSUME IndTypeOK, PhaseInv, Sealing, SealInv, UNCHANGED <<sealed, finished>>,
           SameRows(segments, segments'), faults' <= 1 => faults <= 1,
           \A n \in Nat :
               /\ finished = TRUE /\ faults <= 1 /\ faults' <= 1
               /\ n = Len(segments) /\ n # 0 /\ SealAt(n)
               => SealAt(n)'
    PROVE  Sealing' /\ SealInv'
<1>1. Sealing'
  BY DEF Sealing
<1>2. CASE finished = FALSE
  BY <1>1, <1>2 DEF SealInv
<1>3. CASE finished = TRUE
  <2>1. PICK n \in Nat : n = Len(segments)
    BY DEF IndTypeOK
  <2>2. n # 0 /\ n \in 1..Len(segments) /\ Len(segments') = n
    BY <1>3, <2>1 DEF PhaseInv, SameRows
  <2>3. segments'[n].rows = segments[n].rows
    BY <2>2 DEF SameRows
  <2>4. faults' <= 1 => SealAt(n)'
    BY <1>3, <2>1, <2>2 DEF SealInv, SealAt
  <2>5. SealAt(Len(segments))' <=> SealAt(n)'
    BY <2>2 DEF SealAt
  <2> QED
    BY <1>1, <1>3, <2>1, <2>2, <2>3, <2>4, <2>5 DEF SealInv
<1> QED
  BY <1>2, <1>3 DEF IndTypeOK, FlagsOK

\* The seal's row, where the last segment is the one in flight.
LEMMA SealInFlight ==
    ASSUME IndTypeOK, LinkOK, SealInv, finished = TRUE, writer.pc = "sending",
           writer.seg = Len(segments), segments[writer.seg].dirty # TRUE,
           SealAt(writer.seg), NEW STATE chan, chan = Delivered(segments[writer.seg])
    PROVE  \E m \in DOMAIN chan :
              /\ chan[m].seg = writer.seg
              /\ \E s \in DOMAIN chan[m].rows : chan[m].rows[s] = SealRow
<1>1. writer.body = segments[writer.seg].rows
  BY DEF SealAt
<1>2. \E r \in 1..Len(writer.body) : writer.body[r] = SealRow
  BY <1>1 DEF SealInv
<1> QED
  BY <1>2, DeliveredShows

LEMMA SucceedsSeals ==
    ASSUME IndTypeOK, LinkOK, SealInv, finished = TRUE, SendSucceeds,
           NEW n \in Nat, n = Len(segments), n # 0, SealAt(n)
    PROVE  SealAt(n)'
<1> DEFINE segs == Acknowledged
<1>1. /\ writer.pc = "sending"
      /\ FlushGoes(segs, writer.seg + 1, writer.upto, writer.blocked) /\ Rests
      /\ channel' = Delivered(segments[writer.seg])
  BY SucceedsCase, WriterRests
<1>2. /\ SameRows(segments, segs)
      /\ \A i \in 1..Len(segments) : i # writer.seg => segs[i] = segments[i]
      /\ segs[writer.seg].dirty = segments[writer.seg].dirty
  BY <1>1, AcknowledgedEffect
<1>3. /\ writer.seg + 1 \in Nat /\ writer.seg + 1 >= 1
      /\ writer.upto \in Nat /\ writer.upto <= Len(segments)
      /\ n \in 1..Len(segments)
  BY <1>1, SendingFacts
<1> HIDE DEF segs
<1>4. segs \in Seq(Segment) /\ Len(segs) = Len(segments)
  BY <1>2 DEF SameRows
<1>5. segs[n].dirty = TRUE \/ Shows(n, SealRow)'
  <2>1. CASE n = writer.seg
    <3>1. CASE segments[n].dirty = TRUE
      BY <1>2, <2>1, <3>1
    <3>2. CASE segments[n].dirty # TRUE
      BY <1>1, <2>1, <3>2, SealInFlight DEF Shows
    <3> QED
      BY <3>1, <3>2
  <2>2. CASE n # writer.seg
    <3>1. segments[n].dirty = TRUE \/ Shows(n, SealRow)
      BY <2>2 DEF SealAt
    <3>2. Shows(n, SealRow) => Shows(n, SealRow)'
      BY <1>1, <2>2, ShowsKept DEF Shows
    <3> QED
      BY <1>2, <1>3, <2>2, <3>1, <3>2
  <2> QED
    BY <2>1, <2>2
<1> QED
  BY <1>1, <1>3, <1>4, <1>5, GoesSeals

LEMMA FailsSeals ==
    ASSUME MaxFaults > 1, IndTypeOK, LinkOK, PhaseInv, SealInv, finished = TRUE,
           NEW kind \in FaultKinds, SendFails(kind), faults' <= 1,
           NEW n \in Nat, n = Len(segments), n # 0, SealAt(n)
    PROVE  SealAt(n)'
<1>1. writer.pc = "sending" /\ FailedChannel(kind)
  BY FailsCase
<1>2. /\ writer.seg + 1 \in Nat /\ writer.seg + 1 >= 1
      /\ writer.upto \in Nat /\ writer.upto <= Len(segments)
      /\ n \in 1..Len(segments) /\ segments \in Seq(Segment)
  BY <1>1, SendingFacts
<1>3. CASE writer' = [writer EXCEPT !.again = TRUE] /\ UNCHANGED segments
  <2>1. /\ writer'.pc = "sending" /\ writer'.seg = writer.seg /\ writer'.body = writer.body
        /\ writer'.retry_once = writer.retry_once
    BY <1>1, <1>3 DEF IndTypeOK, WriterOK, Writer
  <2>2. n # writer.seg /\ Shows(n, SealRow) => Shows(n, SealRow)'
    BY <1>1, ShowsKept DEF FailedChannel, Shows
  <2> QED
    BY <1>1, <1>3, <2>1, <2>2 DEF SealAt
<1>4. CASE Rests /\ ~RetriesNow(segments[writer.seg])
  <2>1. writer.retry_once # TRUE
    BY <1>4, FirstFailRetried
  <2>2. segments[n].dirty = TRUE \/ (n # writer.seg /\ Shows(n, SealRow)')
    <3>1. segments[n].dirty = TRUE \/ (n # writer.seg /\ Shows(n, SealRow))
      BY <1>1, <2>1 DEF SealAt
    <3>2. n # writer.seg /\ Shows(n, SealRow) => Shows(n, SealRow)'
      BY <1>1, ShowsKept DEF FailedChannel, Shows
    <3> QED
      BY <3>1, <3>2
  <2>3. CASE writer' = [writer EXCEPT !.again = TRUE] /\ UNCHANGED segments
    BY <1>3, <2>3
  <2>4. CASE FlushGoes(segments, writer.seg + 1, writer.upto, writer.blocked)
    BY <1>2, <1>4, <2>2, <2>4, GoesSeals
  <2>5. CASE FlushGoes(Requeued, writer.seg + 1, writer.upto, TRUE)
    <3>1. /\ ClearsAtMost(segments, Requeued)
          /\ \A i \in 1..Len(segments) : i # writer.seg => Requeued[i] = segments[i]
          /\ Requeued[writer.seg].dirty = TRUE
      BY <1>1, RequeuedEffect
    <3>2. Requeued \in Seq(Segment) /\ Len(Requeued) = Len(segments)
      BY <3>1 DEF ClearsAtMost, SameRows
    <3>3. Requeued[n].dirty = TRUE \/ Shows(n, SealRow)'
      BY <1>2, <2>2, <3>1
    <3> QED
      BY <1>2, <1>4, <2>5, <3>2, <3>3, GoesSeals
  <2> QED
    BY <2>3, <2>4, <2>5, FailsCase
<1> QED
  BY <1>3, <1>4, FailsRests

LEMMA SealStep ==
    ASSUME "raised" \notin Faults, MaxFaults > 1, AwaitsAfterSeal = FALSE,
           IndTypeOK, LinkOK, PhaseInv, Sealing, SealInv, [Next]_vars
    PROVE  Sealing' /\ SealInv'
<1>0. /\ segments \in Seq(Segment) /\ Len(segments) \in Nat
      /\ faults \in Nat /\ MaxFaults \in Nat
  BY StepTraceAssumption DEF IndTypeOK, ChannelOK
<1>1. CASE Drain
  BY <1>1, DrainSeals
<1>2. ASSUME WriterTask
      PROVE  SameRows(segments, segments')
  BY <1>2, WriterTaskOK
<1>3. CASE WriterWakes
  <2>1. /\ FlushGoes(segments, 1, Len(segments), FALSE) /\ Rests
        /\ writer.pc = "parked"
        /\ UNCHANGED <<sealed, finished, channel, faults>>
    BY <1>3, WakesCase, WriterRests
  <2>2. ASSUME NEW n \in Nat, finished = TRUE, n = Len(segments), n # 0, SealAt(n)
        PROVE  SealAt(n)'
    <3>1. segments[n].dirty = TRUE \/ Shows(n, SealRow)'
      BY <2>1, <2>2 DEF SealAt, Shows
    <3>2. 1 \in Nat /\ 1 >= 1 /\ Len(segments) <= Len(segments) /\ n \in 1..Len(segments)
      BY <1>0, <2>2
    <3> QED
      BY <1>0, <2>1, <2>2, <3>1, <3>2, GoesSeals
  <2> QED
    BY <1>2, <1>3, <2>1, <2>2, WriterSeals DEF WriterTask
<1>4. CASE SendSucceeds
  <2>1. UNCHANGED <<sealed, finished, faults>>
    BY <1>4, SucceedsCase
  <2>2. \A n \in Nat : finished = TRUE /\ n = Len(segments) /\ n # 0 /\ SealAt(n) => SealAt(n)'
    BY <1>4, SucceedsSeals
  <2> QED
    BY <1>2, <1>4, <2>1, <2>2, WriterSeals DEF WriterTask, SendEnds
<1>5. ASSUME NEW kind \in FaultKinds, SendFails(kind)
      PROVE  Sealing' /\ SealInv'
  <2>1. UNCHANGED <<sealed, finished>> /\ faults' = CountFault
    BY <1>5, FailsCase
  <2>2. faults' <= 1 => faults <= 1
    BY <1>0, <2>1 DEF CountFault
  <2>3. \A n \in Nat : /\ finished = TRUE /\ faults' <= 1
                       /\ n = Len(segments) /\ n # 0 /\ SealAt(n)
                       => SealAt(n)'
    BY <1>5, FailsSeals
  <2> QED
    BY <1>2, <1>5, <2>1, <2>2, <2>3, WriterSeals DEF WriterTask, SendEnds
<1>6. CASE SpacingEnds
  <2>1. /\ UNCHANGED <<segments, sealed, finished, channel, faults>>
        /\ writer.pc = "spacing" /\ writer'.pc = "parked"
    BY <1>6 DEF SpacingEnds, events, AtRest
  <2> QED
    BY <2>1 DEF Sealing, SealInv, SealAt, Shows
<1>7. CASE UNCHANGED vars
  BY <1>7 DEF vars, events, Sealing, SealInv, SealAt, Shows
<1>8. ~SendRaises
  BY DEF SendRaises
<1> QED
  BY <1>1, <1>3, <1>4, <1>5, <1>6, <1>7, <1>8 DEF Next, WriterTask, SendEnds, Over

LEMMA SealInvAlways ==
    ASSUME "raised" \notin Faults, MaxFaults > 1, AwaitsAfterSeal = FALSE
    PROVE  Spec => [](Sealing /\ SealInv)
<1>1. Init => Sealing /\ SealInv
  BY DEF Init, Sealing, SealInv
<1>2. /\ IndTypeOK /\ LinkOK /\ PhaseInv /\ Sealing /\ SealInv /\ [Next]_vars
      => (Sealing /\ SealInv)'
  BY SealStep
<1> QED
  BY <1>1, <1>2, IndTypeOKAlways, LinkAlways, FinalInvAlways, PTL DEF Spec

(* finish does not return before Discord shows the seal, with one failed call *)
(* at whatever moment of the run, on the surface where finish itself appends  *)
(* it.  Where the reply is delivered in between (A2A), the seal can be edited *)
(* in before finish is called, and that edit is not retried (_edit:           *)
(* retry_once is read when the edit begins).                                  *)
THEOREM SealAlwaysShown ==
    ASSUME "raised" \notin Faults, MaxFaults > 1, AwaitsAfterSeal = FALSE
    PROVE  Spec => []SealShown
<1>1. IndTypeOK /\ PhaseInv /\ FinalInv /\ SealInv => SealShown
  <2> SUFFICES ASSUME IndTypeOK, PhaseInv, FinalInv, SealInv, drain = "done", faults <= 1,
                      Len(segments) # 0
               PROVE  Shows(Len(segments), SealRow)
    BY DEF SealShown
  <2>1. writer.pc = "exited" /\ finished = TRUE /\ wake = FALSE
    BY DEF PhaseInv
  <2>2. Len(segments) \in 1..Len(segments)
    BY DEF IndTypeOK
  <2>3. segments[Len(segments)].dirty = FALSE
    BY <2>1, <2>2 DEF FinalInv
  <2> QED
    BY <2>1, <2>3 DEF SealInv, SealAt
<1> QED
  BY <1>1, IndTypeOKAlways, FinalInvAlways, SealInvAlways, PTL

=============================================================================
