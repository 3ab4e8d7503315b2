---------------------------- MODULE CdcRing_proofs ----------------------------
(* Theorems about CdcRing for a ring and a reader's buffer of any size.    *)
EXTENDS CdcRing, SequenceTheorems, TLAPS

-----------------------------------------------------------------------------
(* Arithmetic of the indices.                                              *)

LEMMA Modulo ==
  ASSUME NEW a \in Int
  PROVE  /\ a \in Index => a % RingSize = a
         /\ a - RingSize \in Index => a % RingSize = a - RingSize
         /\ a + RingSize \in Index => a % RingSize = a + RingSize
<1>1. RingSize \in Nat \ {0}
  BY RingAssumption
<1>2. a \in Index => a % RingSize = a
  BY <1>1 DEF Index
<1>3. a - RingSize \in Index => a % RingSize = a - RingSize
  BY <1>1 DEF Index
<1>4. a + RingSize \in Index => a % RingSize = a + RingSize
  BY <1>1 DEF Index
<1> QED BY <1>2, <1>3, <1>4

LEMMA NextIndex ==
  ASSUME NEW i \in Index
  PROVE  Next1(i) = IF i + 1 = RingSize THEN 0 ELSE i + 1
BY Modulo, RingAssumption DEF Next1, Index

LEMMA FillOf ==
  ASSUME NEW h \in Index, NEW t \in Index
  PROVE  /\ Fill(h, t) = IF h >= t THEN h - t ELSE h - t + RingSize
         /\ Fill(h, t) \in 0 .. RingSize - 1
<1> DEFINE a == h - t
<1>1. a \in Int
  BY RingAssumption DEF Index
<1>2. ASSUME h >= t
      PROVE  Fill(h, t) = h - t
  <2>1. a \in Index
    BY <1>2, RingAssumption DEF Index
  <2>2. a % RingSize = a
    <3> HIDE DEF a
    <3> QED BY <1>1, <2>1, Modulo
  <2> QED BY <1>2, <2>2 DEF Fill
<1>3. ASSUME ~(h >= t)
      PROVE  Fill(h, t) = h - t + RingSize
  <2>1. a + RingSize \in Index
    BY <1>3, RingAssumption DEF Index
  <2>2. a % RingSize = a + RingSize
    <3> HIDE DEF a
    <3> QED BY <1>1, <2>1, Modulo
  <2> QED BY <1>3, <2>2 DEF Fill
<1>4. Fill(h, t) = IF h >= t THEN h - t ELSE h - t + RingSize
  BY <1>2, <1>3
<1> QED BY <1>4, RingAssumption DEF Index

-----------------------------------------------------------------------------
(* Types.                                                                  *)

LEMMA TypeInit == Init => TypeOK
BY RingAssumption DEF Init, TypeOK, Index

LEMMA TypeStep == TypeOK /\ [Next]_vars => TypeOK'
<1> SUFFICES ASSUME TypeOK, [Next]_vars PROVE TypeOK'
  OBVIOUS
<1> USE DEF TypeOK
<1>1. CASE write_begin
  BY <1>1, RingAssumption DEF write_begin
<1>2. CASE write_byte
  <2>1. Next1(head) \in Index
    BY NextIndex, RingAssumption DEF Index
  <2> QED BY <1>2, <2>1 DEF write_byte
<1>3. CASE write_end
  BY <1>3 DEF write_end
<1>4. CASE read_begin
  BY <1>4 DEF read_begin
<1>5. CASE read_byte
  <2>1. Next1(tail) \in Index
    BY NextIndex, RingAssumption DEF Index
  <2>2. out' \in Seq(Nat)
    BY <1>5 DEF read_byte
  <2> QED BY <1>5, <2>1, <2>2 DEF read_byte
<1>6. CASE read_end
  BY <1>6 DEF read_end
<1>7. CASE UNCHANGED vars
  BY <1>7 DEF vars
<1> QED BY <1>1, <1>2, <1>3, <1>4, <1>5, <1>6, <1>7 DEF Next

\* Both indices stay inside the buffer, for every size of it.
THEOREM TypeCorrect == Spec => []TypeOK
BY TypeInit, TypeStep, PTL DEF Spec

-----------------------------------------------------------------------------
(* The content of the ring as a sequence.                                  *)

\* The cell that holds the i-th byte in the ring.
Cell(t, i) == IF t + i - 1 < RingSize THEN t + i - 1 ELSE t + i - 1 - RingSize

Filled == Fill(head, tail)

LEMMA CellOf ==
  ASSUME NEW h \in Index, NEW t \in Index, NEW i \in 1 .. Fill(h, t)
  PROVE  /\ Cell(t, i) \in Index
         /\ (t + i - 1) % RingSize = Cell(t, i)
<1>1. Fill(h, t) \in 0 .. RingSize - 1
  BY FillOf
<1>2. t \in Int /\ i \in Int /\ t + i - 1 \in Int /\ Cell(t, i) \in Index
  BY <1>1, RingAssumption DEF Index, Cell
<1>3. CASE t + i - 1 < RingSize
  <2>1. t + i - 1 \in Index
    BY <1>2, <1>3 DEF Cell
  <2> QED BY <1>2, <1>3, <2>1, Modulo DEF Cell
<1>4. CASE ~(t + i - 1 < RingSize)
  <2> DEFINE a == t + i - 1
  <2>1. Cell(t, i) = a - RingSize
    BY <1>2, <1>4, RingAssumption DEF Cell
  <2>2. a \in Int
    BY <1>2
  <2>3. a % RingSize = a - RingSize
    <3>1. a - RingSize \in Index
      BY <1>2, <2>1
    <3> HIDE DEF a
    <3> QED BY <2>2, <3>1, Modulo
  <2> QED BY <1>2, <2>1, <2>3
<1> QED BY <1>2, <1>3, <1>4

LEMMA ContentProperties ==
  ASSUME NEW r \in [Index -> Nat], NEW h \in Index, NEW t \in Index
  PROVE  /\ Fill(h, t) \in 0 .. RingSize - 1
         /\ Content(r, h, t) \in Seq(Nat)
         /\ Len(Content(r, h, t)) = Fill(h, t)
         /\ \A i \in 1 .. Fill(h, t) : /\ Cell(t, i) \in Index
                                       /\ Content(r, h, t)[i] = r[Cell(t, i)]
<1>1. Fill(h, t) \in 0 .. RingSize - 1
  BY FillOf
<1>2. \A i \in 1 .. Fill(h, t) : /\ Cell(t, i) \in Index
                                 /\ Content(r, h, t)[i] = r[Cell(t, i)]
                                 /\ Content(r, h, t)[i] \in Nat
  BY CellOf DEF Content
<1>3. Content(r, h, t) \in [1 .. Fill(h, t) -> Nat]
  BY <1>2 DEF Content
<1>4. Content(r, h, t) \in Seq(Nat) /\ Len(Content(r, h, t)) = Fill(h, t)
  BY <1>1, <1>3
<1> QED BY <1>1, <1>2, <1>4

\* What does not touch the ring and its indices leaves the content alone.
LEMMA ContentsUnchanged ==
  ASSUME UNCHANGED <<ring, head, tail>>
  PROVE  Contents' = Contents
BY DEF Contents

-----------------------------------------------------------------------------
(* The ring implements SerialStream.                                       *)

\* A turn of the writer's loop with room in the ring.
LEMMA WriteAppends ==
  ASSUME TypeOK, TypeOK', write_byte, Next1(head) # tail
  PROVE  /\ Filled < RingSize - 1
         /\ Contents' = Contents \o [i \in 1 .. 1 |-> heard + i]
<1> DEFINE one == [i \in 1 .. 1 |-> heard + i]
           all == Contents \o one
<1>0. /\ RingSize \in Nat /\ head \in Nat /\ tail \in Nat
      /\ head < RingSize /\ tail < RingSize
      /\ Filled = IF head >= tail THEN head - tail ELSE head - tail + RingSize
  BY FillOf, RingAssumption DEF Filled, TypeOK, Index
<1>1. /\ Filled \in 0 .. RingSize - 1
      /\ Contents \in Seq(Nat)
      /\ Len(Contents) = Filled
      /\ \A i \in 1 .. Filled : Cell(tail, i) \in Index /\ Contents[i] = ring[Cell(tail, i)]
  BY ContentProperties DEF Contents, Filled, TypeOK
<1>2. /\ Contents' \in Seq(Nat)
      /\ Len(Contents') = Filled'
      /\ \A i \in 1 .. Filled' : Contents'[i] = ring'[Cell(tail', i)]
  BY ContentProperties, ZenonT(30) DEF Contents, Filled, TypeOK
<1>3. /\ tail' = tail
      /\ head' = Next1(head)
      /\ ring' = [ring EXCEPT ![head] = heard + 1]
  BY DEF write_byte
<1>4. Filled' = Filled + 1 /\ Filled < RingSize - 1
  <2>1. head' = IF head + 1 = RingSize THEN 0 ELSE head + 1
    BY <1>3, NextIndex DEF TypeOK
  <2>2. Filled = IF head >= tail THEN head - tail ELSE head - tail + RingSize
    BY FillOf DEF Filled, TypeOK
  <2>3. Filled' = IF head' >= tail THEN head' - tail ELSE head' - tail + RingSize
    BY <1>3, FillOf DEF Filled, TypeOK
  <2> QED BY <1>3, <2>1, <2>2, <2>3, RingAssumption DEF TypeOK, Index
<1>5. one \in Seq(Nat) /\ Len(one) = 1 /\ one[1] = heard + 1
  <2>1. one \in [1 .. 1 -> Nat]
    BY DEF TypeOK
  <2> QED BY <2>1 DEF TypeOK
<1>6. /\ all \in Seq(Nat)
      /\ Len(all) = Filled + 1
      /\ \A i \in 1 .. Filled + 1 : all[i] = IF i <= Filled THEN Contents[i] ELSE one[i - Filled]
  <2> HIDE DEF one
  <2>1. /\ all \in Seq(Nat)
        /\ Len(all) = Len(Contents) + Len(one)
        /\ \A i \in 1 .. Len(Contents) + Len(one) :
             all[i] = IF i <= Len(Contents) THEN Contents[i] ELSE one[i - Len(Contents)]
    BY <1>1, <1>5, ConcatProperties
  <2> HIDE DEF all
  <2> QED BY <1>1, <1>5, <2>1
<1>7. ASSUME NEW i \in 1 .. Filled
      PROVE  Contents'[i] = all[i]
  <2>1. Cell(tail', i) = Cell(tail, i) /\ Cell(tail, i) # head
    BY <1>0, <1>3, <1>7 DEF Cell
  <2>2. ring'[Cell(tail, i)] = ring[Cell(tail, i)]
    BY <1>1, <1>3, <1>7, <2>1 DEF TypeOK
  <2>3. i \in 1 .. Filled' /\ i \in 1 .. Filled + 1 /\ i <= Filled
    BY <1>1, <1>4, <1>7
  <2> HIDE DEF all
  <2> QED BY <1>1, <1>2, <1>6, <1>7, <2>1, <2>2, <2>3
<1>8. Contents'[Filled + 1] = all[Filled + 1]
  <2>1. Cell(tail, Filled + 1) = head
    BY <1>0, <1>4 DEF Cell
  <2>2. Contents'[Filled + 1] = ring'[Cell(tail, Filled + 1)]
    BY <1>1, <1>2, <1>3, <1>4 DEF Cell
  <2>3. ring'[head] = heard + 1
    BY <1>3 DEF TypeOK
  <2>4. all[Filled + 1] = one[1]
    <3> HIDE DEF one, all
    <3> QED BY <1>1, <1>6
  <2> QED BY <1>5, <2>1, <2>2, <2>3, <2>4
<1>9. \A i \in 1 .. Len(Contents') : Contents'[i] = all[i]
  <2>1. \A i \in 1 .. Filled' : i \in 1 .. Filled \/ i = Filled + 1
    BY <1>1, <1>4
  <2> QED BY <1>2, <1>7, <1>8, <2>1
<1>10. Contents' = all
  <2> HIDE DEF all
  <2> QED BY <1>2, <1>4, <1>6, <1>9, SeqEqual
<1> QED BY <1>4, <1>10

\* A turn without room: the ring is full, and stays what it is.
LEMMA WriteDrops ==
  ASSUME TypeOK, write_byte, Next1(head) = tail
  PROVE  /\ Filled = RingSize - 1
         /\ Contents' = Contents
<1>1. Filled = RingSize - 1
  <2>1. tail = IF head + 1 = RingSize THEN 0 ELSE head + 1
    BY NextIndex DEF TypeOK
  <2>2. Filled = IF head >= tail THEN head - tail ELSE head - tail + RingSize
    BY FillOf DEF Filled, TypeOK
  <2>3. head \in Nat /\ RingSize \in Nat /\ head < RingSize
    BY RingAssumption DEF TypeOK, Index
  <2> QED BY <2>1, <2>2, <2>3
<1>2. Contents' = Contents
  BY ContentsUnchanged DEF write_byte
<1> QED BY <1>1, <1>2

\* A turn of the reader's loop takes the oldest byte.
LEMMA ReadTakes ==
  ASSUME TypeOK, TypeOK', read_byte
  PROVE  /\ Len(Contents) >= 1
         /\ Contents' = SubSeq(Contents, 2, Len(Contents))
         /\ out' = out \o SubSeq(Contents, 1, 1)
<1> DEFINE rest == SubSeq(Contents, 2, Len(Contents))
<1>1. /\ Filled \in 0 .. RingSize - 1
      /\ Contents \in Seq(Nat)
      /\ Len(Contents) = Filled
      /\ \A i \in 1 .. Filled : Cell(tail, i) \in Index /\ Contents[i] = ring[Cell(tail, i)]
  BY ContentProperties DEF Contents, Filled, TypeOK
<1>2. /\ Contents' \in Seq(Nat)
      /\ Len(Contents') = Filled'
      /\ \A i \in 1 .. Filled' : Contents'[i] = ring'[Cell(tail', i)]
  BY ContentProperties DEF Contents, Filled, TypeOK
<1>3. /\ tail' = IF tail + 1 = RingSize THEN 0 ELSE tail + 1
      /\ head' = head
      /\ ring' = ring
      /\ tail # head
      /\ out' = Append(out, ring[tail])
  BY NextIndex DEF read_byte, TypeOK
<1>4. Filled' = Filled - 1 /\ Filled >= 1
  <2>1. Filled = IF head >= tail THEN head - tail ELSE head - tail + RingSize
    BY FillOf DEF Filled, TypeOK
  <2>2. Filled' = IF head >= tail' THEN head - tail' ELSE head - tail' + RingSize
    BY <1>3, FillOf DEF Filled, TypeOK
  <2> QED BY <1>3, <2>1, <2>2, RingAssumption DEF TypeOK, Index
<1>5. /\ rest \in Seq(Nat)
      /\ Len(rest) = Filled - 1
      /\ \A i \in 1 .. Filled - 1 : rest[i] = Contents[i + 1]
  <2>1. \A i \in 2 .. Filled : Contents[i] \in Nat
    BY <1>1, ElementOfSeq
  <2>2. Filled \in Int
    BY <1>1
  <2>3. /\ rest \in Seq(Nat)
        /\ Len(rest) = IF 2 <= Filled THEN Filled - 2 + 1 ELSE 0
        /\ \A i \in 1 .. Filled - 2 + 1 : rest[i] = Contents[2 + i - 1]
    BY <1>1, <2>1, <2>2, SubSeqProperties
  <2>4. \A i \in 1 .. Filled - 1 : i \in 1 .. Filled - 2 + 1 /\ 2 + i - 1 = i + 1
    BY <2>2
  <2> HIDE DEF rest
  <2> QED BY <1>1, <1>4, <2>3, <2>4
<1>6. ASSUME NEW i \in 1 .. Filled - 1
      PROVE  Contents'[i] = rest[i]
  <2>1. Cell(tail', i) = Cell(tail, i + 1)
    BY <1>1, <1>3, <1>4, <1>6, RingAssumption, SMTT(30) DEF Cell, TypeOK, Index
  <2>2. i + 1 \in 1 .. Filled /\ i \in 1 .. Filled'
    BY <1>1, <1>4, <1>6
  <2> HIDE DEF rest
  <2> QED BY <1>1, <1>2, <1>3, <1>5, <1>6, <2>1, <2>2, ZenonT(30)
<1>7. Contents' = rest
  <2> HIDE DEF rest
  <2>1. \A i \in 1 .. Len(Contents') : Contents'[i] = rest[i]
    BY <1>2, <1>4, <1>6
  <2> QED BY <1>2, <1>4, <1>5, <2>1, SeqEqual
<1>8. out' = out \o SubSeq(Contents, 1, 1)
  <2>1. 1 \in 1 .. Filled
    BY <1>1, <1>4
  <2>2. Cell(tail, 1) = tail
    BY RingAssumption DEF Cell, TypeOK, Index
  <2>3. Contents[1] = ring[tail]
    BY <1>1, <2>1, <2>2
  <2>4. SubSeq(Contents, 1, 1) = <<Contents[1]>>
    <3>1. 1 \in Int /\ \A i \in 1 .. 1 : Contents[i] \in Nat
      BY <1>1, <2>1, ElementOfSeq
    <3>2. /\ SubSeq(Contents, 1, 1) \in Seq(Nat)
          /\ Len(SubSeq(Contents, 1, 1)) = 1
          /\ SubSeq(Contents, 1, 1)[1] = Contents[1]
      BY <3>1, SubSeqProperties
    <3>3. <<Contents[1]>> \in Seq(Nat) /\ Len(<<Contents[1]>>) = 1
      BY <3>1
    <3>4. \A i \in 1 .. 1 : SubSeq(Contents, 1, 1)[i] = <<Contents[1]>>[i]
      BY <3>2
    <3> QED BY <3>2, <3>3, <3>4, SeqEqual
  <2>5. Append(out, ring[tail]) = out \o <<ring[tail]>>
    BY AppendIsConcat DEF TypeOK
  <2> QED BY <1>3, <2>3, <2>4, <2>5
<1> QED BY <1>1, <1>4, <1>7, <1>8

LEMMA StreamInit == Init => Stream!SInit
<1> SUFFICES ASSUME Init PROVE Stream!SInit
  OBVIOUS
<1>1. TypeOK
  BY TypeInit
<1>2. Filled = 0
  BY <1>1, FillOf DEF Filled, Init, TypeOK
<1>3. Contents = <<>>
  BY <1>1, <1>2, ContentProperties DEF Contents, Filled, TypeOK
<1> QED BY <1>3 DEF Init, Stream!SInit

LEMMA StreamStep ==
  ASSUME TypeOK, TypeOK', [Next]_vars
  PROVE  [Stream!SNext]_(Stream!svars)
<1>1. CASE write_byte
  <2>1. Len(Contents) = Filled /\ Filled \in Nat
    BY ContentProperties, RingAssumption, SMTT(30) DEF Contents, Filled, TypeOK
  <2>2. heard' = heard + 1 /\ out' = out /\ heard \in Nat
    BY <1>1 DEF write_byte, TypeOK
  <2>3. CASE Next1(head) # tail
    <3>1. /\ Filled < RingSize - 1
          /\ Contents' = Contents \o [i \in 1 .. 1 |-> heard + i]
      BY <1>1, <2>3, WriteAppends
    <3>2. 1 \in 0 .. heard' - heard /\ ~(1 < heard' - heard) /\ heard' > heard
      BY <2>2
    <3>3. Len(Contents) + 1 <= RingSize - 1
      BY <2>1, <3>1, RingAssumption
    <3> QED BY <2>2, <3>1, <3>2, <3>3 DEF Stream!SNext, Stream!Hear
  <2>4. CASE Next1(head) = tail
    <3>1. Filled = RingSize - 1 /\ Contents' = Contents
      BY <1>1, <2>4, WriteDrops
    <3>2. Contents' = Contents \o [i \in 1 .. 0 |-> heard + i]
      <4>1. [i \in 1 .. 0 |-> heard + i] = <<>>
        OBVIOUS
      <4> QED BY <3>1, <4>1, ContentProperties, ConcatEmptySeq DEF Contents, TypeOK
    <3>3. 0 \in 0 .. heard' - heard /\ heard' > heard
      BY <2>2
    <3>4. Len(Contents) + 0 >= RingSize - 1 /\ Len(Contents) + 0 <= RingSize - 1
      BY <2>1, <3>1, RingAssumption
    <3> QED BY <2>2, <3>2, <3>3, <3>4 DEF Stream!SNext, Stream!Hear
  <2> QED BY <2>3, <2>4
<1>2. CASE read_byte
  <2>1. /\ Len(Contents) >= 1
        /\ Contents' = SubSeq(Contents, 2, Len(Contents))
        /\ out' = out \o SubSeq(Contents, 1, 1)
    BY <1>2, ReadTakes
  <2>2. 1 \in 1 .. Len(Contents)
    BY <2>1, ContentProperties DEF Contents, TypeOK
  <2>3. heard' = heard
    BY <1>2 DEF read_byte
  <2> QED
    BY <2>1, <2>2, <2>3 DEF Stream!SNext, Stream!Deliver, Stream!Leaves
<1>3. CASE write_begin \/ write_end \/ read_begin \/ read_end \/ UNCHANGED vars
  <2>1. UNCHANGED <<ring, head, tail, heard, out>>
    BY <1>3 DEF write_begin, write_end, read_begin, read_end, vars
  <2> QED BY <2>1, ContentsUnchanged DEF Stream!svars
<1> QED BY <1>1, <1>2, <1>3 DEF Next

\* For a ring of any size: ring_write_locked and ring_read together are the
\* bounded, order-preserving, drop-newest queue of SerialStream.
THEOREM ImplementsStream == Spec => StreamSpec
BY StreamInit, StreamStep, TypeCorrect, PTL DEF Spec, StreamSpec, Stream!SSpec
===============================================================================
