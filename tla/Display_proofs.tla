----------------------------- MODULE Display_proofs -----------------------------
(***************************************************************************)
(* The cursor of a terminal stays in its grid whatever bytes come, and no  *)
(* message stays on a display: for grids, chunks, pages, outputs, lengths  *)
(* of a press and a countdown of any size.                                 *)
(***************************************************************************)
EXTENDS Display, SequenceTheorems, WellFoundedInduction, TLAPS

-------------------------------------------------------------------------------
(* Induction, from the well-foundedness of the natural numbers.            *)

(* A set with 0 and the successor of each of its numbers has all numbers.  *)
LEMMA NatSetInduction ==
  ASSUME NEW S, 0 \in S, \A n \in Nat : n \in S => n + 1 \in S
  PROVE  Nat \subseteq S
<1> DEFINE T    == Nat \ S
           Less == {ss \in Nat \X Nat : ss[1] < ss[2]}
<1>1. SUFFICES ASSUME T # {} PROVE FALSE
  OBVIOUS
<1>2. IsWellFoundedOn(Less, Nat)
  BY NatLessThanWellFounded DEF OpToRel
<1>3. PICK x \in T : \A y \in T : <<y, x>> \notin Less
  <2> HIDE DEF Less
  <2> QED BY <1>1, <1>2, WFMin
<1>4. x # 0 /\ x - 1 \in T
  OBVIOUS
<1>5. <<x - 1, x>> \in Less
  BY <1>4
<1> QED BY <1>3, <1>4, <1>5

-------------------------------------------------------------------------------
(* Arithmetic of the cursor.                                               *)

LEMMA MaxOfTwo ==
  ASSUME NEW a \in Int, NEW b \in Int
  PROVE  Max({a, b}) = IF a >= b THEN a ELSE b
<1> DEFINE m == IF a >= b THEN a ELSE b
<1>1. m \in {a, b} /\ \A y \in {a, b} : m >= y
  OBVIOUS
<1>2. \A x \in {a, b} : (\A y \in {a, b} : x >= y) => x = m
  OBVIOUS
<1> HIDE DEF m
<1>3. Max({a, b}) = m
  BY <1>1, <1>2 DEF Max
<1> QED BY <1>3 DEF m

LEMMA MinOfTwo ==
  ASSUME NEW a \in Int, NEW b \in Int
  PROVE  Min({a, b}) = IF a <= b THEN a ELSE b
<1> DEFINE m == IF a <= b THEN a ELSE b
<1>1. m \in {a, b} /\ \A y \in {a, b} : m <= y
  OBVIOUS
<1>2. \A x \in {a, b} : (\A y \in {a, b} : x <= y) => x = m
  OBVIOUS
<1> HIDE DEF m
<1>3. Min({a, b}) = m
  BY <1>1, <1>2 DEF Min
<1> QED BY <1>3 DEF m

(* What cursor commands move it to is in the grid, from any number.        *)
LEMMA RowInside ==
  ASSUME NEW r \in Int
  PROVE  Max({0, Min({r, TERM_ROWS - 1})}) \in 0 .. TERM_ROWS - 1
<1> DEFINE m == Min({r, TERM_ROWS - 1})
<1>1. TERM_ROWS - 1 \in Int /\ TERM_ROWS - 1 >= 0
  BY GridAssumption
<1>2. m \in Int /\ m <= TERM_ROWS - 1
  BY <1>1, MinOfTwo
<1> HIDE DEF m
<1>3. Max({0, m}) = IF 0 >= m THEN 0 ELSE m
  BY <1>2, MaxOfTwo
<1>4. Max({0, m}) \in 0 .. TERM_ROWS - 1
  BY <1>1, <1>2, <1>3
<1> QED BY <1>4 DEF m

LEMMA ColInside ==
  ASSUME NEW c \in Int
  PROVE  ToCol(c) \in 0 .. TERM_COLS
<1> DEFINE m == Min({c, TERM_COLS - 1})
<1>1. TERM_COLS - 1 \in Int /\ TERM_COLS - 1 >= 0
  BY GridAssumption
<1>2. m \in Int /\ m <= TERM_COLS - 1
  BY <1>1, MinOfTwo
<1> HIDE DEF m
<1>3. Max({0, m}) = IF 0 >= m THEN 0 ELSE m
  BY <1>2, MaxOfTwo
<1>4. Max({0, m}) \in 0 .. TERM_COLS
  BY <1>1, <1>2, <1>3, GridAssumption
<1> QED BY <1>4 DEF m, ToCol

(* A parameter is a number, whatever was between '[' and the command.      *)
LEMMA ParamType ==
  ASSUME NEW s, NEW i
  PROVE  Param(parse_params(s), i) \in Nat
<1>1. CASE s = <<>>
  BY <1>1 DEF Param, parse_params
<1>2. CASE s # <<>>
  BY <1>2 DEF Param, parse_params
<1> QED BY <1>1, <1>2

LEMMA CountType ==
  ASSUME NEW s, NEW i
  PROVE  Count(parse_params(s), i) \in Nat \ {0}
<1>1. Param(parse_params(s), i) \in Nat
  BY ParamType
<1> QED BY <1>1, MaxOfTwo DEF Count
-------------------------------------------------------------------------------
(* A terminal stays well-formed, operation by operation.                   *)

LEMMA FieldsOfTerminal ==
  DOMAIN AnsiTerminalNew = {"cells", "row", "col", "saved_row", "saved_col", "fg", "bg",
                            "bold", "state", "params", "dirty"}
BY DEF AnsiTerminalNew

LEMMA NewTerminal == TerminalOk(AnsiTerminalNew)
BY GridAssumption DEF TerminalOk, AnsiTerminalNew, Rows

LEMMA PaintedOk ==
  ASSUME NEW t, TerminalOk(t), NEW cells
  PROVE  /\ TerminalOk(Painted(t, cells))
         /\ Painted(t, cells).row = t.row
         /\ Painted(t, cells).col = t.col
BY FieldsOfTerminal DEF TerminalOk, Painted

LEMMA DirtyOk ==
  ASSUME NEW t, TerminalOk(t)
  PROVE  TerminalOk([t EXCEPT !.dirty = TRUE])
BY FieldsOfTerminal DEF TerminalOk

LEMMA RowOk ==
  ASSUME NEW t, TerminalOk(t), NEW r \in Rows
  PROVE  /\ TerminalOk([t EXCEPT !.row = r])
         /\ TerminalOk([t EXCEPT !.row = r, !.dirty = TRUE])
         /\ [t EXCEPT !.row = r].col = t.col
BY FieldsOfTerminal DEF TerminalOk

LEMMA ColOk ==
  ASSUME NEW t, TerminalOk(t), NEW c \in 0 .. TERM_COLS
  PROVE  /\ TerminalOk([t EXCEPT !.col = c])
         /\ TerminalOk([t EXCEPT !.col = c, !.dirty = TRUE])
         /\ [t EXCEPT !.col = c].col = c
BY FieldsOfTerminal DEF TerminalOk

LEMMA WithPenOk ==
  ASSUME NEW t, TerminalOk(t), NEW pen
  PROVE  TerminalOk(WithPen(t, pen))
BY FieldsOfTerminal DEF TerminalOk, WithPen

LEMMA StateOk ==
  ASSUME NEW t, TerminalOk(t), NEW s \in {"Normal", "Esc", "Csi", "OscOrOther"}
  PROVE  TerminalOk([t EXCEPT !.state = s])
BY FieldsOfTerminal DEF TerminalOk

LEMMA ParamsOk ==
  ASSUME NEW t, TerminalOk(t), NEW ps
  PROVE  /\ TerminalOk([t EXCEPT !.params = ps])
         /\ TerminalOk([t EXCEPT !.state = "Csi", !.params = ps])
BY FieldsOfTerminal DEF TerminalOk

LEMMA IndexOk ==
  ASSUME NEW t, TerminalOk(t)
  PROVE  TerminalOk(Index(t)) /\ Index(t).col = t.col
<1>1. CASE t.row + 1 < TERM_ROWS
  <2>1. t.row + 1 \in Rows
    BY <1>1, GridAssumption DEF TerminalOk, Rows
  <2>2. Index(t) = [t EXCEPT !.row = t.row + 1]
    BY <1>1 DEF Index
  <2> QED BY <2>1, <2>2, RowOk
<1>2. CASE ~(t.row + 1 < TERM_ROWS)
  <2> DEFINE u == scroll_up(t, 1)
  <2>1. TerminalOk(u) /\ u.col = t.col
    BY PaintedOk DEF scroll_up
  <2>2. TERM_ROWS - 1 \in Rows
    BY GridAssumption DEF Rows
  <2>3. Index(t) = [u EXCEPT !.row = TERM_ROWS - 1]
    BY <1>2 DEF Index
  <2> HIDE DEF u
  <2> QED BY <2>1, <2>2, <2>3, RowOk
<1> QED BY <1>1, <1>2

(* A character goes to a cell of the grid: the line wraps first.           *)
LEMMA PutCharOk ==
  ASSUME NEW t, TerminalOk(t), NEW ch
  PROVE  TerminalOk(put_char(t, ch))
<1> DEFINE w == IF t.col < TERM_COLS THEN t ELSE Index([t EXCEPT !.col = 0])
<1>1. TerminalOk(w) /\ w.col < TERM_COLS
  <2>1. CASE t.col < TERM_COLS
    BY <2>1
  <2>2. CASE ~(t.col < TERM_COLS)
    <3>1. 0 \in 0 .. TERM_COLS /\ 0 < TERM_COLS
      BY GridAssumption
    <3>2. TerminalOk([t EXCEPT !.col = 0]) /\ [t EXCEPT !.col = 0].col = 0
      BY <3>1, ColOk
    <3> QED BY <2>2, <3>1, <3>2, IndexOk
  <2> QED BY <2>1, <2>2
<1>2. put_char(t, ch) = [w EXCEPT !.cells[w.row][w.col] = [ch |-> ch, fg |-> w.fg, bg |-> w.bg],
                                  !.col = @ + 1, !.dirty = TRUE]
  BY DEF put_char
<1> HIDE DEF w
<1>3. w.col + 1 \in 0 .. TERM_COLS
  BY <1>1, GridAssumption DEF TerminalOk
<1> QED BY <1>1, <1>2, <1>3, FieldsOfTerminal DEF TerminalOk

LEMMA TabbedOk ==
  ASSUME NEW t, TerminalOk(t), NEW tab \in 0 .. TERM_COLS
  PROVE  TerminalOk(Tabbed(t, tab))
BY PaintedOk, ColOk DEF Tabbed

LEMMA SaveOk ==
  ASSUME NEW t, TerminalOk(t)
  PROVE  TerminalOk(save(t)) /\ TerminalOk(restore(t))
BY FieldsOfTerminal DEF TerminalOk, save, restore

LEMMA MovedOk ==
  ASSUME NEW t, TerminalOk(t), NEW r \in Int, NEW c \in 0 .. TERM_COLS
  PROVE  TerminalOk(Moved(t, r, c))
<1>1. Max({0, Min({r, TERM_ROWS - 1})}) \in Rows
  BY RowInside DEF Rows
<1> DEFINE row == Max({0, Min({r, TERM_ROWS - 1})})
<1>2. Moved(t, r, c) = [t EXCEPT !.row = row, !.col = c, !.dirty = TRUE]
  BY DEF Moved
<1> HIDE DEF row
<1> QED BY <1>1, <1>2, FieldsOfTerminal DEF TerminalOk, row
LEMMA PaintedAnyOk ==
  ASSUME NEW t, TerminalOk(t)
  PROVE  /\ \A cells : TerminalOk(Painted(t, cells))
         /\ \A line : TerminalOk(Edited(t, line))
         /\ \A n : TerminalOk(scroll_up(t, n))
         /\ \A ps : TerminalOk(sgr(t, ps))
         /\ TerminalOk(sgr_reset(t))
<1>1. \A cells : TerminalOk(Painted(t, cells))
  BY PaintedOk
<1>2. \A pen : TerminalOk(WithPen(t, pen))
  BY WithPenOk
<1>3. \A line : TerminalOk(Edited(t, line))
  BY <1>1 DEF Edited
<1>4. \A n : TerminalOk(scroll_up(t, n))
  BY <1>1 DEF scroll_up
<1>5. TerminalOk(sgr_reset(t))
  BY <1>2 DEF sgr_reset
<1>6. ASSUME NEW ps PROVE TerminalOk(sgr(t, ps))
  BY <1>2 DEF sgr
<1> QED BY <1>1, <1>3, <1>4, <1>5, <1>6

(* Every CSI command leaves the cursor in the grid, for any parameters.    *)
LEMMA HandleCsiOk ==
  ASSUME NEW t, TerminalOk(t), NEW cmd
  PROVE  TerminalOk(handle_csi(t, cmd))
<1> DEFINE ps == parse_params(t.params)
           n  == Count(ps, 1)
           m  == Count(ps, 2)
<1>1. n \in Nat \ {0} /\ m \in Nat \ {0}
  BY CountType
<1>2. t.row \in Int /\ t.col \in Int /\ t.col \in 0 .. TERM_COLS
  BY GridAssumption DEF TerminalOk, Rows
<1>3. \A r \in Int, c \in 0 .. TERM_COLS : TerminalOk(Moved(t, r, c))
  BY MovedOk
<1>4. \A c \in Int : ToCol(c) \in 0 .. TERM_COLS
  BY ColInside
<1>5. Max({0, t.col - n}) \in 0 .. TERM_COLS
  <2>1. t.col - n \in Int /\ t.col - n <= TERM_COLS
    BY <1>1, <1>2, GridAssumption
  <2> QED BY <2>1, MaxOfTwo, GridAssumption
<1>6. TerminalOk([restore(t) EXCEPT !.dirty = TRUE])
  BY SaveOk, DirtyOk
<1> USE DEF handle_csi
<1> HIDE DEF ps, n, m
<1>7. cmd \in {"A", "B", "C", "D", "H", "f", "G", "d"} => TerminalOk(handle_csi(t, cmd))
  <2>1. CASE cmd = "A"
    <3>1. handle_csi(t, cmd) = Moved(t, t.row - n, t.col)
      BY <2>1 DEF n, ps
    <3> QED BY <3>1, <1>1, <1>2, <1>3, SMTT(30)
  <2>2. CASE cmd = "B"
    <3>1. handle_csi(t, cmd) = Moved(t, t.row + n, t.col)
      BY <2>2 DEF n, ps
    <3>2. t.row + n \in Int
      BY <1>1, <1>2
    <3> QED BY <3>1, <3>2, <1>2, MovedOk
  <2>3. CASE cmd = "C"
    <3>1. handle_csi(t, cmd) = Moved(t, t.row, ToCol(t.col + n))
      BY <2>3 DEF n, ps
    <3> QED BY <3>1, <1>1, <1>2, <1>3, <1>4
  <2>4. CASE cmd = "D"
    <3>1. handle_csi(t, cmd) = Moved(t, t.row, Max({0, t.col - n}))
      BY <2>4 DEF n, ps
    <3> QED BY <3>1, <1>2, <1>3, <1>5
  <2>5. CASE cmd \in {"H", "f"}
    <3>1. handle_csi(t, cmd) = Moved(t, n - 1, ToCol(m - 1))
      BY <2>5 DEF n, m, ps
    <3>2. n - 1 \in Int /\ m - 1 \in Int
      BY <1>1
    <3>3. ToCol(m - 1) \in 0 .. TERM_COLS
      BY <3>2, <1>4
    <3> QED BY <3>1, <3>2, <3>3, MovedOk
  <2>6. CASE cmd = "G"
    <3>1. handle_csi(t, cmd) = Moved(t, t.row, ToCol(n - 1))
      BY <2>6 DEF n, ps
    <3> QED BY <3>1, <1>1, <1>2, <1>3, <1>4
  <2>7. CASE cmd = "d"
    <3>1. handle_csi(t, cmd) = Moved(t, n - 1, t.col)
      BY <2>7 DEF n, ps
    <3>2. n - 1 \in Int
      BY <1>1
    <3> QED BY <3>1, <3>2, <1>2, MovedOk
  <2> QED BY <2>1, <2>2, <2>3, <2>4, <2>5, <2>6, <2>7
<1>8. cmd \in {"J", "K", "X", "P", "@", "S", "T", "L", "M", "m"}
        => TerminalOk(handle_csi(t, cmd))
  <2>1. cmd \in {"J", "K", "T", "L", "M"} => \E cells : handle_csi(t, cmd) = Painted(t, cells)
    OBVIOUS
  <2>2. cmd \in {"X", "P", "@"} => \E line : handle_csi(t, cmd) = Edited(t, line)
    OBVIOUS
  <2>3. cmd = "S" => handle_csi(t, cmd) = scroll_up(t, n)
    BY DEF n, ps
  <2>4. cmd = "m" => handle_csi(t, cmd) \in {sgr_reset(t), sgr(t, ps)}
    BY DEF ps
  <2> QED BY <2>1, <2>2, <2>3, <2>4, PaintedAnyOk
<1>9. CASE cmd \notin {"A", "B", "C", "D", "H", "f", "G", "d",
                       "J", "K", "X", "P", "@", "S", "T", "L", "M", "m"}
  <2>1. handle_csi(t, cmd) \in {save(t), [restore(t) EXCEPT !.dirty = TRUE], t}
    BY <1>9
  <2> QED BY <2>1, <1>6, SaveOk
<1> QED BY <1>7, <1>8, <1>9
LEMMA NormalOk ==
  ASSUME NEW t, TerminalOk(t), NEW b
  PROVE  TerminalOk(normal(t, b))
<1> DEFINE tab == Min({8 * ((t.col + 8) \div 8), TERM_COLS})
<1>1. t.col \in Nat /\ TERM_COLS \in Nat
  BY GridAssumption DEF TerminalOk
<1>2. tab \in 0 .. TERM_COLS \/ ~(t.col < tab)
  <2>1. 8 * ((t.col + 8) \div 8) \in Int
    BY <1>1
  <2>2. tab \in Int /\ tab <= TERM_COLS
    BY <2>1, <1>1, MinOfTwo
  <2> HIDE DEF tab
  <2> QED BY <2>2, <1>1
<1>3. Max({0, t.col - 1}) \in 0 .. TERM_COLS
  <2>1. t.col - 1 \in Int /\ t.col - 1 <= TERM_COLS
    BY <1>1, GridAssumption DEF TerminalOk
  <2> QED BY <2>1, <1>1, MaxOfTwo
<1>4. t.col < tab => TerminalOk(Tabbed(t, tab))
  <2> HIDE DEF tab
  <2> QED BY <1>2, TabbedOk
<1>5. b = "LF" => TerminalOk(normal(t, b))
  BY IndexOk, DirtyOk DEF normal
<1>6. b = "CR" => TerminalOk(normal(t, b))
  <2>1. b = "CR" => normal(t, b) = [t EXCEPT !.col = 0, !.dirty = TRUE]
    BY DEF normal
  <2>2. 0 \in 0 .. TERM_COLS
    BY <1>1
  <2> QED BY <2>1, <2>2, ColOk, ZenonT(30)
<1>7. b = "BS" => TerminalOk(normal(t, b))
  <2>1. b = "BS" => normal(t, b) = [t EXCEPT !.col = Max({0, t.col - 1}), !.dirty = TRUE]
    BY DEF normal
  <2> QED BY <2>1, <1>3, ColOk, ZenonT(30)
<1>8. b = "TAB" => TerminalOk(normal(t, b))
  <2>1. b = "TAB" => normal(t, b) = IF t.col < tab THEN Tabbed(t, tab) ELSE t
    BY DEF normal
  <2> QED BY <2>1, <1>4
<1>9. CASE b \notin {"LF", "CR", "BS", "TAB"}
  <2>1. normal(t, b) \in {[t EXCEPT !.state = "Esc"], t, put_char(t, b)}
    BY <1>9 DEF normal
  <2> QED BY <2>1, PutCharOk, StateOk
<1> QED BY <1>5, <1>6, <1>7, <1>8, <1>9

LEMMA EscOk ==
  ASSUME NEW t, TerminalOk(t), NEW b
  PROVE  TerminalOk(esc(t, b))
<1> DEFINE n == [t EXCEPT !.state = "Normal"]
<1>1. TerminalOk(n)
  BY StateOk
<1>2. b = "[" => TerminalOk(esc(t, b))
  BY ParamsOk DEF esc
<1>3. b \in {"]", "(", ")", "#"} => TerminalOk(esc(t, b))
  BY StateOk DEF esc
<1> HIDE DEF n
<1>4. b \in {"7", "8"} => TerminalOk(esc(t, b))
  <2>1. b \in {"7", "8"} => esc(t, b) \in {save(n), restore(n)}
    BY DEF esc, n
  <2> QED BY <2>1, <1>1, SaveOk
<1>5. b = "c" => TerminalOk(esc(t, b))
  <2> DEFINE u == sgr_reset(clear_all(n))
  <2>1. TerminalOk(u)
    BY <1>1, PaintedAnyOk DEF clear_all
  <2>2. b = "c" => esc(t, b) = [u EXCEPT !.row = 0, !.col = 0]
    BY DEF esc, n
  <2> HIDE DEF u
  <2>3. 0 \in Rows /\ 0 \in 0 .. TERM_COLS
    BY GridAssumption DEF Rows
  <2> QED BY <2>1, <2>2, <2>3, FieldsOfTerminal DEF TerminalOk
<1>6. b = "D" => TerminalOk(esc(t, b))
  BY <1>1, IndexOk DEF esc, n
<1>7. b = "M" => TerminalOk(esc(t, b))
  <2>1. CASE n.row = 0
    <3>1. b = "M" => esc(t, b) = Painted(n, RowsDown(n.cells, 0, 1))
      BY <2>1 DEF esc, n
    <3> QED BY <3>1, <1>1, PaintedOk
  <2>2. CASE n.row # 0
    <3>1. b = "M" => esc(t, b) = [n EXCEPT !.row = n.row - 1, !.dirty = TRUE]
      BY <2>2 DEF esc, n
    <3>2. n.row - 1 \in Rows
      BY <2>2, <1>1, GridAssumption DEF TerminalOk, Rows
    <3> QED BY <3>1, <3>2, <1>1, RowOk
  <2> QED BY <2>1, <2>2
<1>8. CASE b \notin {"[", "]", "(", ")", "#", "7", "8", "c", "D", "M"}
  <2>1. esc(t, b) = n
    BY <1>8 DEF esc, n
  <2> QED BY <2>1, <1>1
<1> QED BY <1>2, <1>3, <1>4, <1>5, <1>6, <1>7, <1>8

(* One byte, in whatever state the parser is.                              *)
LEMMA FeedByteOk ==
  ASSUME NEW t, TerminalOk(t), NEW b
  PROVE  TerminalOk(feed_byte(t, b))
<1>1. TerminalOk(csi(t, b))
  BY ParamsOk, HandleCsiOk, StateOk DEF csi
<1>2. TerminalOk(osc(t, b))
  BY StateOk DEF osc
<1>3. t.state \in {"Normal", "Esc", "Csi", "OscOrOther"}
  BY DEF TerminalOk
<1> QED BY <1>1, <1>2, <1>3, NormalOk, EscOk DEF feed_byte
(* A terminal that is fed data, byte by byte.                              *)
Feeding(t, data, n, g) ==
  g = [i \in 0 .. n |-> IF i = 0 THEN t ELSE feed_byte(g[i - 1], data[i])]

LEMMA FeedingExists ==
  ASSUME NEW t, NEW data
  PROVE  \A n \in Nat : \E g : Feeding(t, data, n, g)
<1> DEFINE S == {n \in Nat : \E g : Feeding(t, data, n, g)}
<1>1. 0 \in S
  <2>1. Feeding(t, data, 0, [i \in 0 .. 0 |-> t])
    BY DEF Feeding
  <2> QED BY <2>1
<1>2. ASSUME NEW n \in Nat, n \in S
      PROVE  n + 1 \in S
  <2>1. PICK g : Feeding(t, data, n, g)
    BY <1>2
  <2> DEFINE h == [i \in 0 .. n + 1 |-> IF i <= n THEN g[i] ELSE feed_byte(g[n], data[n + 1])]
  <2>2. ASSUME NEW i \in 0 .. n + 1
        PROVE  h[i] = IF i = 0 THEN t ELSE feed_byte(h[i - 1], data[i])
    <3>1. CASE i = n + 1
      BY <3>1
    <3>2. CASE i <= n
      BY <3>2, <2>1 DEF Feeding
    <3> QED BY <3>1, <3>2
  <2>3. Feeding(t, data, n + 1, h)
    BY <2>2 DEF Feeding
  <2> QED BY <2>3
<1> HIDE DEF S
<1>3. Nat \subseteq S
  BY <1>1, <1>2, NatSetInduction
<1> QED BY <1>3 DEF S

(* Whatever is fed to a terminal leaves its cursor in the grid.            *)
LEMMA FeedOk ==
  ASSUME NEW t, TerminalOk(t), NEW data, Len(data) \in Nat
  PROVE  TerminalOk(feed(t, data))
<1> DEFINE fed == CHOOSE g : g = [i \in 0 .. Len(data) |->
                                    IF i = 0 THEN t ELSE feed_byte(g[i - 1], data[i])]
<1>1. feed(t, data) = fed[Len(data)]
  BY DEF feed
<1>2. Feeding(t, data, Len(data), fed)
  <2>1. \E g : Feeding(t, data, Len(data), g)
    BY FeedingExists
  <2> QED BY <2>1 DEF Feeding
<1> HIDE DEF fed
<1> DEFINE S == {n \in Nat : n <= Len(data) => TerminalOk(fed[n])}
<1>3. 0 \in S
  BY <1>2 DEF Feeding
<1>4. ASSUME NEW n \in Nat, n \in S
      PROVE  n + 1 \in S
  <2>1. CASE n + 1 <= Len(data)
    <3>1. fed[n + 1] = feed_byte(fed[n], data[n + 1])
      BY <1>2, <2>1 DEF Feeding
    <3>2. TerminalOk(fed[n])
      BY <1>4, <2>1
    <3> QED BY <3>1, <3>2, FeedByteOk
  <2> QED BY <2>1
<1> HIDE DEF S
<1>5. Nat \subseteq S
  BY <1>3, <1>4, NatSetInduction
<1>6. TerminalOk(fed[Len(data)])
  BY <1>5 DEF S
<1> QED BY <1>1, <1>6
-------------------------------------------------------------------------------
(* The invariant.                                                          *)

LEMMA InitInv == Init => DisplayInv
<1> SUFFICES ASSUME Init PROVE DisplayInv
  OBVIOUS
<1> USE DEF Init
<1>1. TypeOK
  BY InputAssumption DEF TypeOK, MainBoot, ButtonBoot, MessageBoot
<1>2. TerminalsOk
  BY NewTerminal DEF TerminalsOk, TermBoot
<1>3. ButtonInv
  BY DEF ButtonInv, ButtonBoot
<1>4. MessageInv
  BY DEF MessageInv, OfMain, MainBoot, ButtonBoot, MessageBoot
<1> QED BY <1>1, <1>2, <1>3, <1>4 DEF DisplayInv

(* The terminals change by what is fed to them and by being drawn.         *)
LEMMA TerminalsStep ==
  ASSUME TerminalsOk, [Next]_vars
  PROVE  TerminalsOk'
<1>1. CASE UNCHANGED term
  BY <1>1 DEF TerminalsOk
<1>2. ASSUME NEW p \in Terminals, NEW data \in Chunks, push_data(p, data)
      PROVE  TerminalsOk'
  <2>1. term' = [term EXCEPT ![p] = feed(term[p], data)]
    BY <1>2 DEF push_data
  <2>2. Len(data) \in Nat
    BY InputAssumption, LenProperties
  <2>3. TerminalOk(feed(term[p], data))
    BY <2>2, FeedOk DEF TerminalsOk
  <2> QED BY <2>1, <2>3 DEF TerminalsOk
<1>3. ASSUME factory_reset
      PROVE  TerminalsOk'
  BY <1>3, NewTerminal DEF TerminalsOk, factory_reset, TermBoot
<1>4. ASSUME draw_terminal_page
      PROVE  TerminalsOk'
  <2>1. term' = [term EXCEPT ![d.last_page].dirty = FALSE] /\ d.last_page \in Terminals
    BY <1>4 DEF draw_terminal_page
  <2>2. \A p \in Terminals : TerminalOk([term[p] EXCEPT !.dirty = FALSE])
    BY FieldsOfTerminal DEF TerminalsOk, TerminalOk
  <2> QED BY <2>1, <2>2 DEF TerminalsOk
<1>5. ASSUME Main \/ Press \/ Release \/ Second
             \/ (\E p \in Terminals : set_display_port(p))
             \/ (\E i \in Pins, on \in BOOLEAN : set_gpio(i, on))
      PROVE  UNCHANGED term
  BY <1>5 DEF Main, ByMain, ByButton, main_port, wifi_connect, main_wps, main_serve,
    set_display_aux, wps_start, wps_enable, wps_countdown, wps_failed, wps_success,
    wps_connected, wps_given_up, wps_settled, wps_over, Press, Release, Second,
    set_display_port, set_gpio
<1>6. ASSUME button_pressed \/ button_held \/ button_released \/ button_cleared
             \/ toggle_get \/ toggle_set \/ next_page \/ button_resets
             \/ look_page \/ draw_system_message \/ draw_info_page
      PROVE  UNCHANGED term
  BY <1>6 DEF ByButton, button_pressed, button_held, button_released, button_cleared,
    toggle_get, toggle_set, next_page, button_resets, look_page, draw_system_message,
    draw_info_page
<1> QED BY <1>1, <1>2, <1>3, <1>4, <1>5, <1>6 DEF Next, Button, DisplayTask, vars
LEMMA MainType ==
  ASSUME TypeOK
  PROVE  /\ main.pc \in {"port", "wifi", "serve", "aux", "loop"} \cup WpsTask
         /\ main = [pc |-> main.pc, tens |-> main.tens, left |-> main.left]
BY DEF TypeOK

(* The steps of main and WPS.                                              *)
LEMMA MainStep ==
  ASSUME DisplayInv, Main
  PROVE  TypeOK' /\ ButtonInv' /\ MessageInv'
<1> USE DEF DisplayInv, ByMain, MainAt, Left, ShowSys
<1>1. btn' = btn
  BY DEF Main, main_port, wifi_connect, main_wps, main_serve, set_display_aux, wps_start,
    wps_enable, wps_countdown, wps_failed, wps_success, wps_connected, wps_given_up,
    wps_settled, wps_over
<1>2. ButtonInv'
  BY <1>1 DEF ButtonInv
<1>3. SUFFICES TypeOK' /\ MessageInv'
  BY <1>2
<1> USE <1>1 DEF TypeOK, MessageInv, OfMain, WpsTask, WpsMessages
<1>4. CASE main_port \/ wifi_connect \/ main_serve \/ set_display_aux
  BY <1>4 DEF main_port, wifi_connect, main_serve, set_display_aux
<1>5. CASE main_wps
  BY <1>5 DEF main_wps
<1>6. CASE wps_start
  BY <1>6, InputAssumption DEF wps_start
<1>7. CASE wps_enable
  BY <1>7 DEF wps_enable
<1>8. CASE wps_countdown
  BY <1>8, InputAssumption DEF wps_countdown
<1>9. CASE wps_failed
  BY <1>9 DEF wps_failed
<1>10. CASE wps_success
  BY <1>10 DEF wps_success
<1>11. CASE wps_connected
  BY <1>11 DEF wps_connected
<1>12. CASE wps_given_up
  BY <1>12 DEF wps_given_up
<1>13. CASE wps_settled
  BY <1>13 DEF wps_settled
<1>14. CASE wps_over
  <2>1. /\ main.pc = "wps_over" /\ main'.pc = "serve" /\ main'.left = main.left
        /\ message'.mini = None /\ message'.sys = message.sys
        /\ DOMAIN message' = DOMAIN message
    BY <1>14 DEF wps_over
  <2>2. main' = [main EXCEPT !.pc = "serve", !.tens = 0] /\ 0 \in 0 .. WPS_TENS
    BY <1>14, InputAssumption DEF wps_over
  <2>3. TypeOK'
    BY <2>1, <2>2
  <2>4. MessageInv'
    BY <2>1
  <2> QED BY <2>3, <2>4
<1> QED BY <1>4, <1>5, <1>6, <1>7, <1>8, <1>9, <1>10, <1>11, <1>12, <1>13, <1>14 DEF Main
(* The steps of the button: it puts its messages over those of main, and   *)
(* forgets a message that it has shown only when it clears it.             *)
LEMMA ButtonStep ==
  ASSUME DisplayInv, Button \/ Press \/ Release \/ Second
  PROVE  TypeOK' /\ ButtonInv' /\ MessageInv'
<1> USE DEF DisplayInv, ByButton, ShowSys, TypeOK, ButtonInv
<1>1. ASSUME main' = main
      PROVE  OfMain' = OfMain
  BY <1>1 DEF OfMain
<1> USE DEF MessageInv
<1>2. CASE Press \/ Release
  <2>1. /\ main' = main /\ message' = message /\ OfMain' = OfMain
        /\ \E pin \in {"up", "down"} : btn' = [btn EXCEPT !.pin = pin]
    BY <1>2, <1>1 DEF Press, Release
  <2>2. /\ DOMAIN btn' = DOMAIN btn /\ btn'.pin \in {"up", "down"} /\ btn'.last = btn.last
        /\ btn'.pc = btn.pc /\ btn'.sys = btn.sys /\ btn'.mini = btn.mini
    BY <2>1
  <2> QED BY <2>1, <2>2
<1>3. CASE Second
  BY <1>3, <1>1 DEF Second
<1>4. CASE button_pressed
  BY <1>4, <1>1 DEF button_pressed
<1>5. CASE button_held
  <2>1. main' = main /\ OfMain' = OfMain
    BY <1>5, <1>1 DEF button_held
  <2>2. PICK edge \in {FALSE, btn.begun} :
          LET left  == Remaining(btn.k)
              sys   == btn.k >= SYS_MESSAGE /\ left > 0 /\ (edge \/ ~btn.sys)
              small == btn.k >= MINI_MESSAGE /\ left > 0
                       /\ (~btn.mini \/ (edge /\ btn.k < FACTORY_RESET_PRESS))
          IN  /\ message' = [sys  |-> IF sys THEN ResetIn(left) ELSE message.sys,
                             mini |-> IF small THEN ResetIn(left) ELSE message.mini]
              /\ btn' = [btn EXCEPT
                   !.sys = @ \/ sys, !.mini = @ \/ small, !.begun = @ /\ ~edge,
                   !.pc = IF btn.k >= FACTORY_RESET_PRESS THEN "reset"
                          ELSE IF btn.k >= DCOUT_PRESS /\ ~btn.dcout THEN "toggle" ELSE "poll"]
    BY <1>5 DEF button_held
  <2> DEFINE left  == Remaining(btn.k)
             sys   == btn.k >= SYS_MESSAGE /\ left > 0 /\ (edge \/ ~btn.sys)
             small == btn.k >= MINI_MESSAGE /\ left > 0
                      /\ (~btn.mini \/ (edge /\ btn.k < FACTORY_RESET_PRESS))
  <2>3. /\ message' = [sys  |-> IF sys THEN ResetIn(left) ELSE message.sys,
                       mini |-> IF small THEN ResetIn(left) ELSE message.mini]
        /\ btn'.sys = (btn.sys \/ sys) /\ btn'.mini = (btn.mini \/ small)
        /\ btn'.pc \in {"reset", "toggle", "poll"}
        /\ btn'.pin = btn.pin /\ btn'.last = btn.last /\ DOMAIN btn' = DOMAIN btn
    BY <2>2 DEF ButtonBoot
  <2>4. btn.pc = "poll" /\ btn.last = "down"
    BY <1>5 DEF button_held
  <2> HIDE DEF left, sys, small
  <2>5. TypeOK'
    BY <2>1, <2>3
  <2>6. ButtonInv'
    BY <2>3, <2>4
  <2>7. MessageInv'
    BY <2>1, <2>3, <2>4
  <2> QED BY <2>5, <2>6, <2>7
<1>6. CASE toggle_get
  BY <1>6, <1>1 DEF toggle_get
<1>7. CASE toggle_set
  BY <1>7, <1>1 DEF toggle_set
<1>8. CASE button_resets
  BY <1>8, <1>1 DEF button_resets
<1>9. CASE factory_reset
  BY <1>9, InputAssumption DEF factory_reset, MainBoot, ButtonBoot, MessageBoot, OfMain
<1>10. CASE button_released
  BY <1>10, <1>1 DEF button_released
<1>11. CASE next_page
  BY <1>11, <1>1 DEF next_page
<1>12. CASE button_cleared
  BY <1>12, <1>1 DEF button_cleared, ButtonBoot, OfMain
<1> QED BY <1>2, <1>3, <1>4, <1>5, <1>6, <1>7, <1>8, <1>9, <1>10, <1>11, <1>12 DEF Button

LEMMA InvStep == DisplayInv /\ [Next]_vars => DisplayInv'
<1> SUFFICES ASSUME DisplayInv, [Next]_vars PROVE DisplayInv'
  OBVIOUS
<1>1. TerminalsOk'
  BY TerminalsStep DEF DisplayInv
<1>2. ASSUME UNCHANGED <<message, main, btn>>
      PROVE  TypeOK' /\ ButtonInv' /\ MessageInv'
  BY <1>2 DEF DisplayInv, TypeOK, ButtonInv, MessageInv, OfMain
<1>3. ASSUME DisplayTask
             \/ (\E p \in Terminals, data \in Chunks : push_data(p, data))
             \/ (\E p \in Terminals : set_display_port(p))
             \/ (\E i \in Pins, on \in BOOLEAN : set_gpio(i, on))
      PROVE  UNCHANGED <<message, main, btn>>
  BY <1>3 DEF DisplayTask, ByDisplay, look_page, draw_system_message, draw_info_page,
    draw_terminal_page, push_data, set_display_port, set_gpio
<1>4. TypeOK' /\ ButtonInv' /\ MessageInv'
  BY <1>2, <1>3, MainStep, ButtonStep DEF Next, vars
<1> QED BY <1>1, <1>4 DEF DisplayInv

-------------------------------------------------------------------------------
(* The theorems.                                                           *)

(* The inductive invariant: terminals, and what main and the button have   *)
(* left on the displays at each location of theirs.                        *)
THEOREM DisplayInvariant == Spec => []DisplayInv
BY InitInv, InvStep, PTL DEF Spec

(* Whatever bytes come, in whatever pieces, no cursor leaves its grid.     *)
THEOREM CursorStaysInside == Spec => []CursorInside
<1>1. DisplayInv => CursorInside
  BY DEF DisplayInv, TerminalsOk, TerminalOk, CursorInside
<1> QED BY <1>1, DisplayInvariant, PTL

(* Once the button is up and WPS is over no message stays on a display,    *)
(* but one that WPS left when it gave up.                                  *)
THEOREM MessagesGo == Spec => []MessageGone
<1>1. DisplayInv => MessageGone
  BY DEF DisplayInv, TypeOK, ButtonInv, MessageInv, OfMain, MessageGone, WpsTask
<1> QED BY <1>1, DisplayInvariant, PTL
===============================================================================
