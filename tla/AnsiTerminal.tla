------------------------------ MODULE AnsiTerminal ------------------------------
(***************************************************************************)
(* The terminal emulator of the serial display (serial_display.rs): a grid *)
(* of cells, a cursor and a parser of ANSI sequences, as operators on a    *)
(* record.  A byte is a string: a character, or the name of a control.     *)
(*                                                                         *)
(* The cursor's column may be TERM_COLS: a line that is full wraps only    *)
(* when the next character comes.                                          *)
(***************************************************************************)
EXTENDS Integers, Sequences, SequencesExt, FiniteSetsExt, TLC

CONSTANTS TERM_ROWS, TERM_COLS

ASSUME GridAssumption == TERM_ROWS \in Nat \ {0} /\ TERM_COLS \in Nat \ {0}

Rows == 0 .. TERM_ROWS - 1
Cols == 0 .. TERM_COLS - 1

Digits   == {"0", "1", "2", "3", "4", "5", "6", "7", "8", "9"}
Controls == {"NUL", "BEL", "BS", "TAB", "LF", "CR", "ESC"}
Below40  == Controls \cup Digits \cup {" ", "#", "(", ")", ";", "?"}
High     == {"0xC3", "0xA9"}

(* Red, green and blue of 5, 6 and 5 bits.                                 *)
ANSI_COLORS ==
  << <<0, 0, 0>>,    <<21, 0, 0>>,   <<0, 42, 0>>,  <<21, 42, 0>>,
     <<0, 0, 21>>,   <<21, 0, 21>>,  <<0, 42, 21>>, <<21, 42, 21>>,
     <<10, 21, 10>>, <<31, 0, 0>>,   <<0, 63, 0>>,  <<31, 63, 0>>,
     <<0, 0, 31>>,   <<31, 0, 31>>,  <<0, 63, 31>>, <<31, 63, 31>> >>

Ansi(i)    == ANSI_COLORS[i + 1]
DEFAULT_FG == Ansi(7)
DEFAULT_BG == Ansi(0)

U16Max        == 65535
U16(n)        == n % (U16Max + 1)
Rgb(r, g, b)  == <<(r % 256) % 32, (g % 256) % 64, (b % 256) % 32>>

color256_to_rgb565(n) ==
  LET cube(k, top) == (k * top + 2) \div 5
      shade        == U16((n - 232) * 10 + 8)
      ramp(top)    == U16(U16(shade * top) + 127) \div 255
  IN  CASE n < 16             -> Ansi(n)
        [] n >= 16 /\ n < 232 -> Rgb(cube(((n - 16) \div 36) % 6, 31),
                                     cube(((n - 16) \div 6) % 6, 63),
                                     cube((n - 16) % 6, 31))
        [] OTHER              -> Rgb(ramp(31), ramp(63), ramp(31))

Blank    == [ch |-> " ", fg |-> DEFAULT_FG, bg |-> DEFAULT_BG]
BlankRow == [c \in Cols |-> Blank]
NoCells  == [r \in Rows |-> BlankRow]

AnsiTerminalNew ==
  [cells |-> NoCells, row |-> 0, col |-> 0, saved_row |-> 0, saved_col |-> 0,
   fg |-> DEFAULT_FG, bg |-> DEFAULT_BG, bold |-> FALSE,
   state |-> "Normal", params |-> <<>>, dirty |-> TRUE]

Painted(t, cells) == [t EXCEPT !.cells = cells, !.dirty = TRUE]

clear_all(t) == Painted(t, NoCells)

(* The rows from top on, moved by n rows with blank ones coming in.        *)
RowsUp(cells, top, n) ==
  [r \in Rows |-> IF r < top THEN cells[r]
                  ELSE IF r + n < TERM_ROWS THEN cells[r + n] ELSE BlankRow]

RowsDown(cells, top, n) ==
  [r \in Rows |-> IF r < top THEN cells[r]
                  ELSE IF r - n >= top THEN cells[r - n] ELSE BlankRow]

Erased(cells, where) ==
  [r \in Rows |-> [c \in Cols |-> IF <<r, c>> \in where THEN Blank ELSE cells[r][c]]]

scroll_up(t, n) == Painted(t, RowsUp(t.cells, 0, n))

(* Mutant: the row after the last one is not brought back.                 *)
Index_scrolls_only(t) == IF t.row + 1 < TERM_ROWS THEN [t EXCEPT !.row = @ + 1]
                         ELSE [scroll_up(t, 1) EXCEPT !.row = TERM_ROWS]

(* One row down, scrolling at the bottom.                                  *)
Index(t) == IF t.row + 1 < TERM_ROWS THEN [t EXCEPT !.row = @ + 1]
            ELSE [scroll_up(t, 1) EXCEPT !.row = TERM_ROWS - 1]

put_char(t, ch) ==
  LET w == IF t.col < TERM_COLS THEN t ELSE Index([t EXCEPT !.col = 0])
  IN  [w EXCEPT !.cells[w.row][w.col] = [ch |-> ch, fg |-> w.fg, bg |-> w.bg],
                !.col = @ + 1, !.dirty = TRUE]

(* put_char of spaces up to a column of the same line.                     *)
Tabbed(t, tab) ==
  [Painted(t, [t.cells EXCEPT ![t.row] = [c \in Cols |->
      IF c \in t.col .. tab - 1 THEN [ch |-> " ", fg |-> t.fg, bg |-> t.bg] ELSE @[c]]])
   EXCEPT !.col = tab]

(* The parameters of a CSI sequence: '?' is dropped, an empty or too large *)
(* number is 0.                                                            *)
Value == [d \in Digits |-> CHOOSE n \in 0 .. 9 : ToString(n) = d]

Numbers(s) ==
  LET next(ps, b) == CASE b = "?" -> ps
                       [] b = ";" -> Append(ps, 0)
                       [] OTHER   -> [ps EXCEPT ![Len(ps)] =
                                        Min({10 * @ + Value[b], U16Max + 1})]
  IN  FoldLeft(next, <<0>>, s)

parse_params(s) ==
  IF s = <<>> THEN <<>>
  ELSE LET ns == Numbers(s)
       IN  [i \in DOMAIN ns |-> IF ns[i] \in 0 .. U16Max THEN ns[i] ELSE 0]

(* What characters are drawn with, and the parameters of SGR.              *)
Pen(t)          == [fg |-> t.fg, bg |-> t.bg, bold |-> t.bold]
WithPen(t, pen) == [t EXCEPT !.fg = pen.fg, !.bg = pen.bg, !.bold = pen.bold]

NormalPen    == [fg |-> DEFAULT_FG, bg |-> DEFAULT_BG, bold |-> FALSE]
sgr_reset(t) == WithPen(t, NormalPen)

sgr_one(pen, p) ==
  CASE p = 0              -> NormalPen
    [] p = 1              -> [pen EXCEPT !.bold = TRUE]
    [] p = 22             -> [pen EXCEPT !.bold = FALSE]
    [] p \in {7, 27}      -> [pen EXCEPT !.fg = pen.bg, !.bg = pen.fg]
    [] p \in 30 .. 37     -> [pen EXCEPT !.fg = Ansi(p - 30 + IF pen.bold THEN 8 ELSE 0)]
    [] p = 39             -> [pen EXCEPT !.fg = DEFAULT_FG]
    [] p \in 40 .. 47     -> [pen EXCEPT !.bg = Ansi(p - 40)]
    [] p = 49             -> [pen EXCEPT !.bg = DEFAULT_BG]
    [] p \in 90 .. 97     -> [pen EXCEPT !.fg = Ansi(p - 90 + 8)]
    [] p \in 100 .. 107   -> [pen EXCEPT !.bg = Ansi(p - 100 + 8)]
    [] OTHER              -> pen

(* 38;5;n and 48;5;n are one colour: i is the next parameter to look at.   *)
sgr(t, ps) ==
  LET Long(i) == ps[i] \in {38, 48} /\ i + 2 <= Len(ps) /\ ps[i + 1] = 5
      look(a, i) ==
        CASE i < a.i -> a
          [] i = a.i /\ Long(i) ->
               [i |-> i + 3, pen |-> [a.pen EXCEPT ![IF ps[i] = 38 THEN "fg" ELSE "bg"] =
                                        color256_to_rgb565(ps[i + 2])]]
          [] OTHER -> [i |-> i + 1, pen |-> sgr_one(a.pen, ps[i])]
  IN  WithPen(t, FoldLeftDomain(look, [i |-> 1, pen |-> Pen(t)], ps).pen)

save(t)    == [t EXCEPT !.saved_row = t.row, !.saved_col = t.col]
restore(t) == [t EXCEPT !.row = t.saved_row, !.col = t.saved_col]

(* What J and K erase, by their parameter.                                 *)
InDisplay(t, p) ==
  {x \in Rows \X Cols :
     CASE p = 0        -> x[1] > t.row \/ (x[1] = t.row /\ x[2] >= t.col)
       [] p = 1        -> x[1] < t.row \/ (x[1] = t.row /\ x[2] <= t.col)
       [] p \in {2, 3} -> TRUE
       [] OTHER        -> FALSE}

InLine(t, p) ==
  {x \in {t.row} \X Cols : CASE p = 0   -> x[2] >= t.col
                             [] p = 1   -> x[2] <= t.col
                             [] p = 2   -> TRUE
                             [] OTHER   -> FALSE}

(* A parameter that is missing is 0, and a count of 0 is one.              *)
Param(ps, i) == IF i \in DOMAIN ps THEN ps[i] ELSE 0
Count(ps, i) == Max({Param(ps, i), 1})

ToCol(c) == Max({0, Min({c, TERM_COLS - 1})})

Moved(t, row, col) ==
  [t EXCEPT !.row = Max({0, Min({row, TERM_ROWS - 1})}), !.col = col, !.dirty = TRUE]

(* The line from the cursor on is taken from another one.                  *)
Edited(t, line) ==
  Painted(t, [t.cells EXCEPT ![t.row] = [c \in Cols |-> IF c < t.col THEN @[c] ELSE line[c]]])

handle_csi(t, cmd) ==
  LET ps   == parse_params(t.params)
      n    == Count(ps, 1)
      line == t.cells[t.row]
  IN  CASE cmd = "A" -> Moved(t, t.row - n, t.col)
        [] cmd = "B" -> Moved(t, t.row + n, t.col)
        [] cmd = "C" -> Moved(t, t.row, ToCol(t.col + n))
        [] cmd = "D" -> Moved(t, t.row, Max({0, t.col - n}))
        [] cmd \in {"H", "f"} -> Moved(t, n - 1, ToCol(Count(ps, 2) - 1))
        [] cmd = "G" -> Moved(t, t.row, ToCol(n - 1))
        [] cmd = "d" -> Moved(t, n - 1, t.col)
        [] cmd = "J" -> Painted(t, Erased(t.cells, InDisplay(t, Param(ps, 1))))
        [] cmd = "K" -> Painted(t, Erased(t.cells, InLine(t, Param(ps, 1))))
        [] cmd = "X" -> Edited(t, [c \in Cols |-> IF c < t.col + n THEN Blank ELSE line[c]])
        [] cmd = "P" -> Edited(t, [c \in Cols |-> IF c + n < TERM_COLS THEN line[c + n] ELSE Blank])
        [] cmd = "@" -> Edited(t, [c \in Cols |-> IF c - n >= t.col THEN line[c - n] ELSE Blank])
        [] cmd = "S" -> scroll_up(t, n)
        [] cmd = "T" -> Painted(t, RowsDown(t.cells, 0, n))
        [] cmd = "L" -> Painted(t, RowsDown(t.cells, t.row, n))
        [] cmd = "M" -> Painted(t, RowsUp(t.cells, t.row, n))
        [] cmd = "m" -> IF ps = <<>> THEN sgr_reset(t) ELSE sgr(t, ps)
        [] cmd = "s" -> save(t)
        [] cmd = "u" -> [restore(t) EXCEPT !.dirty = TRUE]
        [] OTHER     -> t

(* A byte in the state that a byte before it left the parser in.           *)
normal(t, b) ==
  LET tab == Min({8 * ((t.col + 8) \div 8), TERM_COLS})
  IN  CASE b = "ESC" -> [t EXCEPT !.state = "Esc"]
        [] b = "LF"  -> [Index(t) EXCEPT !.dirty = TRUE]
        [] b = "CR"  -> [t EXCEPT !.col = 0, !.dirty = TRUE]
        [] b = "BS"  -> [t EXCEPT !.col = Max({0, @ - 1}), !.dirty = TRUE]
        [] b = "TAB" -> IF t.col < tab THEN Tabbed(t, tab) ELSE t
        [] b \in Controls \ {"ESC", "LF", "CR", "BS", "TAB"} -> t
        [] OTHER     -> put_char(t, b)

esc(t, b) ==
  LET n == [t EXCEPT !.state = "Normal"]
  IN  CASE b = "[" -> [t EXCEPT !.state = "Csi", !.params = <<>>]
        [] b \in {"]", "(", ")", "#"} -> [t EXCEPT !.state = "OscOrOther"]
        [] b = "7" -> save(n)
        [] b = "8" -> restore(n)
        [] b = "c" -> [sgr_reset(clear_all(n)) EXCEPT !.row = 0, !.col = 0]
        [] b = "D" -> Index(n)
        [] b = "M" -> IF n.row = 0 THEN Painted(n, RowsDown(n.cells, 0, 1))
                      ELSE [n EXCEPT !.row = @ - 1, !.dirty = TRUE]
        [] OTHER   -> n

csi(t, b) ==
  IF b \in Digits \cup {";", "?"} THEN [t EXCEPT !.params = Append(@, b)]
  ELSE [handle_csi(t, b) EXCEPT !.state = "Normal"]

(* Any letter ends an OSC sequence, not only BEL and ST.                   *)
osc(t, b) == IF b = "BEL" \/ b \notin Below40 \cup High \cup {"["}
             THEN [t EXCEPT !.state = "Normal"] ELSE t

feed_byte(t, b) == CASE t.state = "Normal"     -> normal(t, b)
                     [] t.state = "Esc"        -> esc(t, b)
                     [] t.state = "Csi"        -> csi(t, b)
                     [] t.state = "OscOrOther" -> osc(t, b)

feed(t, data) ==
  LET fed[i \in 0 .. Len(data)] == IF i = 0 THEN t ELSE feed_byte(fed[i - 1], data[i])
  IN  fed[Len(data)]
===============================================================================
