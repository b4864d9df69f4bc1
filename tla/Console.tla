------------------------------- MODULE Console -------------------------------
(***************************************************************************)
(* The text console: the cursor and the scrolling of putchar in            *)
(* kernel/src/libc/stdio/printf.c, and the drawing of graphics/fb.c, on a  *)
(* framebuffer without padding between its rows.                           *)
(*                                                                         *)
(* The framebuffer is the set of its coloured pixels, each with the number *)
(* of the character that coloured it; a glyph colours its whole cell.  The *)
(* sizes 8, 16, 5 and 32 of the code are constants, so that a screen of a  *)
(* few cells has few pixels.  The serial copy of the text is Serial's.     *)
(***************************************************************************)
EXTENDS Integers, Sequences, SequencesExt

CONSTANTS Width, Height,           (* of the framebuffer, in pixels        *)
          CharWidth, CharHeight,   (* a cell, 8 by 16                      *)
          Margin,                  (* where a line begins, 5               *)
          TabStop                  (* 32                                   *)

(* The sizes of the code have these relations; a framebuffer is at least   *)
(* two lines high and wide enough for a tab.                               *)
ASSUME ConsoleAssumption ==
  /\ {Width, Height, CharWidth, CharHeight, TabStop} \subseteq Nat \ {0}
  /\ Margin \in 0 .. CharWidth - 1 /\ Margin < CharHeight
  /\ TabStop % CharWidth = 0
  /\ Height >= 2 * CharHeight /\ Width > Margin + CharWidth

VARIABLES cursor_x, cursor_y,
          screen,                  (* the coloured pixels: <<x, y, number>>*)
          text                     (* history: the characters since a clear*)

consoleVars == <<cursor_x, cursor_y, screen, text>>

-----------------------------------------------------------------------------
(* Drawing.                                                                *)

Rect(x, y) == (x .. x + CharWidth - 1) \X (y .. y + CharHeight - 1)

OnScreen == (0 .. Width - 1) \X (0 .. Height - 1)

(* fb_draw_char: pixels outside the framebuffer are dropped.               *)
fb_draw_char(pixels, n, x, y) ==
  pixels \cup {<<p[1], p[2], n>> : p \in Rect(x, y) \cap OnScreen}

(* fb_fill_rect with the background.                                       *)
fb_fill_rect(pixels, x, y) == {p \in pixels : <<p[1], p[2]>> \notin Rect(x, y)}

(* Mutant: the last rows are not filled with the background.               *)
Scrolled_NoFill(pixels) ==
  {<<p[1], p[2] - CharHeight, p[3]>> : p \in {q \in pixels : q[2] >= CharHeight}}
    \cup {p \in pixels : p[2] >= Height - CharHeight}

(* scroll_screen: every row moves up by a line, and the last are cleared.  *)
Scrolled(pixels) ==
  {<<p[1], p[2] - CharHeight, p[3]>> : p \in {q \in pixels : q[2] >= CharHeight}}

-----------------------------------------------------------------------------
ConsoleInit ==
  /\ cursor_x = Margin
  /\ cursor_y = Margin
  /\ screen = {}
  /\ text = <<>>

printf_clear ==
  /\ cursor_x' = Margin
  /\ cursor_y' = Margin
  /\ screen' = {}
  /\ text' = <<>>

Printed(c) == text' = Append(text, c)

newline ==
  /\ Printed("newline")
  /\ cursor_x' = Margin
  /\ cursor_y' = cursor_y + CharHeight
  /\ UNCHANGED screen

carriage_return ==
  /\ Printed("return")
  /\ cursor_x' = Margin
  /\ UNCHANGED <<cursor_y, screen>>

tab ==
  /\ Printed("tab")
  /\ cursor_x' = (cursor_x + TabStop) - ((cursor_x + TabStop) % TabStop)
  /\ UNCHANGED <<cursor_y, screen>>

(* Mutant: no comparison with the left margin.                             *)
backspace_NoMargin ==
  /\ Printed("backspace")
  /\ cursor_x' = cursor_x - CharWidth
  /\ screen' = fb_fill_rect(screen, cursor_x - CharWidth, cursor_y)
  /\ UNCHANGED cursor_y

backspace ==
  /\ Printed("backspace")
  /\ \/ /\ cursor_x > Margin
        /\ cursor_x' = cursor_x - CharWidth
        /\ screen' = fb_fill_rect(screen, cursor_x - CharWidth, cursor_y)
     \/ /\ cursor_x <= Margin
        /\ UNCHANGED <<cursor_x, screen>>
  /\ UNCHANGED cursor_y

(* Any other character: where it goes, with the line wrapped if it must be.*)
Wraps == cursor_x + CharWidth >= Width
AtX == IF Wraps THEN Margin ELSE cursor_x
AtY == IF Wraps THEN cursor_y + CharHeight ELSE cursor_y

glyph ==
  /\ Printed("glyph")
  /\ cursor_x' = AtX + CharWidth
  /\ \/ /\ AtY + CharHeight < Height
        /\ cursor_y' = AtY
        /\ screen' = fb_draw_char(screen, Len(text'), AtX, AtY)
     \/ /\ AtY + CharHeight >= Height
        /\ cursor_y' = AtY - CharHeight
        /\ screen' = fb_draw_char(Scrolled(screen), Len(text'), AtX, AtY - CharHeight)

putchar(kind) ==
  \/ kind = "newline" /\ newline
  \/ kind = "return" /\ carriage_return
  \/ kind = "tab" /\ tab
  \/ kind = "backspace" /\ backspace
  \/ kind = "glyph" /\ glyph

-----------------------------------------------------------------------------
(* The cursor stays clear of the wrap-around of its uint32_t: neither      *)
(* backspaces, from columns that a tab has shifted, nor scrolling take it  *)
(* below 0.                                                                *)
ConsoleTypeOK ==
  /\ cursor_x \in Nat /\ cursor_y \in Nat
  /\ screen \subseteq {<<p[1], p[2], n>> : p \in OnScreen, n \in DOMAIN text}
  /\ text \in Seq({"newline", "return", "tab", "backspace", "glyph"})

-----------------------------------------------------------------------------
(* What the text says: lines of character numbers, broken at newlines and  *)
(* where a line has no room for a glyph.                                   *)

Columns == Cardinality({k \in 1 .. Width : Margin + k * CharWidth < Width})
Rows == Cardinality({k \in 1 .. Height : Margin + k * CharHeight < Height})

(* "top" lines have left the screen: a glyph that is due below its foot   *)
(* moves it up, by one line however far below.  "cut" are the glyphs that  *)
(* were still due below it then, of which the screen has a part or nothing.*)
Blank == [lines |-> <<<<>>>>, top |-> 0, cut |-> {}]

(* The page with glyph n on line i, of the lines that this makes.          *)
WithGlyph(page, n, i, lines) ==
  LET top == IF i > page.top + Rows THEN page.top + 1 ELSE page.top
  IN  [lines |-> lines, top |-> top,
       cut |-> IF i > top + Rows THEN page.cut \cup {n} ELSE page.cut]

Typed(page, n, c) ==
  LET now == Len(page.lines)
      line == page.lines[now]
  IN  CASE c = "newline" -> [page EXCEPT !.lines = Append(@, <<>>)]
        [] c = "backspace" ->
             [page EXCEPT !.lines[now] = IF line = <<>> THEN <<>> ELSE Front(line)]
        [] c = "glyph" /\ Len(line) < Columns ->
             WithGlyph(page, n, now, [page.lines EXCEPT ![now] = Append(line, n)])
        [] OTHER -> WithGlyph(page, n, now + 1, Append(page.lines, <<n>>))

PageOf(characters) ==
  LET page[n \in 0 .. Len(characters)] ==
        IF n = 0 THEN Blank ELSE Typed(page[n - 1], n, characters[n])
  IN  page[Len(characters)]

Page == PageOf(text)

(* Without returns and tabs, which nothing in the kernel prints, the text  *)
(* stays on the grid.                                                      *)
Ordinary == \A n \in DOMAIN text : text[n] \notin {"return", "tab"}

(* The pixels of the characters below the top, each in its cell.           *)
Shown ==
  LET top == Page.top
  IN  UNION {
        LET i == ij[1]
            j == ij[2]
        IN  {<<p[1], p[2], Page.lines[i][j]>> :
               p \in Rect(Margin + (j - 1) * CharWidth, Margin + (i - top - 1) * CharHeight)}
        : ij \in {x \in (top + 1 .. Len(Page.lines)) \X (1 .. Columns) :
                    /\ x[2] <= Len(Page.lines[x[1]])
                    /\ Page.lines[x[1]][x[2]] \notin Page.cut}}

(* The screen shows the end of the text: its characters are complete, each *)
(* in its cell and nothing else over it, whatever was wrapped, taken back  *)
(* and scrolled before, and after any blank lines.  What is lost is only   *)
(* what was cut: where the text went on more than a line below the foot of *)
(* the screen, one glyph for each line too far.  Above the margin the foot *)
(* of a line that was scrolled out may remain.                             *)
ShowsTheTail ==
  Ordinary => {p \in screen : p[2] >= Margin /\ p[3] \notin Page.cut} = Shown
=============================================================================
