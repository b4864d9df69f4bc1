--------------------------- MODULE TerminalProofs ---------------------------
(***************************************************************************)
(* Proofs about the console, printf and the string library, for every      *)
(* framebuffer, cell, text, format and memory.                             *)
(*                                                                         *)
(* The console: what the screen shows is compared with the lines of the    *)
(* text, a recursive function of it; that this takes a step with each      *)
(* character is proved first.  Then the cursor is where the last line      *)
(* ends, on a grid of columns and rows, and the pixels are those of the    *)
(* last lines.                                                             *)
(*                                                                         *)
(* printf: the scan stays inside the format and its arguments; the digits  *)
(* that itoa finds are those of the numeral; and what has been put, with   *)
(* what the rest of the format means, is what all of it means.             *)
(*                                                                         *)
(* The strings: a loop over bytes moves a stretch of them, and stops where *)
(* its condition first holds; the functions are made of such loops.        *)
(*                                                                         *)
(* Recursions are followed by induction with SetInduction, which is about  *)
(* sets of numbers and comes from the least element of one.                *)
(***************************************************************************)
EXTENDS Terminal, FiniteSetTheorems, SequenceTheorems, WellFoundedInduction, TLAPS

(* A set of numbers has a least member.                                    *)
LEMMA LeastExists ==
  ASSUME NEW S \in SUBSET Nat, S # {}
  PROVE  \E x \in S : \A y \in S : x <= y
<1>1. PICK x \in S : \A y \in S : ~(<<y, x>> \in OpToRel(<, Nat))
  BY NatLessThanWellFounded, WFMin
<1>2. ASSUME NEW y \in S PROVE x <= y
  <2>1. x \in Nat /\ y \in Nat
    OBVIOUS
  <2>2. <<y, x>> \in Nat \X Nat /\ <<y, x>>[1] = y /\ <<y, x>>[2] = x
    BY <2>1
  <2>3. ~(y < x)
    BY <1>1, <2>2 DEF OpToRel
  <2> QED BY <2>1, <2>3
<1> QED BY <1>2

(* So a set is all numbers when it has 0 and, of each, the next.           *)
LEMMA SetInduction ==
  ASSUME NEW S, 0 \in S, \A n \in Nat : n \in S => n + 1 \in S
  PROVE  \A n \in Nat : n \in S
<1> SUFFICES ASSUME NEW m \in Nat, m \notin S PROVE FALSE
  OBVIOUS
<1>1. PICK T : T = {n \in Nat : n \notin S}
  OBVIOUS
<1>2. T \in SUBSET Nat /\ T # {}
  BY <1>1
<1>3. PICK x \in T : \A y \in T : x <= y
  BY <1>2, LeastExists
<1>4. x \in Nat /\ x # 0 /\ x - 1 \in Nat /\ (x - 1) + 1 = x /\ ~(x <= x - 1)
  BY <1>1, <1>3
<1>5. x - 1 \in S
  BY <1>1, <1>3, <1>4
<1> QED BY <1>1, <1>4, <1>5

-----------------------------------------------------------------------------
(* The lines of a text: PageOf takes one step with each character.         *)

(* The pages after 0 .. k characters.                                      *)
Upto(characters, k, h) ==
  h = [n \in 0 .. k |-> IF n = 0 THEN Blank ELSE Typed(h[n - 1], n, characters[n])]

(* However far, there are such pages,                                      *)
LEMMA PagesExist ==
  ASSUME NEW characters, NEW k \in Nat
  PROVE  \E h : Upto(characters, k, h)
<1> DEFINE S == {m \in Nat : \E h : Upto(characters, m, h)}
<1>1. 0 \in S
  <2>1. PICK h : h = [n \in 0 .. 0 |-> Blank]
    OBVIOUS
  <2>2. Upto(characters, 0, h)
    BY <2>1 DEF Upto
  <2> QED BY <2>2
<1>2. ASSUME NEW m \in Nat, m \in S PROVE m + 1 \in S
  <2>1. PICK h : Upto(characters, m, h)
    BY <1>2
  <2>2. PICK g : g = [n \in 0 .. m + 1 |->
                        IF n = m + 1 THEN Typed(h[m], n, characters[n]) ELSE h[n]]
    OBVIOUS
  <2>3. ASSUME NEW n \in 0 .. m + 1
        PROVE  g[n] = IF n = 0 THEN Blank ELSE Typed(g[n - 1], n, characters[n])
    <3>1. CASE n = m + 1
      <4>1. g[n - 1] = h[m]
        BY <2>2, <3>1
      <4> QED BY <2>2, <3>1, <4>1
    <3>2. CASE n # m + 1
      <4>1. n \in 0 .. m /\ g[n] = h[n]
        BY <2>2, <3>2
      <4>2. n # 0 => g[n - 1] = h[n - 1]
        BY <2>2, <4>1
      <4>3. h[n] = IF n = 0 THEN Blank ELSE Typed(h[n - 1], n, characters[n])
        BY <2>1, <4>1 DEF Upto
      <4> QED BY <4>1, <4>2, <4>3
    <3> QED BY <3>1, <3>2
  <2>4. Upto(characters, m + 1, g)
    BY <2>2, <2>3 DEF Upto
  <2> QED BY <2>4
<1> HIDE DEF S
<1>3. k \in S
  BY <1>1, <1>2, SetInduction
<1> QED BY <1>3 DEF S

(* and only one for the characters up to there.                            *)
LEMMA PagesAgree ==
  ASSUME NEW c, NEW d, NEW k \in Nat, NEW m \in Nat, k <= m,
         \A n \in 1 .. k : c[n] = d[n],
         NEW h, Upto(c, k, h), NEW g, Upto(d, m, g)
  PROVE  h[k] = g[k]
<1> DEFINE S == {n \in Nat : n <= k => h[n] = g[n]}
<1>1. 0 \in S
  BY DEF Upto
<1>2. ASSUME NEW n \in Nat, n \in S PROVE n + 1 \in S
  <2> SUFFICES ASSUME n + 1 <= k PROVE h[n + 1] = g[n + 1]
    OBVIOUS
  <2>1. h[n] = g[n]
    BY <1>2
  <2>2. n + 1 \in 0 .. k /\ n + 1 \in 0 .. m /\ n + 1 # 0 /\ (n + 1) - 1 = n
        /\ c[n + 1] = d[n + 1]
    OBVIOUS
  <2>3. h[n + 1] = Typed(h[n], n + 1, c[n + 1])
    BY <2>2 DEF Upto
  <2>4. g[n + 1] = Typed(g[n], n + 1, d[n + 1])
    BY <2>2 DEF Upto
  <2> QED BY <2>1, <2>2, <2>3, <2>4
<1> HIDE DEF S
<1>3. k \in S
  BY <1>1, <1>2, SetInduction
<1> QED BY <1>3 DEF S

(* With a character the page takes the step that Typed says.               *)
LEMMA PageStep ==
  ASSUME NEW S, NEW txt \in Seq(S), NEW c \in S
  PROVE  /\ PageOf(<<>>) = Blank
         /\ PageOf(Append(txt, c)) = Typed(PageOf(txt), Len(txt) + 1, c)
<1>1. ASSUME NEW chars, Len(chars) \in Nat
      PROVE  \E h : Upto(chars, Len(chars), h) /\ PageOf(chars) = h[Len(chars)]
  <2>1. PICK h : h = CHOOSE p : Upto(chars, Len(chars), p)
    OBVIOUS
  <2>2. Upto(chars, Len(chars), h)
    BY <1>1, <2>1, PagesExist
  <2>3. PageOf(chars) = h[Len(chars)]
    BY <2>1 DEF PageOf, Upto
  <2> QED BY <2>2, <2>3
<1>2. PageOf(<<>>) = Blank
  <2>1. Len(<<>>) = 0
    OBVIOUS
  <2>2. PICK h : Upto(<<>>, Len(<<>>), h) /\ PageOf(<<>>) = h[Len(<<>>)]
    BY <1>1, <2>1
  <2> QED BY <2>1, <2>2 DEF Upto
<1>3. PageOf(Append(txt, c)) = Typed(PageOf(txt), Len(txt) + 1, c)
  <2>1. PICK k \in Nat : k = Len(txt)
    OBVIOUS
  <2>2. PICK long : long = Append(txt, c)
    OBVIOUS
  <2>3. Len(long) = k + 1 /\ long[k + 1] = c /\ \A n \in 1 .. k : txt[n] = long[n]
    BY <2>1, <2>2
  <2>4. PICK h : Upto(txt, k, h) /\ PageOf(txt) = h[k]
    BY <1>1, <2>1
  <2>5. PICK g : Upto(long, k + 1, g) /\ PageOf(long) = g[k + 1]
    BY <1>1, <2>3
  <2>6. h[k] = g[k]
    BY <2>3, <2>4, <2>5, PagesAgree
  <2>7. k + 1 \in 0 .. k + 1 /\ k + 1 # 0 /\ (k + 1) - 1 = k
    OBVIOUS
  <2>8. g[k + 1] = Typed(g[k], k + 1, long[k + 1])
    BY <2>5, <2>7 DEF Upto
  <2> QED BY <2>1, <2>2, <2>3, <2>4, <2>5, <2>6, <2>8
<1> QED BY <1>2, <1>3

-----------------------------------------------------------------------------
(* The cursor.                                                             *)

(* A column of the grid from the left edge, or of the one from the margin. *)
OnGrid(x) == \E k \in Nat : x \in {k * CharWidth, Margin + k * CharWidth}

GridInv == ConsoleTypeOK /\ OnGrid(cursor_x)

(* The framebuffer and its cells are positive numbers.                     *)
LEMMA Sizes ==
  /\ Width \in Nat /\ Height \in Nat /\ CharWidth \in Nat /\ CharHeight \in Nat
  /\ Margin \in Nat /\ TabStop \in Nat
  /\ CharWidth > 0 /\ CharHeight > 0 /\ TabStop > 0
  /\ Margin < CharWidth /\ Margin < CharHeight
  /\ Height >= 2 * CharHeight /\ Width > Margin + CharWidth
BY ConsoleAssumption

(* A tab stop is on the grid.                                              *)
LEMMA TabOnGrid ==
  ASSUME NEW x \in Nat
  PROVE  /\ (x + TabStop) - ((x + TabStop) % TabStop) \in Nat
         /\ OnGrid((x + TabStop) - ((x + TabStop) % TabStop))
<1>1. PICK r \in Nat : TabStop = r * CharWidth
  <2>1. TabStop % CharWidth = 0
    BY ConsoleAssumption
  <2>2. TabStop \div CharWidth \in Nat
        /\ TabStop = CharWidth * (TabStop \div CharWidth) + (TabStop % CharWidth)
    BY Sizes
  <2> QED BY <2>1, <2>2, Sizes
<1>2. PICK y \in Nat : y = x + TabStop
  BY Sizes
<1>3. PICK q \in Nat : y = TabStop * q + (y % TabStop)
  <2>1. y \div TabStop \in Nat /\ y = TabStop * (y \div TabStop) + (y % TabStop)
    BY Sizes
  <2> QED BY <2>1
<1>4. y - (y % TabStop) = TabStop * q /\ y % TabStop \in Int
  BY <1>3, Sizes
<1>5. TabStop * q = (r * q) * CharWidth /\ r * q \in Nat
  BY <1>1, Sizes
<1>6. PICK k \in Nat : k = r * q
  BY <1>5
<1>7. y - (y % TabStop) = k * CharWidth /\ k * CharWidth \in Nat
  BY <1>4, <1>5, <1>6, Sizes
<1>8. OnGrid(y - (y % TabStop))
  BY <1>7 DEF OnGrid
<1> QED BY <1>2, <1>7, <1>8

(* A backspace from a column of the grid ends on one: the columns from the *)
(* left edge are at least a cell from 0, those from the margin from it.    *)
LEMMA BackOnGrid ==
  ASSUME NEW x \in Nat, OnGrid(x), x > Margin
  PROVE  x - CharWidth \in Nat /\ OnGrid(x - CharWidth)
<1>1. PICK k \in Nat : x \in {k * CharWidth, Margin + k * CharWidth}
  BY DEF OnGrid
<1>2. k # 0
  BY <1>1, Sizes
<1>3. k - 1 \in Nat /\ (k - 1) * CharWidth = k * CharWidth - CharWidth
      /\ (k - 1) * CharWidth \in Nat
  BY <1>2, Sizes
<1>4. PICK j \in Nat : j = k - 1
  BY <1>3
<1>5. x - CharWidth \in {j * CharWidth, Margin + j * CharWidth}
  BY <1>1, <1>3, <1>4, Sizes
<1>6. OnGrid(x - CharWidth)
  BY <1>5 DEF OnGrid
<1>7. x - CharWidth \in Nat
  BY <1>3, <1>4, <1>5, Sizes
<1> QED BY <1>6, <1>7

(* What a step of Terminal does to the console.                            *)
LEMMA ConsoleStep ==
  ASSUME [Next]_vars
  PROVE  (\E kind : putchar(kind)) \/ printf_clear \/ UNCHANGED consoleVars
BY DEF Next, scan, character, call, clear, vars

(* The pixels that n characters may have coloured.                         *)
Pixels(n) == {<<p[1], p[2], m>> : p \in OnScreen, m \in 1 .. n}

(* A cell's pixels, and the ones that scrolling leaves.                    *)
LEMMA PixelFacts ==
  ASSUME NEW n \in Nat, NEW q
  PROVE  q \in Pixels(n) <=> /\ q = <<q[1], q[2], q[3]>>
                             /\ q[1] \in 0 .. Width - 1 /\ q[2] \in 0 .. Height - 1
                             /\ q[3] \in 1 .. n
<1>1. ASSUME q \in Pixels(n)
      PROVE  /\ q = <<q[1], q[2], q[3]>>
             /\ q[1] \in 0 .. Width - 1 /\ q[2] \in 0 .. Height - 1
             /\ q[3] \in 1 .. n
  <2>1. PICK p \in OnScreen, m \in 1 .. n : q = <<p[1], p[2], m>>
    BY <1>1 DEF Pixels
  <2> QED BY <2>1 DEF OnScreen
<1>2. ASSUME q = <<q[1], q[2], q[3]>>, q[1] \in 0 .. Width - 1, q[2] \in 0 .. Height - 1,
             q[3] \in 1 .. n
      PROVE  q \in Pixels(n)
  <2>1. PICK p : p = <<q[1], q[2]>>
    OBVIOUS
  <2>2. p \in OnScreen /\ q = <<p[1], p[2], q[3]>>
    BY <1>2, <2>1 DEF OnScreen
  <2> QED BY <1>2, <2>2 DEF Pixels
<1> QED BY <1>1, <1>2

(* Drawing, filling and scrolling stay inside the framebuffer.             *)
LEMMA Drawing ==
  ASSUME NEW n \in Nat, NEW pixels \in SUBSET Pixels(n), NEW x \in Int, NEW y \in Int
  PROVE  /\ fb_draw_char(pixels, n + 1, x, y) \subseteq Pixels(n + 1)
         /\ fb_fill_rect(pixels, x, y) \subseteq Pixels(n + 1)
         /\ Scrolled(pixels) \subseteq Pixels(n)
         /\ pixels \subseteq Pixels(n + 1)
<1>1. pixels \subseteq Pixels(n + 1)
  BY PixelFacts
<1>2. fb_fill_rect(pixels, x, y) \subseteq Pixels(n + 1)
  BY <1>1 DEF fb_fill_rect
<1>3. fb_draw_char(pixels, n + 1, x, y) \subseteq Pixels(n + 1)
  <2>1. \A p \in OnScreen : <<p[1], p[2], n + 1>> \in Pixels(n + 1)
    BY DEF Pixels
  <2> QED BY <1>1, <2>1 DEF fb_draw_char
<1>4. ASSUME NEW q \in pixels, q[2] >= CharHeight
      PROVE  <<q[1], q[2] - CharHeight, q[3]>> \in Pixels(n)
  <2>1. q[1] \in 0 .. Width - 1 /\ q[2] \in 0 .. Height - 1 /\ q[3] \in 1 .. n
    BY PixelFacts
  <2>2. PICK r : r = <<q[1], q[2] - CharHeight, q[3]>>
    OBVIOUS
  <2>3. r = <<r[1], r[2], r[3]>> /\ r[1] = q[1] /\ r[2] = q[2] - CharHeight /\ r[3] = q[3]
    BY <2>2
  <2>4. r \in Pixels(n)
    BY <1>4, <2>1, <2>3, Sizes, PixelFacts
  <2> QED BY <2>2, <2>4
<1>5. Scrolled(pixels) \subseteq Pixels(n)
  BY <1>4 DEF Scrolled
<1> QED BY <1>1, <1>2, <1>3, <1>5

(* The text grows by one character, and the cursor and the pixels stay in  *)
(* range.                                                                  *)
LEMMA PutcharTypes ==
  ASSUME GridInv, NEW kind, putchar(kind)
  PROVE  GridInv'
<1> DEFINE Kinds == {"newline", "return", "tab", "backspace", "glyph"}
<1>1. /\ cursor_x \in Nat /\ cursor_y \in Nat /\ OnGrid(cursor_x)
      /\ text \in Seq(Kinds) /\ Len(text) \in Nat
      /\ screen \subseteq Pixels(Len(text))
  BY DEF GridInv, ConsoleTypeOK, Pixels
<1>2. PICK n \in Nat : n = Len(text)
  BY <1>1
<1>3. kind \in Kinds /\ text' = Append(text, kind)
  BY DEF putchar, newline, carriage_return, tab, backspace, glyph, Printed
<1>4. text' \in Seq(Kinds) /\ Len(text') = n + 1
  BY <1>1, <1>2, <1>3
<1>5. screen \subseteq Pixels(n) /\ screen \subseteq Pixels(n + 1)
  BY <1>1, <1>2, Drawing
<1>6. SUFFICES /\ cursor_x' \in Nat /\ OnGrid(cursor_x') /\ cursor_y' \in Nat
               /\ screen' \subseteq Pixels(n + 1)
  BY <1>4 DEF GridInv, ConsoleTypeOK, OnGrid, Pixels, OnScreen
<1>7. OnGrid(Margin) /\ Margin \in Nat
  <2>1. 0 \in Nat /\ Margin = Margin + 0 * CharWidth
    BY Sizes
  <2> QED BY <2>1, Sizes DEF OnGrid
<1>8. CASE newline
  BY <1>1, <1>5, <1>7, <1>8, Sizes DEF newline
<1>9. CASE carriage_return
  BY <1>1, <1>5, <1>7, <1>9, Sizes DEF carriage_return
<1>10. CASE tab
  BY <1>1, <1>5, <1>10, TabOnGrid DEF tab
<1>11. CASE backspace
  <2>1. CASE cursor_x > Margin
    <3>1. cursor_x' = cursor_x - CharWidth /\ cursor_y' = cursor_y
          /\ screen' = fb_fill_rect(screen, cursor_x - CharWidth, cursor_y)
      BY <1>1, <1>11, <2>1, Sizes DEF backspace
    <3>2. cursor_x - CharWidth \in Nat /\ OnGrid(cursor_x - CharWidth)
      BY <1>1, <2>1, BackOnGrid
    <3> QED BY <1>1, <1>2, <1>5, <3>1, <3>2, Drawing
  <2>2. CASE ~(cursor_x > Margin)
    BY <1>1, <1>5, <1>11, <2>2, Sizes DEF backspace
  <2> QED BY <2>1, <2>2
<1>12. CASE glyph
  <2>1. AtX \in Nat /\ AtY \in Nat /\ OnGrid(AtX)
    BY <1>1, <1>7, Sizes DEF AtX, AtY
  <2>2. cursor_x' = AtX + CharWidth /\ AtX + CharWidth \in Nat
    BY <1>12, <2>1, Sizes DEF glyph
  <2>3. OnGrid(AtX + CharWidth)
    <3>1. PICK k \in Nat : AtX \in {k * CharWidth, Margin + k * CharWidth}
      BY <2>1 DEF OnGrid
    <3>2. PICK j \in Nat : j = k + 1 /\ j * CharWidth = k * CharWidth + CharWidth
      BY Sizes
    <3>3. AtX + CharWidth \in {j * CharWidth, Margin + j * CharWidth}
      BY <3>1, <3>2, Sizes
    <3> QED BY <3>3 DEF OnGrid
  <2>4. CASE AtY + CharHeight < Height
    <3>1. cursor_y' = AtY /\ screen' = fb_draw_char(screen, n + 1, AtX, AtY)
      BY <1>4, <1>12, <2>1, <2>4, Sizes DEF glyph
    <3>2. PICK x \in Int, y \in Int : x = AtX /\ y = AtY
      BY <2>1
    <3>3. fb_draw_char(screen, n + 1, x, y) \subseteq Pixels(n + 1)
      BY <1>5, Drawing
    <3> QED BY <2>1, <2>2, <2>3, <3>1, <3>2, <3>3
  <2>5. CASE AtY + CharHeight >= Height
    <3>1. /\ cursor_y' = AtY - CharHeight
          /\ screen' = fb_draw_char(Scrolled(screen), n + 1, AtX, AtY - CharHeight)
      BY <1>4, <1>12, <2>1, <2>5, Sizes DEF glyph
    <3>2. AtY - CharHeight \in Nat
      BY <2>1, <2>5, Sizes
    <3>3. Scrolled(screen) \in SUBSET Pixels(n)
      BY <1>5, Drawing, <2>1
    <3>4. PICK pixels \in SUBSET Pixels(n), x \in Int, y \in Int :
            pixels = Scrolled(screen) /\ x = AtX /\ y = AtY - CharHeight
      BY <2>1, <3>2, <3>3
    <3>5. fb_draw_char(pixels, n + 1, x, y) \subseteq Pixels(n + 1)
      BY <3>4, Drawing
    <3> QED BY <2>2, <2>3, <3>1, <3>2, <3>4, <3>5
  <2> QED BY <2>1, <2>4, <2>5, Sizes
<1> QED BY <1>8, <1>9, <1>10, <1>11, <1>12 DEF putchar

(* Each action keeps the cursor on the grid.                               *)
LEMMA GridStep == GridInv /\ [Next]_vars => GridInv'
<1> SUFFICES ASSUME GridInv, [Next]_vars PROVE GridInv'
  OBVIOUS
<1>1. CASE printf_clear
  <2>1. cursor_x' = Margin /\ cursor_y' = Margin /\ screen' = {} /\ text' = <<>>
    BY <1>1 DEF printf_clear
  <2>2. 0 \in Nat /\ Margin = Margin + 0 * CharWidth /\ Margin \in Nat
    BY Sizes
  <2> QED BY <2>1, <2>2 DEF GridInv, ConsoleTypeOK, OnGrid
<1>2. CASE UNCHANGED consoleVars
  BY <1>2 DEF GridInv, ConsoleTypeOK, OnGrid, consoleVars
<1> QED BY <1>1, <1>2, ConsoleStep, PutcharTypes

-----------------------------------------------------------------------------
(* The grid of the lines.                                                  *)
Place(w, j) == Margin + (j - 1) * w
Col(j) == Place(CharWidth, j)
Row(i) == Place(CharHeight, i)

(* Of cells of size w from m on, as many fit below a limit as it counts.   *)
LEMMA CellsFit ==
  ASSUME NEW m \in Nat, NEW w \in Nat, w > 0, NEW limit \in Nat, m + w < limit
  PROVE  \E c \in Nat : /\ c = Cardinality({k \in 1 .. limit : m + k * w < limit})
                        /\ c >= 1
                        /\ \A k \in Nat : m + k * w < limit <=> k <= c
<1>1. PICK room \in Nat : room = limit - 1 - m
  OBVIOUS
<1>2. PICK c \in Nat, r \in 0 .. w - 1 : room = w * c + r
  <2>1. room \div w \in Nat /\ room % w \in 0 .. w - 1
        /\ room = w * (room \div w) + (room % w)
    OBVIOUS
  <2> QED BY <2>1
<1>3. ASSUME NEW k \in Nat PROVE m + k * w < limit <=> k <= c
  <2>1. k * w \in Nat /\ c * w \in Nat /\ w * c = c * w
    OBVIOUS
  <2>2. CASE k <= c
    <3>1. PICK d \in Nat : c = k + d
      BY <2>2
    <3>2. c * w = k * w + d * w /\ d * w \in Nat
      BY <3>1
    <3> QED BY <1>1, <1>2, <2>1, <2>2, <3>2
  <2>3. CASE k > c
    <3>1. PICK d \in Nat : k = c + 1 + d
      BY <2>3
    <3>2. k * w = c * w + w + d * w /\ d * w \in Nat
      BY <3>1
    <3> QED BY <1>1, <1>2, <2>1, <2>3, <3>2
  <2> QED BY <2>2, <2>3
<1>4. c >= 1
  <2>1. 1 * w = w
    OBVIOUS
  <2> QED BY <1>3, <2>1
<1>5. \A k \in Nat : k <= k * w
  <2>1. ASSUME NEW k \in Nat PROVE k <= k * w
    <3>1. PICK d \in Nat : w = 1 + d
      OBVIOUS
    <3>2. k * w = k + k * d /\ k * d \in Nat
      BY <3>1
    <3> QED BY <3>2
  <2> QED BY <2>1
<1>6. {k \in 1 .. limit : m + k * w < limit} = 1 .. c
  <2>1. \A k \in 1 .. c : k \in Nat /\ k * w \in Nat /\ m + k * w < limit /\ k <= k * w
    BY <1>3, <1>5
  <2>2. \A k \in 1 .. c : k \in 1 .. limit
    BY <2>1
  <2> QED BY <1>3, <2>1, <2>2
<1>7. Cardinality(1 .. c) = c
  BY FS_Interval
<1> QED BY <1>3, <1>4, <1>6, <1>7

(* Where the cells begin.                                                  *)
LEMMA PlaceFacts ==
  ASSUME NEW w \in Nat, w > 0
  PROVE  /\ \A j \in Nat : Place(w, j) \in Int /\ Place(w, j + 1) = Place(w, j) + w
         /\ \A j \in Nat : Place(w, j) + w = Margin + j * w
         /\ \A j \in Nat, k \in Nat : j < k => Place(w, j) + w <= Place(w, k)
         /\ \A j \in Nat : j > 0 => Place(w, j) >= Margin
         /\ Place(w, 1) = Margin
<1>1. ASSUME NEW j \in Nat
      PROVE  /\ Place(w, j) \in Int /\ Place(w, j) + w = Margin + j * w
             /\ Place(w, j + 1) = Margin + j * w
  BY Sizes DEF Place
<1>2. ASSUME NEW j \in Nat, NEW k \in Nat, j < k PROVE Place(w, j) + w <= Place(w, k)
  <2>1. PICK d \in Nat : k = j + 1 + d
    BY <1>2
  <2>2. (k - 1) * w = j * w + d * w /\ d * w \in Nat /\ j * w \in Nat
    BY <2>1
  <2> QED BY <1>1, <2>2, Sizes DEF Place
<1>3. Place(w, 1) = Margin
  BY Sizes DEF Place
<1>4. ASSUME NEW j \in Nat, j > 0 PROVE Place(w, j) >= Margin
  <2>1. (j - 1) * w \in Nat
    BY <1>4
  <2> QED BY <2>1, Sizes DEF Place
<1> QED BY <1>1, <1>2, <1>3, <1>4

(* Columns counts the columns, which are where the cursor can stand.       *)
LEMMA ColumnFacts ==
  /\ Columns \in Nat /\ Columns >= 1
  /\ \A j \in Nat : Col(j) + CharWidth < Width <=> j <= Columns
  /\ \A j \in Nat : Col(j) \in Int /\ Col(j + 1) = Col(j) + CharWidth
  /\ \A j \in Nat, k \in Nat : j < k => Col(j) + CharWidth <= Col(k)
  /\ \A j \in Nat : j > 0 => Col(j) >= Margin
  /\ Col(1) = Margin
<1>1. PICK c \in Nat : /\ c = Columns /\ c >= 1
                       /\ \A k \in Nat : Margin + k * CharWidth < Width <=> k <= c
  BY Sizes, CellsFit DEF Columns
<1>2. PICK w \in Nat : w = CharWidth /\ w > 0
  BY Sizes
<1> QED BY <1>1, <1>2, PlaceFacts DEF Col

(* Rows counts the lines of the screen.                                    *)
LEMMA RowFacts ==
  /\ Rows \in Nat /\ Rows >= 1
  /\ \A i \in Nat : Row(i) + CharHeight < Height <=> i <= Rows
  /\ \A i \in Nat : Row(i) \in Int /\ Row(i + 1) = Row(i) + CharHeight
  /\ \A i \in Nat, k \in Nat : i < k => Row(i) + CharHeight <= Row(k)
  /\ \A i \in Nat : i > 0 => Row(i) >= Margin
  /\ Row(1) = Margin
<1>0. Margin + CharHeight < Height
  BY Sizes
<1>1. PICK c \in Nat : /\ c = Rows /\ c >= 1
                       /\ \A k \in Nat : Margin + k * CharHeight < Height <=> k <= c
  BY <1>0, Sizes, CellsFit DEF Rows
<1>2. PICK w \in Nat : w = CharHeight /\ w > 0
  BY Sizes
<1> QED BY <1>1, <1>2, PlaceFacts DEF Row

-----------------------------------------------------------------------------
(* The lines of an ordinary text.                                          *)

Fits(line) == Len(line) <= Columns

(* The line that is typed on has not left the screen.                      *)
IsPage(pg) ==
  /\ pg \in [lines : Seq(Seq(Nat)), top : Nat, cut : SUBSET Nat]
  /\ pg.top < Len(pg.lines)
  /\ \A i \in 1 .. Len(pg.lines) : Fits(pg.lines[i])

(* The line that is typed on, how far it goes, and what stands where.      *)
LineOf(pg) == Len(pg.lines)
ReachOf(pg) == Len(pg.lines[LineOf(pg)])
Cell(pg, i, j, k) ==
  /\ i \in 1 .. Len(pg.lines) /\ j \in 1 .. Len(pg.lines[i])
  /\ k = pg.lines[i][j]

(* A line fits by its length.                                              *)
LEMMA FitsBy == ASSUME NEW line, NEW len \in Nat, Len(line) = len
                PROVE  Fits(line) <=> len <= Columns
BY DEF Fits

(* The blank page.                                                         *)
LEMMA BlankIsPage ==
  /\ IsPage(Blank) /\ Blank.top = 0 /\ LineOf(Blank) = 1 /\ ReachOf(Blank) = 0
  /\ \A i, j, k : ~Cell(Blank, i, j, k)
<1>1. Blank.top = 0 /\ Len(Blank.lines) = 1 /\ Blank.lines[1] = <<>> /\ Len(<<>>) = 0
  BY DEF Blank
<1>2. Blank \in [lines : Seq(Seq(Nat)), top : Nat, cut : SUBSET Nat]
  BY DEF Blank
<1>3. Fits(<<>>)
  <2>1. 0 <= Columns
    BY ColumnFacts
  <2> QED BY <1>1, <2>1, FitsBy
<1>4. \A i \in 1 .. 1 : i = 1
  OBVIOUS
<1>5. IsPage(Blank)
  BY <1>1, <1>2, <1>3, <1>4 DEF IsPage
<1>6. \A i, j, k : ~Cell(Blank, i, j, k)
  BY <1>1, <1>4 DEF Cell
<1> QED BY <1>1, <1>5, <1>6 DEF LineOf, ReachOf

(* A page, with its lines as members of one set.                           *)
LEMMA PageFacts ==
  ASSUME NEW pg, IsPage(pg), NEW Line, Line = Seq(Nat)
  PROVE  \E lines, top, cut, m :
           /\ lines \in Seq(Line) /\ top \in Nat /\ cut \in SUBSET Nat /\ m \in Nat
           /\ pg = [lines |-> lines, top |-> top, cut |-> cut]
           /\ pg.lines = lines /\ pg.top = top /\ pg.cut = cut
           /\ m = Len(lines) /\ top < m
           /\ \A i \in 1 .. m : lines[i] \in Line /\ Fits(lines[i])
<1>1. PICK lines, top, cut : lines = pg.lines /\ top = pg.top /\ cut = pg.cut
  OBVIOUS
<1>2. pg \in [lines : Seq(Line), top : Nat, cut : SUBSET Nat]
  BY DEF IsPage
<1>3. /\ pg = [lines |-> lines, top |-> top, cut |-> cut]
      /\ lines \in Seq(Line) /\ top \in Nat /\ cut \in SUBSET Nat
  BY <1>1, <1>2
<1>4. PICK m \in Nat : m = Len(lines)
  BY <1>3, LenProperties
<1>5. \A i \in 1 .. m : lines[i] \in Line
  BY <1>3, <1>4, ElementOfSeq
<1>6. top < m /\ \A i \in 1 .. m : Fits(lines[i])
  BY <1>1, <1>4 DEF IsPage
<1> QED BY <1>1, <1>3, <1>4, <1>5, <1>6

(* A page is put together of lines that fit.                               *)
LEMMA MakePage ==
  ASSUME NEW pg, NEW Line, Line = Seq(Nat), NEW lines, lines \in Seq(Line),
         NEW top, top \in Nat, NEW cut, cut \in SUBSET Nat,
         pg = [lines |-> lines, top |-> top, cut |-> cut],
         top < Len(lines), \A i \in 1 .. Len(lines) : Fits(lines[i])
  PROVE  IsPage(pg)
<1>1. pg.lines = lines /\ pg.top = top
  OBVIOUS
<1>2. pg \in [lines : Seq(Line), top : Nat, cut : SUBSET Nat]
  OBVIOUS
<1> QED BY <1>1, <1>2 DEF IsPage

(* The characters of a page are on its lines and on the grid.              *)
LEMMA PageView ==
  ASSUME NEW pg, IsPage(pg)
  PROVE  \E m \in Nat, r \in Nat, top \in Nat :
           /\ m = LineOf(pg) /\ r = ReachOf(pg) /\ top = pg.top
           /\ m - top \in Nat /\ m - top >= 1 /\ r <= Columns
           /\ \A i, j, k : Cell(pg, i, j, k) =>
                /\ i \in 1 .. m /\ j \in 1 .. Columns
                /\ (i = m => j \in 1 .. r)
<1>0. PICK Line : Line = Seq(Nat)
  OBVIOUS
<1>1. PICK lines \in Seq(Line), top \in Nat, m \in Nat :
           /\ pg.lines = lines /\ pg.top = top /\ m = Len(lines) /\ top < m
           /\ \A i \in 1 .. m : lines[i] \in Line /\ Fits(lines[i])
  BY <1>0, PageFacts
<1>2. ASSUME NEW i \in 1 .. m
      PROVE  \E len \in Nat : len = Len(lines[i]) /\ len <= Columns
  <2>1. PICK line \in Line : line = lines[i] /\ Fits(line)
    BY <1>1
  <2>2. PICK len \in Nat : len = Len(line)
    BY <1>0, LenProperties
  <2>3. len <= Columns
    BY <2>1, <2>2, FitsBy
  <2> QED BY <2>1, <2>2, <2>3
<1>3. PICK r \in Nat : r = Len(lines[m]) /\ r <= Columns
  <2>1. m \in 1 .. m
    BY <1>1
  <2> QED BY <1>2, <2>1
<1>4. m - top \in Nat /\ m - top >= 1
  BY <1>1
<1>5. m = LineOf(pg) /\ r = ReachOf(pg)
  BY <1>1, <1>3 DEF LineOf, ReachOf
<1>6. ASSUME NEW i, NEW j, NEW k, Cell(pg, i, j, k)
      PROVE  /\ i \in 1 .. m /\ j \in 1 .. Columns
             /\ (i = m => j \in 1 .. r)
  <2>1. i \in 1 .. m /\ j \in 1 .. Len(lines[i])
    BY <1>1, <1>6 DEF Cell
  <2>2. PICK len \in Nat : len = Len(lines[i]) /\ len <= Columns
    BY <1>2, <2>1
  <2>3. j \in 1 .. len
    BY <2>1, <2>2
  <2>4. i = m => j \in 1 .. r
    BY <1>3, <2>1
  <2>5. PICK c \in Nat : c = Columns
    BY ColumnFacts
  <2>6. j \in 1 .. c
    BY <2>2, <2>3, <2>5
  <2> QED BY <2>1, <2>4, <2>5, <2>6
<1> QED BY <1>1, <1>3, <1>4, <1>5, <1>6

(* A newline begins a line.                                                *)
LEMMA TypedNewline ==
  ASSUME NEW pg, IsPage(pg), NEW n \in Nat, NEW pq, pq = Typed(pg, n, "newline")
  PROVE  /\ IsPage(pq) /\ pq.top = pg.top /\ pq.cut = pg.cut
         /\ LineOf(pq) = LineOf(pg) + 1 /\ ReachOf(pq) = 0
         /\ \A i, j, k : Cell(pq, i, j, k) <=> Cell(pg, i, j, k)
<1>0. PICK Line : Line = Seq(Nat)
  OBVIOUS
<1>1. PICK lines, top, cut, m :
           /\ lines \in Seq(Line) /\ top \in Nat /\ cut \in SUBSET Nat /\ m \in Nat
           /\ pg = [lines |-> lines, top |-> top, cut |-> cut]
           /\ pg.lines = lines /\ pg.top = top /\ pg.cut = cut
           /\ m = Len(lines) /\ top < m
           /\ \A i \in 1 .. m : lines[i] \in Line /\ Fits(lines[i])
  BY <1>0, PageFacts
<1>2. PICK empty : empty = <<>>
  OBVIOUS
<1>3. empty \in Line /\ Len(empty) = 0 /\ Fits(empty)
  <2>1. empty \in Line /\ Len(empty) = 0
    BY <1>0, <1>2
  <2>2. 0 <= Columns
    BY ColumnFacts
  <2> QED BY <2>1, <2>2, FitsBy
<1>4. PICK more : more = Append(lines, empty)
  OBVIOUS
<1>5. /\ more \in Seq(Line) /\ Len(more) = m + 1 /\ more[m + 1] = empty
      /\ \A i \in 1 .. m : more[i] = lines[i]
  BY <1>1, <1>3, <1>4, AppendProperties
<1>6. pq = [lines |-> more, top |-> top, cut |-> cut]
  BY <1>1, <1>2, <1>4 DEF Typed
<1>7. \A i \in 1 .. m + 1 : Fits(more[i])
  BY <1>1, <1>3, <1>5
<1>10. IsPage(pq) /\ pq.lines = more /\ pq.top = top /\ pq.cut = cut
  <2>1. top < Len(more)
    BY <1>1, <1>5
  <2>2. \A i \in 1 .. Len(more) : Fits(more[i])
    BY <1>5, <1>7
  <2>3. more \in Seq(Line) /\ top \in Nat /\ cut \in SUBSET Nat
    BY <1>1, <1>5
  <2>4. IsPage(pq)
    BY <1>0, <1>6, <2>1, <2>2, <2>3, MakePage
  <2> QED BY <1>6, <2>4
<1>11. \A i, j, k : Cell(pq, i, j, k) <=> Cell(pg, i, j, k)
  BY <1>1, <1>3, <1>5, <1>10 DEF Cell
<1> QED BY <1>1, <1>3, <1>5, <1>10, <1>11 DEF LineOf, ReachOf

(* A backspace takes the last character of the line, if it has one.        *)
LEMMA TypedBackspace ==
  ASSUME NEW pg, IsPage(pg), NEW n \in Nat, NEW pq, pq = Typed(pg, n, "backspace")
  PROVE  /\ ReachOf(pg) = 0 => pq = pg
         /\ ReachOf(pg) # 0 =>
              /\ IsPage(pq) /\ pq.top = pg.top /\ pq.cut = pg.cut
              /\ LineOf(pq) = LineOf(pg)
              /\ ReachOf(pq) = ReachOf(pg) - 1
              /\ \A i, j, k : Cell(pq, i, j, k) <=>
                   Cell(pg, i, j, k) /\ ~(i = LineOf(pg) /\ j = ReachOf(pg))
<1>0. PICK Line : Line = Seq(Nat)
  OBVIOUS
<1>1. PICK lines, top, cut, m :
           /\ lines \in Seq(Line) /\ top \in Nat /\ cut \in SUBSET Nat /\ m \in Nat
           /\ pg = [lines |-> lines, top |-> top, cut |-> cut]
           /\ pg.lines = lines /\ pg.top = top /\ pg.cut = cut
           /\ m = Len(lines) /\ top < m
           /\ \A i \in 1 .. m : lines[i] \in Line /\ Fits(lines[i])
  BY <1>0, PageFacts
<1>2. PICK line \in Seq(Nat), r \in Nat : line = lines[m] /\ r = Len(line)
  <2>1. PICK line \in Seq(Nat) : line = lines[m]
    BY <1>0, <1>1
  <2> QED BY <2>1, LenProperties
<1>3. LineOf(pg) = m /\ ReachOf(pg) = r
  BY <1>1, <1>2 DEF LineOf, ReachOf
<1>4. PICK short : short = IF line = <<>> THEN <<>> ELSE Front(line)
  OBVIOUS
<1>5. PICK less : less = [lines EXCEPT ![m] = short]
  OBVIOUS
<1>6. pq = [lines |-> less, top |-> top, cut |-> cut]
  BY <1>1, <1>2, <1>4, <1>5 DEF Typed
<1>7. CASE r = 0
  <2>1. line = <<>>
    BY <1>2, <1>7, EmptySeq
  <2>2. less = lines
    <3>1. short = lines[m]
      BY <1>2, <1>4, <2>1
    <3>2. lines = [i \in DOMAIN lines |-> lines[i]]
      BY <1>1, LenProperties
    <3> QED BY <1>5, <3>1, <3>2
  <2> QED BY <1>1, <1>3, <1>6, <1>7, <2>2
<1>8. CASE r # 0
  <2>1. line # <<>> /\ \A j \in 1 .. r : line[j] \in Nat
    BY <1>2, <1>8
  <2>2. PICK k \in Nat : k = r - 1
    BY <1>8
  <2>3. short \in Seq(Nat) /\ Len(short) = k /\ \A j \in 1 .. k : short[j] = line[j]
    BY <1>2, <1>4, <2>1, <2>2 DEF Front
  <2>4. short \in Line /\ Fits(short)
    <3>1. Fits(line)
      BY <1>1, <1>2
    <3>2. r <= Columns /\ Columns \in Nat
      BY <1>2, <3>1, FitsBy, ColumnFacts
    <3>3. k <= Columns
      BY <2>2, <3>2
    <3> QED BY <1>0, <2>3, <3>3, FitsBy
  <2>5. /\ less \in Seq(Line) /\ Len(less) = m /\ less[m] = short
        /\ \A i \in 1 .. m : i # m => less[i] = lines[i]
    BY <1>1, <1>5, <2>4, ExceptSeq
  <2>6. \A i \in 1 .. m : Fits(less[i])
    BY <1>1, <2>4, <2>5
  <2>8. IsPage(pq) /\ pq.lines = less /\ pq.top = top /\ pq.cut = cut
    <3>1. top < Len(less) /\ \A i \in 1 .. Len(less) : Fits(less[i])
      BY <1>1, <2>5, <2>6
    <3>2. less \in Seq(Line) /\ top \in Nat /\ cut \in SUBSET Nat
      BY <1>1, <2>5
    <3>3. IsPage(pq)
      BY <1>0, <1>6, <3>1, <3>2, MakePage
    <3> QED BY <1>6, <3>3
  <2>9. LineOf(pq) = m /\ ReachOf(pq) = r - 1
    BY <2>2, <2>3, <2>5, <2>8 DEF LineOf, ReachOf
  <2>10. ASSUME NEW i, NEW j, NEW c
         PROVE  Cell(pq, i, j, c) <=> Cell(pg, i, j, c) /\ ~(i = m /\ j = r)
    <3>1. CASE i = m
      <4>1. Cell(pq, i, j, c) <=> j \in 1 .. k /\ c = short[j]
        BY <1>1, <2>3, <2>5, <2>8, <3>1 DEF Cell
      <4>2. Cell(pg, i, j, c) <=> j \in 1 .. r /\ c = line[j]
        BY <1>1, <1>2, <3>1 DEF Cell
      <4>3. j \in 1 .. k <=> j \in 1 .. r /\ j # r
        BY <2>2
      <4> QED BY <2>3, <3>1, <4>1, <4>2, <4>3
    <3>2. CASE i # m
      BY <1>1, <2>5, <2>8, <3>2 DEF Cell
    <3> QED BY <3>1, <3>2
  <2>11. pq.top = pg.top /\ pq.cut = pg.cut
    BY <1>1, <2>8
  <2> QED BY <1>3, <1>8, <2>8, <2>9, <2>10, <2>11
<1> QED BY <1>3, <1>7, <1>8

(* How a glyph on line m scrolls a page, and whether it is cut.            *)
Scrolls(pg, pq, n, m) ==
  /\ pq.top = IF m > pg.top + Rows THEN pg.top + 1 ELSE pg.top
  /\ pq.cut = IF m > pq.top + Rows THEN pg.cut \cup {n} ELSE pg.cut

(* What a glyph in column j of line m makes of a page.                     *)
Adds(pg, pq, n, m, j) ==
  /\ IsPage(pq) /\ LineOf(pq) = m /\ ReachOf(pq) = j
  /\ Scrolls(pg, pq, n, m)
  /\ \A i, x, k : Cell(pq, i, x, k) <=>
       Cell(pg, i, x, k) \/ (i = m /\ x = j /\ k = n)

(* The lines with it are a page.                                           *)
LEMMA GlyphIsPage ==
  ASSUME NEW pg, pg.top \in Nat, pg.cut \in SUBSET Nat, NEW n, n \in Nat,
         NEW Line, Line = Seq(Nat), NEW lines, lines \in Seq(Line),
         NEW m, m \in Nat, m = Len(lines), pg.top < m, \A i \in 1 .. m : Fits(lines[i]),
         NEW pq, pq = WithGlyph(pg, n, m, lines)
  PROVE  IsPage(pq) /\ pq.lines = lines /\ Scrolls(pg, pq, n, m)
<1>0. PICK top \in Nat, cut \in SUBSET Nat : top = pg.top /\ cut = pg.cut
  OBVIOUS
<1>1. PICK rows \in Nat : rows = Rows /\ rows >= 1
  BY RowFacts
<1>2. PICK t \in Nat : t = (IF m > top + rows THEN top + 1 ELSE top) /\ t < m
  <2>1. CASE m > top + rows
    BY <1>0, <1>1, <2>1
  <2>2. CASE ~(m > top + rows)
    BY <1>0, <2>2
  <2> QED BY <2>1, <2>2
<1>3. PICK c \in SUBSET Nat : c = IF m > t + rows THEN cut \cup {n} ELSE cut
  OBVIOUS
<1>4. pq = [lines |-> lines, top |-> t, cut |-> c]
  BY <1>0, <1>1, <1>2, <1>3 DEF WithGlyph
<1>5. IsPage(pq) /\ pq.lines = lines /\ pq.top = t /\ pq.cut = c
  <2>1. IsPage(pq)
    BY <1>2, <1>4, MakePage
  <2> QED BY <1>4, <2>1
<1> QED BY <1>0, <1>1, <1>2, <1>3, <1>5 DEF Scrolls

(* It goes to the end of the line, or to a new one when that is full.      *)
LEMMA TypedGlyph ==
  ASSUME NEW pg, IsPage(pg), NEW n \in Nat, NEW pq, pq = Typed(pg, n, "glyph")
  PROVE  /\ ReachOf(pg) < Columns => Adds(pg, pq, n, LineOf(pg), ReachOf(pg) + 1)
         /\ ~(ReachOf(pg) < Columns) => Adds(pg, pq, n, LineOf(pg) + 1, 1)
<1>0. PICK Line : Line = Seq(Nat)
  OBVIOUS
<1>1. PICK lines, top, cut, m :
           /\ lines \in Seq(Line) /\ top \in Nat /\ cut \in SUBSET Nat /\ m \in Nat
           /\ pg = [lines |-> lines, top |-> top, cut |-> cut]
           /\ pg.lines = lines /\ pg.top = top /\ pg.cut = cut
           /\ m = Len(lines) /\ top < m
           /\ \A i \in 1 .. m : lines[i] \in Line /\ Fits(lines[i])
  BY <1>0, PageFacts
<1>2. PICK line \in Seq(Nat), r \in Nat : line = lines[m] /\ r = Len(line)
  <2>1. PICK line \in Seq(Nat) : line = lines[m]
    BY <1>0, <1>1
  <2> QED BY <2>1, LenProperties
<1>3. LineOf(pg) = m /\ ReachOf(pg) = r
  BY <1>1, <1>2 DEF LineOf, ReachOf
<1>4. PICK c \in Nat : c = Columns /\ c >= 1
  BY ColumnFacts
<1>5. PICK m1 \in Nat, r1 \in Nat : m1 = m + 1 /\ r1 = r + 1
  BY <1>1
<1>6. CASE r < c
  <2>1. PICK long : long = Append(line, n)
    OBVIOUS
  <2>2. /\ long \in Seq(Nat) /\ Len(long) = r1 /\ long[r1] = n
        /\ \A j \in 1 .. r : long[j] = line[j]
    BY <1>2, <1>5, <2>1, AppendProperties
  <2>3. long \in Line /\ Fits(long)
    BY <1>0, <1>4, <1>5, <1>6, <2>2, FitsBy
  <2>4. PICK wider : wider = [lines EXCEPT ![m] = long]
    OBVIOUS
  <2>5. pq = WithGlyph(pg, n, m, wider)
    BY <1>1, <1>2, <1>4, <1>6, <2>1, <2>4 DEF Typed
  <2>6. /\ wider \in Seq(Line) /\ Len(wider) = m /\ wider[m] = long
        /\ \A i \in 1 .. m : i # m => wider[i] = lines[i]
    BY <1>1, <2>3, <2>4, ExceptSeq
  <2>7. \A i \in 1 .. m : Fits(wider[i])
    BY <1>1, <2>3, <2>6
  <2>8. IsPage(pq) /\ pq.lines = wider /\ Scrolls(pg, pq, n, m)
    <3>1. m = Len(wider) /\ wider \in Seq(Line)
      BY <2>6
    <3>2. m \in Nat /\ pg.top \in Nat /\ pg.cut \in SUBSET Nat /\ pg.top < m
      BY <1>1
    <3> QED BY <1>0, <2>5, <2>7, <3>1, <3>2, GlyphIsPage
  <2>9. LineOf(pq) = m /\ ReachOf(pq) = r1
    BY <2>2, <2>6, <2>8 DEF LineOf, ReachOf
  <2>10. ASSUME NEW i, NEW j, NEW k
         PROVE  Cell(pq, i, j, k) <=> Cell(pg, i, j, k) \/ (i = m /\ j = r1 /\ k = n)
    <3>1. CASE i = m
      <4>1. Cell(pq, i, j, k) <=> j \in 1 .. r1 /\ k = long[j]
        BY <1>1, <2>2, <2>6, <2>8, <3>1 DEF Cell
      <4>2. Cell(pg, i, j, k) <=> j \in 1 .. r /\ k = line[j]
        BY <1>1, <1>2, <3>1 DEF Cell
      <4>3. j \in 1 .. r1 <=> j \in 1 .. r \/ j = r1
        BY <1>5
      <4>4. r1 \notin 1 .. r
        BY <1>5
      <4> QED BY <2>2, <3>1, <4>1, <4>2, <4>3, <4>4
    <3>2. CASE i # m
      BY <1>1, <2>6, <2>8, <3>2 DEF Cell
    <3> QED BY <3>1, <3>2
  <2>11. Adds(pg, pq, n, m, r1)
    BY <2>8, <2>9, <2>10 DEF Adds
  <2> QED BY <1>3, <1>4, <1>5, <1>6, <2>11
<1>7. CASE ~(r < c)
  <2>1. PICK new : new = <<n>>
    OBVIOUS
  <2>2. new \in Seq(Nat) /\ Len(new) = 1 /\ new[1] = n
    BY <2>1
  <2>3. new \in Line /\ Fits(new)
    BY <1>0, <1>4, <2>2, FitsBy
  <2>4. PICK more : more = Append(lines, new)
    OBVIOUS
  <2>5. pq = WithGlyph(pg, n, m1, more)
    BY <1>1, <1>2, <1>4, <1>5, <1>7, <2>1, <2>4 DEF Typed
  <2>6. /\ more \in Seq(Line) /\ Len(more) = m1 /\ more[m1] = new
        /\ \A i \in 1 .. m : more[i] = lines[i]
    <3>1. Len(lines) = m /\ m1 = m + 1 /\ lines \in Seq(Line)
      BY <1>1, <1>5
    <3> QED BY <2>3, <2>4, <3>1, AppendProperties
  <2>7. \A i \in 1 .. m1 : Fits(more[i])
    BY <1>1, <1>5, <2>3, <2>6
  <2>8. IsPage(pq) /\ pq.lines = more /\ Scrolls(pg, pq, n, m1)
    <3>1. m1 = Len(more) /\ more \in Seq(Line)
      BY <2>6
    <3>2. m1 \in Nat /\ pg.top \in Nat /\ pg.cut \in SUBSET Nat /\ pg.top < m1
      BY <1>1, <1>5
    <3> QED BY <1>0, <2>5, <2>7, <3>1, <3>2, GlyphIsPage
  <2>9. LineOf(pq) = m1 /\ ReachOf(pq) = 1
    BY <2>2, <2>6, <2>8 DEF LineOf, ReachOf
  <2>10. ASSUME NEW i, NEW j, NEW k
         PROVE  Cell(pq, i, j, k) <=> Cell(pg, i, j, k) \/ (i = m1 /\ j = 1 /\ k = n)
    <3>1. CASE i = m1
      <4>1. Cell(pq, i, j, k) <=> j \in 1 .. 1 /\ k = new[j]
        <5>1. Len(pq.lines) = m1 /\ pq.lines[i] = new /\ Len(new) = 1
          BY <2>2, <2>6, <2>8, <3>1
        <5>2. i \in 1 .. m1
          BY <1>1, <1>5, <3>1
        <5> QED BY <5>1, <5>2 DEF Cell
      <4>2. ~Cell(pg, i, j, k)
        BY <1>1, <1>5, <3>1 DEF Cell
      <4>3. j \in 1 .. 1 <=> j = 1
        OBVIOUS
      <4> QED BY <2>2, <3>1, <4>1, <4>2, <4>3
    <3>2. CASE i # m1
      <4>1. i \in 1 .. m1 <=> i \in 1 .. m
        BY <1>1, <1>5, <3>2
      <4> QED BY <1>1, <2>6, <2>8, <3>2, <4>1 DEF Cell
    <3> QED BY <3>1, <3>2
  <2>11. Adds(pg, pq, n, m1, 1)
    BY <2>8, <2>9, <2>10 DEF Adds
  <2> QED BY <1>3, <1>4, <1>5, <1>7, <2>11
<1> QED BY <1>4, <1>6, <1>7

-----------------------------------------------------------------------------
(* What the screen shows.                                                  *)

InCell(x, y, i, j) ==
  x \in Col(j) .. Col(j) + CharWidth - 1 /\ y \in Row(i) .. Row(i) + CharHeight - 1

(* A character on a line below "top" colours the pixel.                    *)
PixelOf(pg, top, x, y, k) ==
  \E i, j : Cell(pg, i, j, k) /\ i > top /\ InCell(x, y, i - top, j)

(* On the screen are the characters that were not cut,                     *)
Shows(pg, pixels) ==
  \A x \in Int, y \in Int : y >= Margin =>
    \A k : k \notin pg.cut => (<<x, y, k>> \in pixels <=> PixelOf(pg, pg.top, x, y, k))

(* and these are not below its foot.                                       *)
AboveFoot(pg) == \A i, j, k : Cell(pg, i, j, k) /\ k \notin pg.cut => i - pg.top <= Rows

CursorAt(pg, x, y) == x = Col(ReachOf(pg) + 1) /\ y = Row(LineOf(pg) - pg.top)

TailInv ==
  Ordinary => /\ IsPage(Page) /\ AboveFoot(Page)
              /\ CursorAt(Page, cursor_x, cursor_y) /\ Shows(Page, screen)

(* Cells do not overlap.                                                   *)
LEMMA CellsApart ==
  ASSUME NEW x \in Int, NEW y \in Int, NEW i \in Nat, NEW j \in Nat,
         NEW k \in Nat, NEW l \in Nat, InCell(x, y, i, j), InCell(x, y, k, l)
  PROVE  i = k /\ j = l
<1>1. /\ Col(j) \in Int /\ Col(l) \in Int /\ Row(i) \in Int /\ Row(k) \in Int
      /\ Col(j) <= x /\ x < Col(j) + CharWidth /\ Col(l) <= x /\ x < Col(l) + CharWidth
      /\ Row(i) <= y /\ y < Row(i) + CharHeight /\ Row(k) <= y /\ y < Row(k) + CharHeight
  <2>1. \A b \in Nat : Col(b) \in Int
    BY ColumnFacts
  <2>2. \A b \in Nat : Row(b) \in Int
    BY RowFacts
  <2> QED BY <2>1, <2>2, Sizes DEF InCell
<1>2. PICK w \in Nat, h \in Nat : w = CharWidth /\ h = CharHeight
  BY Sizes
<1>3. ASSUME NEW m \in Nat, NEW n \in Nat, m < n
      PROVE  Col(m) + w <= Col(n) /\ Row(m) + h <= Row(n)
  <2>1. \A b \in Nat, c \in Nat : b < c => Col(b) + CharWidth <= Col(c)
    BY ColumnFacts
  <2>2. \A b \in Nat, c \in Nat : b < c => Row(b) + CharHeight <= Row(c)
    BY RowFacts
  <2> QED BY <1>2, <1>3, <2>1, <2>2
<1>4. ~(j < l)
  BY <1>1, <1>2, <1>3
<1>5. ~(l < j)
  BY <1>1, <1>2, <1>3
<1>6. ~(i < k)
  BY <1>1, <1>2, <1>3
<1>7. ~(k < i)
  BY <1>1, <1>2, <1>3
<1> QED BY <1>4, <1>5, <1>6, <1>7

(* A cell of the grid is on the screen, below the margin.                  *)
LEMMA CellOnScreen ==
  ASSUME NEW x \in Int, NEW y \in Int, NEW i \in Nat, NEW j \in Nat,
         i >= 1, i <= Rows, j >= 1, j <= Columns
  PROVE  /\ <<x, y>> \in Rect(Col(j), Row(i)) <=> InCell(x, y, i, j)
         /\ InCell(x, y, i, j) => y >= Margin /\ <<x, y>> \in OnScreen
<1>1. Col(j) \in Int /\ Col(j) >= Margin /\ Col(j) + CharWidth < Width
  BY ColumnFacts
<1>2. Row(i) \in Int /\ Row(i) >= Margin /\ Row(i) + CharHeight < Height
  BY RowFacts
<1>3. <<x, y>> \in Rect(Col(j), Row(i)) <=> InCell(x, y, i, j)
  BY DEF Rect, InCell
<1>4. ASSUME InCell(x, y, i, j)
      PROVE  /\ Col(j) <= x /\ x < Col(j) + CharWidth
             /\ Row(i) <= y /\ y < Row(i) + CharHeight
  BY <1>1, <1>2, <1>4, Sizes DEF InCell
<1>5. InCell(x, y, i, j) => y >= Margin /\ x \in 0 .. Width - 1 /\ y \in 0 .. Height - 1
  BY <1>1, <1>2, <1>4, Sizes
<1> QED BY <1>3, <1>5 DEF OnScreen

(* A pixel after a character is drawn, filled over, or moved up a line.    *)
LEMMA PixelSteps ==
  ASSUME NEW pixels, NEW n, NEW x \in Int, NEW y \in Int, NEW k
  PROVE  /\ \A u, v : <<x, y, k>> \in fb_draw_char(pixels, n, u, v) <=>
              <<x, y, k>> \in pixels \/ (k = n /\ <<x, y>> \in Rect(u, v) \cap OnScreen)
         /\ \A u, v : <<x, y, k>> \in fb_fill_rect(pixels, u, v) <=>
              <<x, y, k>> \in pixels /\ <<x, y>> \notin Rect(u, v)
         /\ \A m \in Nat : pixels \subseteq Pixels(m) /\ y >= 0 =>
              (<<x, y, k>> \in Scrolled(pixels) <=> <<x, y + CharHeight, k>> \in pixels)
<1>1. ASSUME NEW u, NEW v
      PROVE  <<x, y, k>> \in fb_draw_char(pixels, n, u, v) <=>
               <<x, y, k>> \in pixels \/ (k = n /\ <<x, y>> \in Rect(u, v) \cap OnScreen)
  <2>1. \A p \in Rect(u, v) \cap OnScreen : p = <<p[1], p[2]>>
    BY DEF OnScreen
  <2>2. ASSUME NEW p \in Rect(u, v) \cap OnScreen, <<x, y, k>> = <<p[1], p[2], n>>
        PROVE  k = n /\ <<x, y>> \in Rect(u, v) \cap OnScreen
    <3>1. x = p[1] /\ y = p[2] /\ k = n
      BY <2>2
    <3> QED BY <2>1, <3>1
  <2>3. ASSUME k = n, <<x, y>> \in Rect(u, v) \cap OnScreen
        PROVE  \E p \in Rect(u, v) \cap OnScreen : <<x, y, k>> = <<p[1], p[2], n>>
    <3>1. PICK p : p = <<x, y>>
      OBVIOUS
    <3>2. p[1] = x /\ p[2] = y
      BY <3>1
    <3> QED BY <2>3, <3>1, <3>2
  <2>4. <<x, y, k>> \in fb_draw_char(pixels, n, u, v) <=>
          <<x, y, k>> \in pixels
            \/ \E p \in Rect(u, v) \cap OnScreen : <<x, y, k>> = <<p[1], p[2], n>>
    BY DEF fb_draw_char
  <2> QED BY <2>2, <2>3, <2>4
<1>2. ASSUME NEW u, NEW v
      PROVE  <<x, y, k>> \in fb_fill_rect(pixels, u, v) <=>
               <<x, y, k>> \in pixels /\ <<x, y>> \notin Rect(u, v)
  <2>1. PICK p : p = <<x, y, k>>
    OBVIOUS
  <2>2. p[1] = x /\ p[2] = y
    BY <2>1
  <2> QED BY <2>1, <2>2 DEF fb_fill_rect
<1>3. ASSUME NEW m \in Nat, pixels \subseteq Pixels(m), y >= 0
      PROVE  <<x, y, k>> \in Scrolled(pixels) <=> <<x, y + CharHeight, k>> \in pixels
  <2>1. PICK up \in Int : up = y + CharHeight /\ up >= CharHeight /\ up - CharHeight = y
    BY <1>3, Sizes
  <2>2. ASSUME <<x, up, k>> \in pixels PROVE <<x, y, k>> \in Scrolled(pixels)
    <3>1. PICK q : q = <<x, up, k>>
      OBVIOUS
    <3>2. q \in pixels /\ q[1] = x /\ q[2] = up /\ q[3] = k
      BY <2>2, <3>1
    <3>3. <<q[1], q[2] - CharHeight, q[3]>> = <<x, y, k>>
      BY <2>1, <3>2
    <3> QED BY <2>1, <3>2, <3>3 DEF Scrolled
  <2>3. ASSUME <<x, y, k>> \in Scrolled(pixels) PROVE <<x, up, k>> \in pixels
    <3>1. PICK q \in pixels : <<x, y, k>> = <<q[1], q[2] - CharHeight, q[3]>>
      BY <2>3 DEF Scrolled
    <3>2. q = <<q[1], q[2], q[3]>> /\ q[2] \in 0 .. Height - 1
      BY <1>3, PixelFacts
    <3>3. x = q[1] /\ y = q[2] - CharHeight /\ k = q[3]
      BY <3>1
    <3>4. q[2] = up
      BY <2>1, <3>2, <3>3, Sizes
    <3> QED BY <3>2, <3>3, <3>4
  <2> QED BY <2>1, <2>2, <2>3
<1> QED BY <1>1, <1>2, <1>3

(* Where the characters of the screen are.                                 *)
LEMMA OnTheGrid ==
  ASSUME NEW pg, IsPage(pg), NEW i, NEW j, NEW k, Cell(pg, i, j, k), i > pg.top
  PROVE  /\ i \in Nat /\ j \in Nat /\ i - pg.top \in Nat
         /\ i - pg.top >= 1 /\ j >= 1 /\ j <= Columns
<1>1. PICK m \in Nat, top \in Nat : top = pg.top /\ i \in 1 .. m /\ j \in 1 .. Columns
  BY PageView
<1>2. Columns \in Nat
  BY ColumnFacts
<1> QED BY <1>1, <1>2

(* A newline goes to the left margin, a line further down.                 *)
LEMMA TailNewline ==
  ASSUME NEW pg, IsPage(pg), AboveFoot(pg), NEW n \in Nat,
         NEW pq, pq = Typed(pg, n, "newline"),
         NEW x, NEW y, CursorAt(pg, x, y), NEW pixels, Shows(pg, pixels)
  PROVE  /\ IsPage(pq) /\ AboveFoot(pq)
         /\ CursorAt(pq, Margin, y + CharHeight) /\ Shows(pq, pixels)
<1>1. /\ IsPage(pq) /\ pq.top = pg.top /\ pq.cut = pg.cut
      /\ LineOf(pq) = LineOf(pg) + 1 /\ ReachOf(pq) = 0
      /\ \A i, j, k : Cell(pq, i, j, k) <=> Cell(pg, i, j, k)
  BY TypedNewline
<1>2. PICK m \in Nat, top \in Nat, d \in Nat :
        m = LineOf(pg) /\ top = pg.top /\ d = m - top
  BY PageView
<1>3. AboveFoot(pq) /\ Shows(pq, pixels)
  BY <1>1 DEF AboveFoot, Shows, PixelOf
<1>4. Row(d) = y /\ Row(d + 1) = y + CharHeight
  BY <1>2, RowFacts DEF CursorAt
<1>5. LineOf(pq) - pq.top = d + 1
  BY <1>1, <1>2
<1>6. Col(ReachOf(pq) + 1) = Margin
  BY <1>1, ColumnFacts
<1> QED BY <1>1, <1>3, <1>4, <1>5, <1>6 DEF CursorAt

(* A backspace takes back what stands left of the cursor.                  *)
LEMMA TailBackspace ==
  ASSUME NEW pg, IsPage(pg), AboveFoot(pg), NEW n \in Nat,
         NEW pq, pq = Typed(pg, n, "backspace"),
         NEW x, NEW y, CursorAt(pg, x, y), NEW pixels, Shows(pg, pixels)
  PROVE  /\ IsPage(pq) /\ AboveFoot(pq)
         /\ x > Margin => /\ CursorAt(pq, x - CharWidth, y)
                          /\ Shows(pq, fb_fill_rect(pixels, x - CharWidth, y))
         /\ ~(x > Margin) => CursorAt(pq, x, y) /\ Shows(pq, pixels)
<1>1. PICK m \in Nat, r \in Nat, top \in Nat :
        /\ m = LineOf(pg) /\ r = ReachOf(pg) /\ top = pg.top /\ r <= Columns
        /\ m - top \in Nat /\ m - top >= 1
  BY PageView
<1>2. PICK d \in Nat : d = m - top /\ d >= 1
  BY <1>1
<1>3. x = Col(r + 1) /\ y = Row(d)
  BY <1>1, <1>2 DEF CursorAt
<1>4. CASE r = 0
  <2>1. pq = pg
    BY <1>1, <1>4, TypedBackspace
  <2>2. ~(x > Margin)
    BY <1>3, <1>4, ColumnFacts, Sizes
  <2> QED BY <2>1, <2>2
<1>5. CASE r # 0
  <2>1. /\ IsPage(pq) /\ pq.top = top /\ pq.cut = pg.cut
        /\ LineOf(pq) = m /\ ReachOf(pq) = r - 1
        /\ \A i, j, k : Cell(pq, i, j, k) <=> Cell(pg, i, j, k) /\ ~(i = m /\ j = r)
    BY <1>1, <1>5, TypedBackspace
  <2>2. Col(r) \in Int /\ Col(r + 1) = Col(r) + CharWidth /\ Col(r) >= Margin
    BY <1>5, ColumnFacts
  <2>3. x > Margin /\ x - CharWidth = Col(r)
    BY <1>3, <2>2, Sizes
  <2>4. AboveFoot(pq)
    BY <1>1, <2>1 DEF AboveFoot
  <2>5. CursorAt(pq, x - CharWidth, y)
    <3>1. ReachOf(pq) + 1 = r
      BY <2>1
    <3> QED BY <1>2, <1>3, <2>1, <2>3, <3>1 DEF CursorAt
  <2>6. ASSUME NEW u \in Int, NEW v \in Int, v >= Margin, NEW k, k \notin pg.cut
        PROVE  <<u, v, k>> \in fb_fill_rect(pixels, Col(r), Row(d)) <=>
                 PixelOf(pq, top, u, v, k)
    <3>1. <<u, v>> \in Rect(Col(r), Row(d)) <=> InCell(u, v, d, r)
      BY DEF Rect, InCell
    <3>2. <<u, v, k>> \in pixels <=> PixelOf(pg, top, u, v, k)
      BY <1>1, <2>6 DEF Shows
    <3>3. ASSUME PixelOf(pg, top, u, v, k), ~InCell(u, v, d, r)
          PROVE  PixelOf(pq, top, u, v, k)
      <4>1. PICK i, j : Cell(pg, i, j, k) /\ i > top /\ InCell(u, v, i - top, j)
        BY <3>3 DEF PixelOf
      <4>2. ~(i = m /\ j = r)
        BY <1>2, <3>3, <4>1
      <4> QED BY <2>1, <4>1, <4>2 DEF PixelOf
    <3>4. ASSUME PixelOf(pq, top, u, v, k)
          PROVE  PixelOf(pg, top, u, v, k) /\ ~InCell(u, v, d, r)
      <4>1. PICK i, j : Cell(pq, i, j, k) /\ i > top /\ InCell(u, v, i - top, j)
        BY <3>4 DEF PixelOf
      <4>2. Cell(pg, i, j, k) /\ ~(i = m /\ j = r)
        BY <2>1, <4>1
      <4>3. PICK e \in Nat : e = i - top /\ i \in Nat /\ j \in Nat
        BY <1>1, <4>1, <4>2, OnTheGrid
      <4>4. ~(e = d /\ j = r)
        BY <1>2, <4>2, <4>3
      <4>5. ~InCell(u, v, d, r)
        BY <4>1, <4>3, <4>4, CellsApart
      <4> QED BY <4>1, <4>2, <4>5 DEF PixelOf
    <3> QED BY <3>1, <3>2, <3>3, <3>4, PixelSteps
  <2>7. Shows(pq, fb_fill_rect(pixels, x - CharWidth, y))
    BY <1>3, <2>1, <2>3, <2>6 DEF Shows
  <2> QED BY <2>1, <2>3, <2>4, <2>5, <2>7
<1> QED BY <1>4, <1>5

(* A page with one more character, after that is drawn where it goes, or   *)
(* what of it is on the screen when it is cut.                             *)
LEMMA ShowsOneMore ==
  ASSUME NEW pg, NEW pq, NEW n, NEW m \in Nat, NEW j \in Nat, Adds(pg, pq, n, m, j),
         NEW top \in Nat, top = pq.top, NEW d \in Nat, d = m - top,
         d >= 1, d <= Rows \/ n \in pq.cut, j >= 1, j <= Columns,
         NEW pixels,
         \A u \in Int, v \in Int : v >= Margin =>
           \A k : k \notin pg.cut => (<<u, v, k>> \in pixels <=> PixelOf(pg, top, u, v, k))
  PROVE  Shows(pq, fb_draw_char(pixels, n, Col(j), Row(d)))
<1>1. \A i, l, k : Cell(pq, i, l, k) <=> Cell(pg, i, l, k) \/ (i = m /\ l = j /\ k = n)
  BY DEF Adds
<1>2. ASSUME NEW u \in Int, NEW v \in Int, v >= Margin, NEW k, k \notin pq.cut
      PROVE  <<u, v, k>> \in fb_draw_char(pixels, n, Col(j), Row(d)) <=>
               PixelOf(pq, top, u, v, k)
  <2>1. k = n => (<<u, v>> \in Rect(Col(j), Row(d)) \cap OnScreen <=> InCell(u, v, d, j))
    BY <1>2, CellOnScreen
  <2>2. <<u, v, k>> \in pixels <=> PixelOf(pg, top, u, v, k)
    <3>1. k \notin pg.cut
      BY <1>2 DEF Adds, Scrolls
    <3> QED BY <1>2, <3>1
  <2>3. PixelOf(pg, top, u, v, k) => PixelOf(pq, top, u, v, k)
    BY <1>1 DEF PixelOf
  <2>4. ASSUME k = n, InCell(u, v, d, j) PROVE PixelOf(pq, top, u, v, k)
    <3>1. Cell(pq, m, j, k) /\ m > top /\ InCell(u, v, m - top, j)
      BY <1>1, <2>4
    <3> QED BY <3>1 DEF PixelOf
  <2>5. ASSUME PixelOf(pq, top, u, v, k)
        PROVE  PixelOf(pg, top, u, v, k) \/ (k = n /\ InCell(u, v, d, j))
    <3>1. PICK i, l : Cell(pq, i, l, k) /\ i > top /\ InCell(u, v, i - top, l)
      BY <2>5 DEF PixelOf
    <3>2. CASE Cell(pg, i, l, k)
      BY <3>1, <3>2 DEF PixelOf
    <3>3. CASE i = m /\ l = j /\ k = n
      BY <3>1, <3>3
    <3> QED BY <1>1, <3>1, <3>2, <3>3
  <2>6. <<u, v, k>> \in fb_draw_char(pixels, n, Col(j), Row(d)) <=>
          <<u, v, k>> \in pixels \/ (k = n /\ <<u, v>> \in Rect(Col(j), Row(d)) \cap OnScreen)
    BY PixelSteps
  <2> QED BY <2>1, <2>2, <2>3, <2>4, <2>5, <2>6
<1> QED BY <1>2 DEF Shows

(* What is on the screen below its first line, one line higher.            *)
LEMMA ShowsScrolled ==
  ASSUME NEW pg, IsPage(pg), NEW top \in Nat, top = pg.top,
         NEW n \in Nat, NEW pixels, pixels \subseteq Pixels(n), Shows(pg, pixels),
         NEW u \in Int, NEW v \in Int, v >= Margin, NEW k, k \notin pg.cut
  PROVE  <<u, v, k>> \in Scrolled(pixels) <=> PixelOf(pg, top + 1, u, v, k)
<1>1. PICK c \in Int : c = v + CharHeight /\ c >= Margin + CharHeight /\ v >= 0
  BY Sizes
<1>2. <<u, v, k>> \in Scrolled(pixels) <=> <<u, c, k>> \in pixels
  BY <1>1, PixelSteps
<1>3. <<u, c, k>> \in pixels <=> PixelOf(pg, top, u, c, k)
  <2>1. c >= Margin
    BY <1>1, Sizes
  <2> QED BY <2>1 DEF Shows
<1>4. ASSUME NEW d \in Nat, NEW j PROVE InCell(u, c, d + 1, j) <=> InCell(u, v, d, j)
  <2>1. Row(d) \in Int /\ Row(d + 1) = Row(d) + CharHeight
    BY RowFacts
  <2>2. c \in Row(d + 1) .. Row(d + 1) + CharHeight - 1 <=>
          v \in Row(d) .. Row(d) + CharHeight - 1
    BY <1>1, <2>1, Sizes
  <2> QED BY <2>2 DEF InCell
<1>5. ASSUME PixelOf(pg, top, u, c, k) PROVE PixelOf(pg, top + 1, u, v, k)
  <2>1. PICK i, j : Cell(pg, i, j, k) /\ i > top /\ InCell(u, c, i - top, j)
    BY <1>5 DEF PixelOf
  <2>2. i \in Nat
    BY <2>1, OnTheGrid
  <2>3. i # top + 1
    <3>1. ASSUME InCell(u, c, 1, j) PROVE FALSE
      BY <1>1, <3>1, RowFacts, Sizes DEF InCell
    <3> QED BY <2>1, <3>1
  <2>4. PICK d \in Nat : d = i - (top + 1) /\ i - top = d + 1
    BY <2>1, <2>2, <2>3
  <2>5. InCell(u, v, d, j)
    BY <1>4, <2>1, <2>4
  <2>6. i > top + 1
    BY <2>1, <2>2, <2>3
  <2> QED BY <2>1, <2>4, <2>5, <2>6 DEF PixelOf
<1>6. ASSUME PixelOf(pg, top + 1, u, v, k) PROVE PixelOf(pg, top, u, c, k)
  <2>1. PICK i, j : Cell(pg, i, j, k) /\ i > top + 1 /\ InCell(u, v, i - (top + 1), j)
    BY <1>6 DEF PixelOf
  <2>2. i \in Nat
    <3>1. PICK m \in Nat : i \in 1 .. m
      BY <2>1, PageView
    <3> QED BY <3>1
  <2>3. PICK d \in Nat : d = i - (top + 1) /\ i - top = d + 1 /\ i > top
    BY <2>1, <2>2
  <2>4. InCell(u, c, i - top, j)
    BY <1>4, <2>1, <2>3
  <2> QED BY <2>1, <2>3, <2>4 DEF PixelOf
<1> QED BY <1>2, <1>3, <1>5, <1>6

(* A glyph goes behind the last character, or where a new line begins; at  *)
(* the foot of the screen everything moves up first.                       *)
LEMMA TailGlyph ==
  ASSUME NEW pg, IsPage(pg), AboveFoot(pg), NEW n \in Nat, NEW pq, pq = Typed(pg, n, "glyph"),
         NEW x \in Int, NEW y \in Int, CursorAt(pg, x, y),
         NEW size \in Nat, NEW pixels, pixels \subseteq Pixels(size), Shows(pg, pixels),
         NEW ax, ax = (IF x + CharWidth >= Width THEN Margin ELSE x),
         NEW ay, ay = (IF x + CharWidth >= Width THEN y + CharHeight ELSE y)
  PROVE  /\ IsPage(pq) /\ AboveFoot(pq)
         /\ ay + CharHeight < Height =>
              /\ CursorAt(pq, ax + CharWidth, ay)
              /\ Shows(pq, fb_draw_char(pixels, n, ax, ay))
         /\ ~(ay + CharHeight < Height) =>
              /\ CursorAt(pq, ax + CharWidth, ay - CharHeight)
              /\ Shows(pq, fb_draw_char(Scrolled(pixels), n, ax, ay - CharHeight))
<1>1. PICK m \in Nat, r \in Nat, top \in Nat :
        /\ m = LineOf(pg) /\ r = ReachOf(pg) /\ top = pg.top
        /\ m - top \in Nat /\ m - top >= 1 /\ r <= Columns
        /\ \A i, j, k : Cell(pg, i, j, k) => i \in 1 .. m
  BY PageView
<1>2. x = Col(r + 1) /\ y = Row(m - top)
  BY <1>1 DEF CursorAt
<1>3. PICK columns \in Nat, rows \in Nat :
        columns = Columns /\ rows = Rows /\ columns >= 1 /\ rows >= 1
  BY ColumnFacts, RowFacts
<1>4. PICK now \in Nat, j \in Nat, d \in Nat :
        /\ Adds(pg, pq, n, now, j) /\ j >= 1 /\ j <= columns
        /\ d = now - top /\ d >= 1 /\ ax = Col(j) /\ ay = Row(d)
  <2>1. x + CharWidth < Width <=> r + 1 <= columns
    BY <1>2, <1>3, ColumnFacts
  <2>2. x + CharWidth \in Int /\ Width \in Int
    BY Sizes
  <2>3. CASE r < columns
    <3>1. PICK j \in Nat : j = r + 1 /\ j >= 1 /\ j <= columns
      BY <2>3
    <3>2. Adds(pg, pq, n, m, j)
      BY <1>1, <1>3, <2>3, <3>1, TypedGlyph
    <3>3. ax = x /\ ay = y
      BY <2>1, <2>2, <3>1
    <3> QED BY <1>1, <1>2, <3>1, <3>2, <3>3
  <2>4. CASE ~(r < columns)
    <3>1. PICK now \in Nat, d \in Nat :
            now = m + 1 /\ d = m - top /\ now - top = d + 1 /\ d + 1 \in Nat /\ d + 1 >= 1
      BY <1>1
    <3>2. Adds(pg, pq, n, now, 1)
      BY <1>1, <1>3, <2>4, <3>1, TypedGlyph
    <3>3. ax = Margin /\ ay = y + CharHeight
      BY <2>1, <2>2, <2>4
    <3>4. ax = Col(1) /\ ay = Row(d + 1)
      BY <1>2, <3>1, <3>3, ColumnFacts, RowFacts
    <3> QED BY <1>3, <3>1, <3>2, <3>4
  <2> QED BY <2>3, <2>4
<1>5. /\ IsPage(pq) /\ LineOf(pq) = now /\ ReachOf(pq) = j
      /\ pq.top = IF now > top + rows THEN top + 1 ELSE top
      /\ pq.cut = IF now > pq.top + rows THEN pg.cut \cup {n} ELSE pg.cut
      /\ \A i, l, k : Cell(pq, i, l, k) => Cell(pg, i, l, k) \/ (i = now /\ k = n)
  BY <1>1, <1>3, <1>4 DEF Adds, Scrolls
<1>6. AboveFoot(pq)
  <2> SUFFICES ASSUME NEW i, NEW l, NEW k, Cell(pq, i, l, k), k \notin pq.cut
               PROVE  i - pq.top <= rows
    BY <1>3 DEF AboveFoot
  <2>1. pq.top \in Nat /\ pq.top >= top /\ k \notin pg.cut
    BY <1>5
  <2>2. CASE Cell(pg, i, l, k)
    <3>1. i \in Nat /\ i - top <= rows
      BY <1>1, <1>3, <2>1, <2>2 DEF AboveFoot
    <3> QED BY <1>1, <2>1, <3>1
  <2>3. CASE i = now /\ k = n
    <3>1. ~(now > pq.top + rows)
      BY <1>5, <2>3
    <3> QED BY <2>1, <2>3, <3>1
  <2> QED BY <1>5, <2>2, <2>3
<1>7. Col(j + 1) = ax + CharWidth
  BY <1>4, ColumnFacts
<1>8. ay + CharHeight < Height <=> d <= rows
  BY <1>3, <1>4, RowFacts
<1>9. CASE d <= rows
  <2>1. pq.top = top
    BY <1>3, <1>4, <1>5, <1>9
  <2>2. CursorAt(pq, ax + CharWidth, ay)
    BY <1>4, <1>5, <1>7, <2>1 DEF CursorAt
  <2>3. \A u \in Int, v \in Int : v >= Margin =>
           \A k : k \notin pg.cut => (<<u, v, k>> \in pixels <=> PixelOf(pg, top, u, v, k))
    BY <1>1 DEF Shows
  <2>4. Shows(pq, fb_draw_char(pixels, n, Col(j), Row(d)))
    BY <1>3, <1>4, <1>9, <2>1, <2>3, ShowsOneMore
  <2> QED BY <1>4, <1>5, <1>6, <1>8, <1>9, <2>2, <2>4
<1>10. CASE ~(d <= rows)
  <2>1. pq.top = top + 1
    BY <1>3, <1>4, <1>5, <1>10
  <2>2. PICK e \in Nat, t \in Nat : d = e + 1 /\ t = top + 1 /\ e = now - t /\ e >= 1
    BY <1>3, <1>4, <1>10
  <2>3. Row(e) = ay - CharHeight
    <3>1. Row(e) \in Int /\ Row(e + 1) = Row(e) + CharHeight
      BY RowFacts
    <3>2. ay = Row(e + 1)
      BY <1>4, <2>2
    <3> QED BY <3>1, <3>2, Sizes
  <2>4. CursorAt(pq, ax + CharWidth, ay - CharHeight)
    BY <1>5, <1>7, <2>1, <2>2, <2>3 DEF CursorAt
  <2>5. e <= rows \/ n \in pq.cut
    <3>1. CASE now > t + rows
      BY <1>5, <2>1, <2>2, <3>1
    <3>2. CASE ~(now > t + rows)
      BY <2>2, <3>2
    <3> QED BY <3>1, <3>2
  <2>6. \A u \in Int, v \in Int : v >= Margin =>
           \A k : k \notin pg.cut =>
             (<<u, v, k>> \in Scrolled(pixels) <=> PixelOf(pg, t, u, v, k))
    BY <1>1, <2>2, ShowsScrolled
  <2>7. t = pq.top
    BY <2>1, <2>2
  <2>8. PICK moved : moved = Scrolled(pixels)
    OBVIOUS
  <2>9. Shows(pq, fb_draw_char(moved, n, Col(j), Row(e)))
    BY <1>3, <1>4, <2>2, <2>5, <2>6, <2>7, <2>8, ShowsOneMore
  <2> QED BY <1>4, <1>5, <1>6, <1>8, <1>10, <2>3, <2>4, <2>8, <2>9
<1> QED BY <1>9, <1>10

-----------------------------------------------------------------------------
(* The invariant of the text.                                              *)

(* What an ordinary text was before its last character.                    *)
LEMMA OrdinaryBefore ==
  ASSUME GridInv, NEW kind, putchar(kind), Ordinary'
  PROVE  /\ Ordinary /\ text' = Append(text, kind) /\ Len(text) \in Nat
         /\ kind \in {"newline", "backspace", "glyph"}
<1> DEFINE Kinds == {"newline", "return", "tab", "backspace", "glyph"}
<1>1. text \in Seq(Kinds)
  BY DEF GridInv, ConsoleTypeOK
<1>2. PICK n \in Nat : n = Len(text)
  BY <1>1, LenProperties
<1>3. kind \in Kinds /\ text' = Append(text, kind)
  BY DEF putchar, newline, carriage_return, tab, backspace, glyph, Printed
<1>4. PICK long : long = text'
  OBVIOUS
<1>5. /\ DOMAIN text = 1 .. n /\ DOMAIN long = 1 .. n + 1
      /\ long[n + 1] = kind /\ \A i \in 1 .. n : long[i] = text[i]
  BY <1>1, <1>2, <1>3, <1>4, AppendProperties, LenProperties
<1>6. \A i \in 1 .. n + 1 : long[i] \notin {"return", "tab"}
  BY <1>4, <1>5 DEF Ordinary
<1>7. Ordinary
  BY <1>5, <1>6 DEF Ordinary
<1>8. kind \in {"newline", "backspace", "glyph"}
  <2>1. n + 1 \in 1 .. n + 1
    OBVIOUS
  <2> QED BY <1>3, <1>5, <1>6, <2>1
<1> QED BY <1>2, <1>3, <1>7, <1>8

(* A cleared screen.                                                       *)
LEMMA ClearedTail ==
  /\ CursorAt(Blank, Margin, Margin) /\ Shows(Blank, {})
  /\ IsPage(Blank) /\ AboveFoot(Blank) /\ PageOf(<<>>) = Blank
<1>1. /\ IsPage(Blank) /\ Blank.top = 0 /\ LineOf(Blank) = 1 /\ ReachOf(Blank) = 0
      /\ \A i, j, k : ~Cell(Blank, i, j, k)
  BY BlankIsPage
<1>3. CursorAt(Blank, Margin, Margin)
  BY <1>1, ColumnFacts, RowFacts DEF CursorAt
<1>4. Shows(Blank, {}) /\ AboveFoot(Blank)
  BY <1>1 DEF Shows, PixelOf, AboveFoot
<1>5. PageOf(<<>>) = Blank
  <2>1. PICK S : S = {0}
    OBVIOUS
  <2>2. 0 \in S /\ <<>> \in Seq(S)
    BY <2>1, EmptySeq
  <2> QED BY <2>2, PageStep
<1> QED BY <1>1, <1>3, <1>4, <1>5

(* Each character keeps the invariant.                                     *)
LEMMA TailPutchar ==
  ASSUME GridInv, TailInv, NEW kind, putchar(kind)
  PROVE  TailInv'
<1> SUFFICES ASSUME Ordinary'
             PROVE  /\ IsPage(Page') /\ AboveFoot(Page')
                    /\ CursorAt(Page', cursor_x', cursor_y') /\ Shows(Page', screen')
  BY DEF TailInv
<1>1. /\ Ordinary /\ text' = Append(text, kind) /\ Len(text) \in Nat
      /\ kind \in {"newline", "backspace", "glyph"}
  BY OrdinaryBefore
<1>2. PICK pg : /\ pg = Page /\ IsPage(pg) /\ AboveFoot(pg)
                /\ CursorAt(pg, cursor_x, cursor_y) /\ Shows(pg, screen)
  BY <1>1 DEF TailInv
<1>3. PICK size \in Nat, n \in Nat : size = Len(text) /\ n = size + 1
  BY <1>1
<1>4. PICK pq : pq = Typed(pg, n, kind)
  OBVIOUS
<1>5. Page' = pq /\ Len(text') = n
  <2>1. PICK Kinds : Kinds = {"newline", "return", "tab", "backspace", "glyph"}
    OBVIOUS
  <2>2. text \in Seq(Kinds) /\ kind \in Kinds
    BY <1>1, <2>1 DEF GridInv, ConsoleTypeOK
  <2>3. PICK old, new : old = text /\ new = text' /\ new = Append(old, kind)
    BY <1>1
  <2>4. PageOf(Append(old, kind)) = Typed(PageOf(old), Len(old) + 1, kind)
    BY <2>2, <2>3, PageStep
  <2>5. Len(new) = n
    BY <1>3, <2>2, <2>3, AppendProperties
  <2>6. Page' = PageOf(new) /\ Page = PageOf(old)
    BY <2>3 DEF Page
  <2> QED BY <1>2, <1>3, <1>4, <2>3, <2>4, <2>5, <2>6
<1>6. cursor_x \in Nat /\ cursor_y \in Nat /\ screen \subseteq Pixels(size)
  <2>1. DOMAIN text = 1 .. size
    BY <1>3, LenProperties DEF GridInv, ConsoleTypeOK
  <2> QED BY <2>1 DEF GridInv, ConsoleTypeOK, Pixels
<1>7. PICK x \in Nat, y \in Nat, pixels \in SUBSET Pixels(size) :
        x = cursor_x /\ y = cursor_y /\ pixels = screen
  BY <1>6
<1>8. CASE kind = "newline"
  <2>1. cursor_x' = Margin /\ cursor_y' = y + CharHeight /\ screen' = pixels
    BY <1>7, <1>8 DEF putchar, newline
  <2>2. /\ IsPage(pq) /\ AboveFoot(pq)
        /\ CursorAt(pq, Margin, y + CharHeight) /\ Shows(pq, pixels)
    BY <1>2, <1>4, <1>7, <1>8, TailNewline
  <2> QED BY <1>5, <2>1, <2>2
<1>9. CASE kind = "backspace"
  <2>1. /\ IsPage(pq) /\ AboveFoot(pq)
        /\ x > Margin => /\ CursorAt(pq, x - CharWidth, y)
                         /\ Shows(pq, fb_fill_rect(pixels, x - CharWidth, y))
        /\ ~(x > Margin) => CursorAt(pq, x, y) /\ Shows(pq, pixels)
    BY <1>2, <1>4, <1>7, <1>9, TailBackspace
  <2>2. CASE x > Margin
    <3>1. /\ cursor_x' = x - CharWidth /\ cursor_y' = y
          /\ screen' = fb_fill_rect(pixels, x - CharWidth, y)
      BY <1>7, <1>9, <2>2, Sizes DEF putchar, backspace
    <3> QED BY <1>5, <2>1, <2>2, <3>1
  <2>3. CASE ~(x > Margin)
    <3>1. cursor_x' = x /\ cursor_y' = y /\ screen' = pixels
      BY <1>7, <1>9, <2>3, Sizes DEF putchar, backspace
    <3> QED BY <1>5, <2>1, <2>3, <3>1
  <2> QED BY <2>2, <2>3
<1>10. CASE kind = "glyph"
  <2>1. PICK ax, ay :
          /\ ax = (IF x + CharWidth >= Width THEN Margin ELSE x)
          /\ ay = (IF x + CharWidth >= Width THEN y + CharHeight ELSE y)
    OBVIOUS
  <2>2. AtX = ax /\ AtY = ay
    BY <1>7, <2>1 DEF AtX, AtY, Wraps
  <2>3. /\ IsPage(pq) /\ AboveFoot(pq)
        /\ ay + CharHeight < Height =>
             /\ CursorAt(pq, ax + CharWidth, ay)
             /\ Shows(pq, fb_draw_char(pixels, n, ax, ay))
        /\ ~(ay + CharHeight < Height) =>
             /\ CursorAt(pq, ax + CharWidth, ay - CharHeight)
             /\ Shows(pq, fb_draw_char(Scrolled(pixels), n, ax, ay - CharHeight))
    BY <1>2, <1>4, <1>6, <1>7, <1>10, <2>1, TailGlyph
  <2>4. ay \in Int
    BY <2>1, Sizes
  <2>5. CASE ay + CharHeight < Height
    <3>1. /\ cursor_x' = ax + CharWidth /\ cursor_y' = ay
          /\ screen' = fb_draw_char(pixels, n, ax, ay)
      BY <1>5, <1>7, <1>10, <2>2, <2>4, <2>5, Sizes DEF putchar, glyph
    <3> QED BY <1>5, <2>3, <2>5, <3>1
  <2>6. CASE ~(ay + CharHeight < Height)
    <3>1. /\ cursor_x' = ax + CharWidth /\ cursor_y' = ay - CharHeight
          /\ screen' = fb_draw_char(Scrolled(pixels), n, ax, ay - CharHeight)
      BY <1>5, <1>7, <1>10, <2>2, <2>4, <2>6, Sizes DEF putchar, glyph
    <3> QED BY <1>5, <2>3, <2>6, <3>1
  <2> QED BY <2>5, <2>6
<1> QED BY <1>1, <1>8, <1>9, <1>10

(* Each action keeps the tail on the screen.                               *)
LEMMA TailStep == GridInv /\ TailInv /\ [Next]_vars => TailInv'
<1> SUFFICES ASSUME GridInv, TailInv, [Next]_vars PROVE TailInv'
  OBVIOUS
<1>1. CASE printf_clear
  <2>1. cursor_x' = Margin /\ cursor_y' = Margin /\ screen' = {} /\ text' = <<>>
    BY <1>1 DEF printf_clear
  <2>2. Page' = Blank
    BY <2>1, ClearedTail DEF Page
  <2> QED BY <2>1, <2>2, ClearedTail DEF TailInv
<1>2. CASE UNCHANGED consoleVars
  <2>1. /\ cursor_x' = cursor_x /\ cursor_y' = cursor_y /\ screen' = screen
        /\ text' = text
    BY <1>2 DEF consoleVars
  <2>2. Page' = Page /\ (Ordinary' <=> Ordinary)
    BY <2>1 DEF Page, Ordinary
  <2> QED BY <2>1, <2>2 DEF TailInv
<1> QED BY <1>1, <1>2, ConsoleStep, TailPutchar

(* The initial state is a cleared screen.                                  *)
LEMMA TailStart == Init => GridInv /\ TailInv
<1> SUFFICES ASSUME Init PROVE GridInv /\ TailInv
  OBVIOUS
<1>1. cursor_x = Margin /\ cursor_y = Margin /\ screen = {} /\ text = <<>>
  BY DEF Init, ConsoleInit
<1>2. 0 \in Nat /\ Margin = Margin + 0 * CharWidth /\ Margin \in Nat
  BY Sizes
<1>3. GridInv
  BY <1>1, <1>2 DEF GridInv, ConsoleTypeOK, OnGrid
<1>4. Page = Blank
  BY <1>1, ClearedTail DEF Page
<1> QED BY <1>1, <1>3, <1>4, ClearedTail DEF TailInv

(* The pixels of Shown are those of the characters below the top, without  *)
(* those that were cut.                                                    *)
LEMMA ShownPixels ==
  ASSUME IsPage(Page), NEW p
  PROVE  p \in Shown <=> \E x \in Int, y \in Int : \E k :
           p = <<x, y, k>> /\ k \notin Page.cut /\ PixelOf(Page, Page.top, x, y, k)
<1>1. PICK pg : pg = Page /\ IsPage(pg)
  OBVIOUS
<1>2. PICK m \in Nat, top \in Nat, c \in Nat : m = LineOf(pg) /\ top = pg.top /\ c = Columns
  BY <1>1, PageView, ColumnFacts
<1>4. PICK lines, cut : lines = pg.lines /\ cut = pg.cut
  OBVIOUS
<1>5. \A i \in 1 .. m : Len(lines[i]) \in Nat
  <2>1. PICK Line : Line = Seq(Nat)
    OBVIOUS
  <2>2. \A i \in 1 .. m : lines[i] \in Line
    BY <1>1, <1>2, <1>4, <2>1, PageFacts DEF LineOf
  <2> QED BY <2>1, <2>2, LenProperties
<1> DEFINE Spots == {ij \in (top + 1 .. m) \X (1 .. c) :
                       /\ ij[2] <= Len(lines[ij[1]])
                       /\ lines[ij[1]][ij[2]] \notin cut}
           Of(ij) == {<<q[1], q[2], lines[ij[1]][ij[2]]>> :
                        q \in Rect(Margin + (ij[2] - 1) * CharWidth,
                                   Margin + (ij[1] - top - 1) * CharHeight)}
<1>6. Shown = UNION {Of(ij) : ij \in Spots}
  BY <1>1, <1>2, <1>4 DEF Shown, LineOf
<1>7. ASSUME NEW ij \in Spots, p \in Of(ij)
      PROVE  \E x \in Int, y \in Int : \E k :
               p = <<x, y, k>> /\ k \notin cut /\ PixelOf(pg, top, x, y, k)
  <2>1. PICK i \in Nat, j \in Nat :
          /\ i = ij[1] /\ j = ij[2] /\ i \in 1 .. m /\ i > top /\ j >= 1
          /\ j <= Len(lines[i]) /\ lines[i][j] \notin cut
    BY <1>2
  <2>2. PICK k : k = lines[i][j] /\ k \notin cut
    BY <2>1
  <2>3. Cell(pg, i, j, k)
    BY <1>2, <1>4, <1>5, <2>1, <2>2 DEF Cell, LineOf
  <2>4. PICK d \in Nat : d = i - top
    BY <2>1
  <2>5. PICK q \in Rect(Col(j), Row(d)) : p = <<q[1], q[2], k>>
    BY <1>7, <2>1, <2>2, <2>4 DEF Col, Row, Place
  <2>6. Col(j) \in Int /\ Row(d) \in Int /\ CharWidth \in Int /\ CharHeight \in Int
    BY ColumnFacts, RowFacts, Sizes
  <2>7. PICK x \in Int, y \in Int : x = q[1] /\ y = q[2] /\ InCell(x, y, d, j)
    BY <2>5, <2>6 DEF Rect, InCell
  <2>8. PixelOf(pg, top, x, y, k)
    BY <2>1, <2>3, <2>4, <2>7 DEF PixelOf
  <2> QED BY <2>2, <2>5, <2>7, <2>8
<1>8. ASSUME NEW x \in Int, NEW y \in Int, NEW k,
             p = <<x, y, k>>, k \notin cut, PixelOf(pg, top, x, y, k)
      PROVE  \E ij \in Spots : p \in Of(ij)
  <2>1. PICK i, j : Cell(pg, i, j, k) /\ i > top /\ InCell(x, y, i - top, j)
    BY <1>8 DEF PixelOf
  <2>2. i \in 1 .. m /\ j \in 1 .. c
    BY <1>1, <1>2, <2>1, PageView
  <2>3. i \in top + 1 .. m /\ i \in 1 .. m
    BY <1>2, <2>1, <2>2
  <2>4. k = lines[i][j] /\ j <= Len(lines[i])
    BY <1>4, <1>5, <2>1, <2>3 DEF Cell
  <2>5. PICK ij : ij = <<i, j>>
    OBVIOUS
  <2>6. ij \in Spots
    BY <1>8, <2>2, <2>3, <2>4, <2>5
  <2>7. PICK q : q = <<x, y>>
    OBVIOUS
  <2>8. q \in Rect(Col(j), Row(i - top))
    BY <2>1, <2>7 DEF Rect, InCell
  <2>9. q[1] = x /\ q[2] = y
    BY <2>7
  <2>10. p \in Of(ij)
    BY <1>8, <2>4, <2>5, <2>7, <2>8, <2>9 DEF Col, Row, Place
  <2> QED BY <2>6, <2>10
<1> HIDE DEF Spots, Of
<1> QED BY <1>1, <1>2, <1>4, <1>6, <1>7, <1>8

(* So the invariant is what was meant.                                     *)
LEMMA TailShows == GridInv /\ TailInv => ShowsTheTail
<1> SUFFICES ASSUME GridInv, TailInv, Ordinary
             PROVE  {p \in screen : p[2] >= Margin /\ p[3] \notin Page.cut} = Shown
  BY DEF ShowsTheTail
<1>1. IsPage(Page) /\ AboveFoot(Page) /\ Shows(Page, screen)
  BY DEF TailInv
<1>2. PICK size \in Nat : screen \subseteq Pixels(size)
  <2>1. PICK size \in Nat : DOMAIN text = 1 .. size
    BY LenProperties DEF GridInv, ConsoleTypeOK
  <2> QED BY <2>1 DEF GridInv, ConsoleTypeOK, Pixels
<1>3. ASSUME NEW p \in screen, p[2] >= Margin, p[3] \notin Page.cut PROVE p \in Shown
  <2>1. p = <<p[1], p[2], p[3]>> /\ p[1] \in 0 .. Width - 1 /\ p[2] \in 0 .. Height - 1
    BY <1>2, PixelFacts
  <2>2. PICK x \in Int, y \in Int : x = p[1] /\ y = p[2]
    BY <2>1
  <2>3. PICK k : p = <<x, y, k>> /\ k \notin Page.cut
    BY <1>3, <2>1, <2>2
  <2>4. PixelOf(Page, Page.top, x, y, k)
    BY <1>1, <1>3, <2>2, <2>3 DEF Shows
  <2> QED BY <1>1, <2>3, <2>4, ShownPixels
<1>4. ASSUME NEW p \in Shown PROVE p \in screen /\ p[2] >= Margin /\ p[3] \notin Page.cut
  <2>1. PICK x \in Int, y \in Int, k \in {p[3]} :
          p = <<x, y, k>> /\ k \notin Page.cut /\ PixelOf(Page, Page.top, x, y, k)
    BY <1>1, ShownPixels
  <2>2. PICK i, j : /\ Cell(Page, i, j, k) /\ i > Page.top
                    /\ InCell(x, y, i - Page.top, j)
    BY <2>1 DEF PixelOf
  <2>3. /\ j \in Nat /\ i - Page.top \in Nat /\ i - Page.top >= 1
        /\ i - Page.top <= Rows /\ j >= 1 /\ j <= Columns
    BY <1>1, <2>1, <2>2, OnTheGrid DEF AboveFoot
  <2>4. PICK d \in Nat : d = i - Page.top
    BY <2>3
  <2>5. y >= Margin
    BY <2>2, <2>3, <2>4, CellOnScreen
  <2>6. p[2] = y /\ p[3] = k
    BY <2>1
  <2>7. <<x, y, k>> \in screen
    BY <1>1, <2>1, <2>5 DEF Shows
  <2> QED BY <2>1, <2>5, <2>6, <2>7
<1> QED BY <1>3, <1>4

(* The screen shows the end of the text, whatever was wrapped, taken back  *)
(* and scrolled before, and but for what was typed more than a line below  *)
(* its foot: putchar, scroll_screen and the drawing.                       *)
THEOREM ScreenShowsTheTail == Spec => []ShowsTheTail
<1>1. Init => GridInv /\ TailInv
  BY TailStart
<1>2. (GridInv /\ TailInv) /\ [Next]_vars => (GridInv /\ TailInv)'
  BY GridStep, TailStep
<1>3. GridInv /\ TailInv => ShowsTheTail
  BY TailShows
<1> QED BY <1>1, <1>2, <1>3, PTL DEF Spec

-----------------------------------------------------------------------------
(* Powers and digits.                                                      *)

(* The powers up to the n-th, and the digits of the numbers up to it.      *)
PowersUpto(base, n, h) ==
  h = [k \in 0 .. n |-> IF k = 0 THEN 1 ELSE base * h[k - 1]]
DigitsUpto(base, n, h) ==
  h = [v \in 0 .. n |->
         IF v = 0 THEN <<>> ELSE <<DigitChars[(v % base) + 1]>> \o h[v \div base]]

(* There are such powers, however many.                                    *)
LEMMA PowersExist ==
  ASSUME NEW base, NEW n \in Nat
  PROVE  \E h : PowersUpto(base, n, h)
<1> DEFINE S == {m \in Nat : \E h : PowersUpto(base, m, h)}
<1>1. 0 \in S
  <2>1. PICK h : h = [k \in 0 .. 0 |-> 1]
    OBVIOUS
  <2>2. PowersUpto(base, 0, h)
    BY <2>1 DEF PowersUpto
  <2> QED BY <2>2
<1>2. ASSUME NEW m \in Nat, m \in S PROVE m + 1 \in S
  <2>1. PICK h : PowersUpto(base, m, h)
    BY <1>2
  <2>2. PICK g : g = [k \in 0 .. m + 1 |-> IF k = m + 1 THEN base * h[m] ELSE h[k]]
    OBVIOUS
  <2>3. ASSUME NEW k \in 0 .. m + 1
        PROVE  g[k] = IF k = 0 THEN 1 ELSE base * g[k - 1]
    <3>1. CASE k = m + 1
      <4>1. g[k - 1] = h[m]
        BY <2>2, <3>1
      <4> QED BY <2>2, <3>1, <4>1
    <3>2. CASE k # m + 1
      <4>1. k \in 0 .. m /\ g[k] = h[k]
        BY <2>2, <3>2
      <4>2. k # 0 => g[k - 1] = h[k - 1]
        BY <2>2, <4>1
      <4>3. h[k] = IF k = 0 THEN 1 ELSE base * h[k - 1]
        BY <2>1, <4>1 DEF PowersUpto
      <4> QED BY <4>1, <4>2, <4>3
    <3> QED BY <3>1, <3>2
  <2>4. PowersUpto(base, m + 1, g)
    BY <2>2, <2>3 DEF PowersUpto
  <2> QED BY <2>4
<1> HIDE DEF S
<1>3. n \in S
  BY <1>1, <1>2, SetInduction
<1> QED BY <1>3 DEF S

(* Power is the power.                                                     *)
LEMMA PowerSteps ==
  ASSUME NEW base
  PROVE  /\ Power(base, 0) = 1
         /\ \A n \in Nat : Power(base, n + 1) = base * Power(base, n)
<1>1. ASSUME NEW n \in Nat
      PROVE  \E h : PowersUpto(base, n, h) /\ Power(base, n) = h[n]
  <2>1. PICK h : h = CHOOSE p : PowersUpto(base, n, p)
    OBVIOUS
  <2>2. PowersUpto(base, n, h)
    BY <2>1, PowersExist
  <2>3. Power(base, n) = h[n]
    BY <2>1 DEF Power, PowersUpto
  <2> QED BY <2>2, <2>3
<1>2. Power(base, 0) = 1
  BY <1>1 DEF PowersUpto
<1>3. ASSUME NEW n \in Nat PROVE Power(base, n + 1) = base * Power(base, n)
  <2>1. PICK h : PowersUpto(base, n, h) /\ Power(base, n) = h[n]
    BY <1>1
  <2>2. PICK m \in Nat : m = n + 1
    OBVIOUS
  <2>3. PICK g : PowersUpto(base, m, g) /\ Power(base, m) = g[m]
    BY <1>1
  <2> DEFINE S == {k \in Nat : k <= n => h[k] = g[k]}
  <2>4. 0 \in S
    BY <2>1, <2>2, <2>3 DEF PowersUpto
  <2>5. ASSUME NEW k \in Nat, k \in S PROVE k + 1 \in S
    <3> SUFFICES ASSUME k + 1 <= n PROVE h[k + 1] = g[k + 1]
      OBVIOUS
    <3>1. h[k] = g[k]
      BY <2>5
    <3>2. k + 1 \in 0 .. n /\ k + 1 \in 0 .. m /\ k + 1 # 0 /\ (k + 1) - 1 = k
      BY <2>2
    <3>3. h[k + 1] = base * h[k] /\ g[k + 1] = base * g[k]
      BY <2>1, <2>3, <3>2 DEF PowersUpto
    <3> QED BY <3>1, <3>3
  <2> HIDE DEF S
  <2>6. n \in S
    BY <2>4, <2>5, SetInduction
  <2>7. h[n] = g[n]
    BY <2>6 DEF S
  <2>8. m \in 0 .. m /\ m # 0 /\ m - 1 = n
    BY <2>2
  <2>9. g[m] = base * g[n]
    BY <2>3, <2>8 DEF PowersUpto
  <2> QED BY <2>1, <2>2, <2>3, <2>7, <2>9
<1> QED BY <1>2, <1>3

(* The powers of a positive number are positive,                           *)
LEMMA PowerTypes ==
  ASSUME NEW base \in Nat, base >= 1
  PROVE  \A n \in Nat : Power(base, n) \in Nat /\ Power(base, n) >= 1
<1> DEFINE S == {n \in Nat : Power(base, n) \in Nat /\ Power(base, n) >= 1}
<1>1. 0 \in S
  BY PowerSteps
<1>2. ASSUME NEW n \in Nat, n \in S PROVE n + 1 \in S
  <2>1. PICK p \in Nat : p = Power(base, n) /\ p >= 1
    BY <1>2
  <2>2. base * p \in Nat /\ base * p >= 1
    <3>1. PICK c \in Nat : base = 1 + c
      OBVIOUS
    <3>2. base * p = p + c * p /\ c * p \in Nat
      BY <3>1
    <3> QED BY <2>1, <3>2
  <2>3. Power(base, n + 1) = base * p
    BY <2>1, PowerSteps
  <2> QED BY <2>2, <2>3
<1> HIDE DEF S
<1>3. \A n \in Nat : n \in S
  BY <1>1, <1>2, SetInduction
<1> QED BY <1>3 DEF S

(* And there are such digits.                                              *)
LEMMA DigitsExist ==
  ASSUME NEW base \in 2 .. 16, NEW n \in Nat
  PROVE  \E h : DigitsUpto(base, n, h)
<1> DEFINE S == {m \in Nat : \E h : DigitsUpto(base, m, h)}
           Digit(v) == <<DigitChars[(v % base) + 1]>>
<1>0. ASSUME NEW v \in Nat, v # 0 PROVE v \div base \in 0 .. v - 1
  <2>1. PICK q \in Nat, r \in 0 .. base - 1 : v \div base = q /\ v = base * q + r
    <3>1. /\ v \div base \in Nat /\ v % base \in 0 .. base - 1
          /\ v = base * (v \div base) + (v % base)
      OBVIOUS
    <3> QED BY <3>1
  <2>2. PICK c \in Nat : base = 2 + c
    OBVIOUS
  <2>3. base * q = q + q + c * q /\ c * q \in Nat
    BY <2>2
  <2>4. q < v
    BY <1>0, <2>1, <2>3
  <2> QED BY <2>1, <2>4
<1>1. 0 \in S
  <2>1. PICK h : h = [v \in 0 .. 0 |-> <<>>]
    OBVIOUS
  <2>2. DigitsUpto(base, 0, h)
    BY <2>1 DEF DigitsUpto
  <2> QED BY <2>2
<1>2. ASSUME NEW m \in Nat, m \in S PROVE m + 1 \in S
  <2>1. PICK h : DigitsUpto(base, m, h)
    BY <1>2
  <2>2. PICK g : g = [v \in 0 .. m + 1 |->
                        IF v = m + 1 THEN Digit(v) \o h[v \div base] ELSE h[v]]
    OBVIOUS
  <2>3. ASSUME NEW v \in 0 .. m + 1
        PROVE  g[v] = IF v = 0 THEN <<>> ELSE Digit(v) \o g[v \div base]
    <3>1. v # 0 => v \div base \in 0 .. m /\ v \div base # m + 1 /\ v \div base \in 0 .. m + 1
      <4> SUFFICES ASSUME v # 0
                   PROVE  \E q \in 0 .. m : q = v \div base /\ q # m + 1 /\ q \in 0 .. m + 1
        OBVIOUS
      <4>1. PICK q \in 0 .. v - 1 : q = v \div base
        BY <1>0
      <4> QED BY <4>1
    <3>2. v # 0 => g[v \div base] = h[v \div base]
      BY <2>2, <3>1
    <3>3. CASE v = m + 1
      BY <2>2, <3>2, <3>3
    <3>4. CASE v # m + 1
      <4>1. v \in 0 .. m /\ g[v] = h[v]
        BY <2>2, <3>4
      <4>2. h[v] = IF v = 0 THEN <<>> ELSE Digit(v) \o h[v \div base]
        BY <2>1, <4>1 DEF DigitsUpto
      <4> QED BY <3>2, <4>1, <4>2
    <3> QED BY <3>3, <3>4
  <2>4. DigitsUpto(base, m + 1, g)
    BY <2>2, <2>3 DEF DigitsUpto
  <2> QED BY <2>4
<1> HIDE DEF S
<1>3. n \in S
  BY <1>1, <1>2, SetInduction
<1> QED BY <1>3 DEF S

(* The sizes of the words.                                                 *)
LEMMA WordFacts ==
  /\ LongBits \in Nat /\ LongBits >= 1 /\ WORD \in Nat /\ WORD >= 2
  /\ WORD = Power(2, LongBits)
<1>1. LongBits \in Nat /\ LongBits >= 1
  BY StringsAssumption
<1>2. PICK n \in Nat : LongBits = n + 1
  BY <1>1
<1>3. Power(2, n) \in Nat /\ Power(2, n) >= 1
  BY PowerTypes
<1>4. Power(2, n + 1) = 2 * Power(2, n)
  BY PowerSteps
<1>5. PICK p \in Nat, q \in Nat : p = Power(2, n) /\ q = Power(2, n + 1)
  BY <1>3, <1>4
<1>6. q >= 2
  BY <1>3, <1>4, <1>5
<1> QED BY <1>1, <1>2, <1>5, <1>6 DEF WORD

(* itoa takes the digits from the lowest on.                               *)
LEMMA DigitsSteps ==
  ASSUME NEW base \in 2 .. 16
  PROVE  /\ Digits(base)[0] = <<>>
         /\ \A v \in 1 .. WORD - 1 :
              Digits(base)[v] = <<DigitChars[(v % base) + 1]>> \o Digits(base)[v \div base]
<1>1. PICK n \in Nat : n = WORD - 1
  BY WordFacts
<1>2. PICK h : h = CHOOSE p : DigitsUpto(base, n, p)
  OBVIOUS
<1>3. DigitsUpto(base, n, h)
  BY <1>2, DigitsExist
<1>4. Digits(base) = h
  BY <1>1, <1>2 DEF Digits, DigitsUpto
<1>5. h[0] = <<>> /\ \A v \in 1 .. n :
        h[v] = <<DigitChars[(v % base) + 1]>> \o h[v \div base]
  <2>1. \A v \in 0 .. n :
          h[v] = IF v = 0 THEN <<>> ELSE <<DigitChars[(v % base) + 1]>> \o h[v \div base]
    BY <1>3, Zenon DEF DigitsUpto
  <2>2. 0 \in 0 .. n /\ \A v \in 1 .. n : v \in 0 .. n /\ v # 0
    OBVIOUS
  <2> QED BY <2>1, <2>2, Zenon
<1> QED BY <1>1, <1>4, <1>5

(* Division by a base makes a number smaller.                              *)
LEMMA Divided ==
  ASSUME NEW base \in Nat, base >= 2, NEW v \in Nat, v # 0
  PROVE  \E q \in Nat, r \in 0 .. base - 1 :
           q = v \div base /\ r = v % base /\ v = base * q + r /\ q < v
<1>1. PICK q \in Nat, r \in 0 .. base - 1 :
        q = v \div base /\ r = v % base /\ v = base * q + r
  <2>1. /\ v \div base \in Nat /\ v % base \in 0 .. base - 1
        /\ v = base * (v \div base) + (v % base)
    OBVIOUS
  <2> QED BY <2>1
<1>2. PICK c \in Nat : base = 2 + c
  OBVIOUS
<1>3. base * q = q + q + c * q /\ c * q \in Nat
  BY <1>2
<1>4. q < v
  BY <1>1, <1>3
<1> QED BY <1>1, <1>4

(* Digits are characters, and so is what itoa makes of a number.           *)
LEMMA DigitChar ==
  /\ \A i \in 1 .. 16 : DigitChars[i] \in Characters
  /\ DigitChars[1] = "0" /\ "0" \in Characters
<1>1. DOMAIN DigitChars = 1 .. 16 /\ DigitChars[1] = "0"
  BY DEF DigitChars
<1>2. \A i \in 1 .. 16 : DigitChars[i] \in Characters
  BY <1>1, PrintfAssumption DEF Range
<1>3. 1 \in 1 .. 16
  OBVIOUS
<1> QED BY <1>1, <1>2, <1>3

(* A character alone is a text.                                            *)
LEMMA Single ==
  ASSUME NEW S, NEW c \in S PROVE <<c>> \in Seq(S) /\ Len(<<c>>) = 1 /\ <<c>>[1] = c
OBVIOUS

(* What itoa makes of a word is characters,                                *)
LEMMA ItoaTypes ==
  ASSUME NEW base \in 2 .. 16, NEW value \in 0 .. WORD - 1
  PROVE  itoa(value, base) \in Seq(Characters)
<1>1. PICK n \in Nat : n = WORD - 1
  BY WordFacts
<1>2. PICK low : low = Digits(base)
  OBVIOUS
<1>3. /\ low[0] = <<>>
      /\ \A v \in 1 .. n : low[v] = <<DigitChars[(v % base) + 1]>> \o low[v \div base]
  BY <1>1, <1>2, DigitsSteps
<1> DEFINE S == {m \in Nat : \A v \in 0 .. n : v <= m => low[v] \in Seq(Characters)}
<1>0. low[0] \in Seq(Characters)
  BY <1>3, EmptySeq
<1>4. 0 \in S
  BY <1>0
<1>5. ASSUME NEW m \in Nat, m \in S PROVE m + 1 \in S
  <2> SUFFICES ASSUME NEW v \in 0 .. n, v <= m + 1, v # 0 PROVE low[v] \in Seq(Characters)
    BY <1>0
  <2>1. PICK q \in Nat, r \in 0 .. base - 1 : q = v \div base /\ r = v % base /\ q < v
    BY Divided
  <2>2. low[q] \in Seq(Characters)
    BY <1>5, <2>1
  <2>3. PICK c \in Characters : c = DigitChars[r + 1]
    <3>1. r + 1 \in 1 .. 16
      BY <2>1
    <3> QED BY <3>1, DigitChar
  <2>4. low[v] = <<c>> \o low[q]
    <3>1. v \in 1 .. n
      OBVIOUS
    <3> QED BY <1>3, <2>1, <2>3, <3>1, Zenon
  <2>5. <<c>> \in Seq(Characters)
    BY Single
  <2> QED BY <2>2, <2>4, <2>5, ConcatProperties
<1> HIDE DEF S
<1>6. value \in S
  BY <1>4, <1>5, SetInduction
<1>7. low[value] \in Seq(Characters)
  BY <1>1, <1>6 DEF S
<1>8. Reverse(low[value]) \in Seq(Characters)
  <2>1. PICK s \in Seq(Characters) : s = low[value]
    BY <1>7
  <2>2. PICK len \in Nat : len = Len(s)
    BY <2>1, LenProperties
  <2>3. \A i \in 1 .. len : s[(len - i) + 1] \in Characters
    BY <2>1, <2>2, ElementOfSeq
  <2> QED BY <2>1, <2>2, <2>3 DEF Reverse
<1>9. <<>> \in Seq(Characters) /\ <<"0">> \in Seq(Characters)
  BY EmptySeq, DigitChar, Single
<1> QED BY <1>2, <1>8, <1>9 DEF itoa

-----------------------------------------------------------------------------
(* The scan of a format.                                                   *)

TakenBefore(fmt, n) == Cardinality({k \in Takers(fmt) : k < n})

(* Arguments are taken one at a time, and no more than are passed.         *)
LEMMA TakenFacts ==
  ASSUME NEW fmt \in Seq(Characters)
  PROVE  /\ \A n \in Nat : /\ TakenBefore(fmt, n) \in Nat
                           /\ TakenBefore(fmt, n) <= Cardinality(Takers(fmt))
                           /\ TakenBefore(fmt, n) <= TakenBefore(fmt, n + 1)
         /\ \A n \in Nat : n \in Takers(fmt) =>
              TakenBefore(fmt, n + 1) = TakenBefore(fmt, n) + 1
         /\ Cardinality(Takers(fmt)) \in Nat
<1>1. PICK len \in Nat : len = Len(fmt) /\ DOMAIN fmt = 1 .. len
  BY LenProperties
<1>2. Takers(fmt) \subseteq 1 .. len
  BY <1>1 DEF Takers
<1>3. IsFiniteSet(1 .. len)
  BY FS_Interval
<1>4. PICK T : T = Takers(fmt) /\ IsFiniteSet(T) /\ T \subseteq 1 .. len
  BY <1>2, <1>3, FS_Subset
<1>5. ASSUME NEW n \in Nat
      PROVE  /\ TakenBefore(fmt, n) \in Nat /\ TakenBefore(fmt, n) <= Cardinality(T)
             /\ TakenBefore(fmt, n) <= TakenBefore(fmt, n + 1)
             /\ n \in T => TakenBefore(fmt, n + 1) = TakenBefore(fmt, n) + 1
  <2>1. PICK B, C : B = {k \in T : k < n} /\ C = {k \in T : k < n + 1}
    OBVIOUS
  <2>2. B \subseteq C /\ C \subseteq T /\ B \subseteq T
    BY <1>4, <2>1
  <2>3. IsFiniteSet(B) /\ IsFiniteSet(C)
    BY <1>4, <2>2, FS_Subset
  <2>4. /\ Cardinality(B) \in Nat /\ Cardinality(C) \in Nat
        /\ Cardinality(B) <= Cardinality(T) /\ Cardinality(B) <= Cardinality(C)
    BY <1>4, <2>2, <2>3, FS_Subset, FS_CardinalityType
  <2>5. n \in T => Cardinality(C) = Cardinality(B) + 1
    <3> SUFFICES ASSUME n \in T PROVE Cardinality(C) = Cardinality(B) + 1
      OBVIOUS
    <3>1. C = B \cup {n} /\ n \notin B
      BY <1>4, <2>1
    <3> QED BY <2>3, <3>1, FS_AddElement
  <2> QED BY <1>4, <2>1, <2>4, <2>5 DEF TakenBefore
<1>6. Cardinality(T) \in Nat
  BY <1>4, FS_CardinalityType
<1> QED BY <1>4, <1>5, <1>6

(* How far the scan has come: the arguments taken are those of the         *)
(* conversions behind it, and a directive began with a percent.            *)
ScanInv ==
  /\ a - 1 <= TakenBefore(format, f)
  /\ pc = "directive" =>
       \E n \in 1 .. f - 1 :
         format[n] = "%" /\ \A j \in n + 1 .. f - 1 : format[j] \in {"l", "#"}

(* The call in progress.                                                   *)
LEMMA CallFacts ==
  ASSUME PrintfTypeOK, pc # "idle"
  PROVE  /\ format \in Seq(Characters) /\ args \in Seq(Words)
         /\ Len(format) \in Nat /\ Len(args) \in Nat
         /\ Cardinality(Takers(format)) <= Len(args)
<1>1. PICK given : given = <<format, args>> /\ given \in Calls
  BY DEF PrintfTypeOK
<1>2. given[1] \in Seq(Characters) /\ given[2] \in Seq(Words)
      /\ Cardinality(Takers(given[1])) <= Len(given[2])
  BY <1>1, PrintfAssumption, ArgumentsAssumption
<1>3. given[1] = format /\ given[2] = args
  BY <1>1
<1>4. format \in Seq(Characters) /\ args \in Seq(Words)
  BY <1>2, <1>3
<1> QED BY <1>2, <1>3, <1>4, LenProperties

(* Quotient and remainder.                                                 *)
LEMMA DivMod ==
  ASSUME NEW v \in Nat, NEW p \in Nat, p >= 1
  PROVE  v \div p \in Nat /\ v % p \in 0 .. p - 1 /\ v = p * (v \div p) + (v % p)
OBVIOUS

(* A remainder is a word again.                                            *)
LEMMA Remainder ==
  ASSUME NEW w \in 0 .. WORD - 1, NEW n \in Nat
  PROVE  w % Power(2, n) \in 0 .. WORD - 1
<1>1. PICK p \in Nat : p = Power(2, n) /\ p >= 1
  BY PowerTypes
<1>0. PICK v \in Nat : v = w /\ v <= WORD - 1
  BY WordFacts
<1>2. /\ w \div p \in Nat /\ w % p \in 0 .. p - 1
      /\ w = p * (w \div p) + (w % p)
  <2>1. /\ v \div p \in Nat /\ v % p \in 0 .. p - 1
        /\ v = p * (v \div p) + (v % p)
    BY <1>1, DivMod
  <2> QED BY <1>0, <2>1
<1>3. PICK q \in Nat, r \in Nat : q = w \div p /\ r = w % p
  BY <1>2
<1>4. p * q \in Nat
  BY <1>1
<1> QED BY <1>0, <1>1, <1>2, <1>3, <1>4, WordFacts

(* and so is what putnumber makes of it.                                   *)
LEMMA PutnumberTypes ==
  ASSUME NEW num \in 0 .. WORD - 1, NEW base \in {8, 10, 16}, NEW is_signed
  PROVE  putnumber(num, base, is_signed) \in Seq(Characters)
<1>1. base \in 2 .. 16
  OBVIOUS
<1>2. (WORD - num) % WORD \in 0 .. WORD - 1
  BY WordFacts
<1>3. itoa(num, base) \in Seq(Characters) /\ itoa((WORD - num) % WORD, base) \in Seq(Characters)
  BY <1>1, <1>2, ItoaTypes
<1>4. <<"-">> \in Seq(Characters)
  BY PrintfAssumption, Single
<1>5. <<"-">> \o itoa((WORD - num) % WORD, base) \in Seq(Characters)
  BY <1>3, <1>4, ConcatProperties
<1> QED BY <1>3, <1>5 DEF putnumber

(* The characters of printf's own.                                         *)
LEMMA OwnTexts ==
  /\ Prefix(<<"0", "x">>) \in Seq(Characters) /\ Prefix(<<"0">>) \in Seq(Characters)
  /\ <<"0", "x">> \in Seq(Characters) /\ <<"0">> \in Seq(Characters) /\ Null \in Seq(Characters)
  /\ <<"%">> \in Seq(Characters) /\ <<"%", "NUL">> \in Seq(Characters)
  /\ <<>> \in Seq(Characters)
<1>1. /\ "x" \in Characters /\ "%" \in Characters /\ "NUL" \in Characters /\ "0" \in Characters
  BY PrintfAssumption, DigitChar
<1>2. /\ "(" \in Characters /\ "n" \in Characters /\ "u" \in Characters /\ "l" \in Characters
      /\ ")" \in Characters
  <2>1. \A i \in DOMAIN Null : Null[i] \in Characters
    BY PrintfAssumption DEF Range
  <2>2. DOMAIN Null = 1 .. 6 /\ Null[1] = "(" /\ Null[2] = "n" /\ Null[3] = "u" /\ Null[4] = "l"
        /\ Null[6] = ")"
    BY DEF Null
  <2>3. 1 \in 1 .. 6 /\ 2 \in 1 .. 6 /\ 3 \in 1 .. 6 /\ 4 \in 1 .. 6 /\ 6 \in 1 .. 6
    OBVIOUS
  <2> QED BY <2>1, <2>2, <2>3
<1>3. ASSUME NEW S, NEW c \in S, NEW d \in S PROVE <<c, d>> \in Seq(S)
  OBVIOUS
<1>4. ASSUME NEW S, NEW c \in S, NEW d \in S, NEW e \in S, NEW g \in S, NEW h \in S
      PROVE  <<c, d, e, g, g, h>> \in Seq(S)
  OBVIOUS
<1>5. Null \in Seq(Characters)
  BY <1>2, <1>4 DEF Null
<1>6. <<"0", "x">> \in Seq(Characters) /\ <<"%", "NUL">> \in Seq(Characters)
  BY <1>1, <1>3
<1>7. <<>> \in Seq(Characters) /\ <<"0">> \in Seq(Characters) /\ <<"%">> \in Seq(Characters)
  BY <1>1, EmptySeq, Single
<1> QED BY <1>5, <1>6, <1>7 DEF Prefix

(* What a conversion puts is characters, and its argument was passed.      *)
LEMMA ConvertTypes ==
  ASSUME PrintfTypeOK, ScanInv, convert
  PROVE  /\ f <= Len(format) /\ f \in Takers(format) /\ a <= Len(args) /\ pc = "directive"
         /\ \E new \in Seq(Characters) : Converts(new)
<1>1. pc = "directive" /\ f <= Len(format) /\ format[f] \in Conversions
  BY DEF convert, At, Conversions
<1>2. /\ format \in Seq(Characters) /\ args \in Seq(Words)
      /\ Len(format) \in Nat /\ Len(args) \in Nat
      /\ Cardinality(Takers(format)) <= Len(args)
  BY <1>1, CallFacts
<1>3. f \in 1 .. Len(format) /\ a \in Nat /\ a >= 1
  BY <1>1, <1>2 DEF PrintfTypeOK
<1>4. f \in Takers(format)
  BY <1>1, <1>2, <1>3 DEF ScanInv, Takers
<1>5. a <= Len(args)
  <2>1. TakenBefore(format, f + 1) = TakenBefore(format, f) + 1
    BY <1>2, <1>3, <1>4, TakenFacts
  <2>2. TakenBefore(format, f + 1) <= Cardinality(Takers(format))
        /\ TakenBefore(format, f) \in Nat /\ Cardinality(Takers(format)) \in Nat
    <3>1. PICK g \in Nat : g = f + 1
      BY <1>3
    <3> QED BY <1>2, <1>3, <3>1, TakenFacts
  <2> QED BY <1>2, <1>3, <2>1, <2>2 DEF ScanInv
<1>6. args[a] \in Words /\ args[a] \in 0 .. WORD - 1
  <2>1. a \in 1 .. Len(args)
    BY <1>2, <1>3, <1>5
  <2>2. args[a] \in Words
    BY <1>2, <2>1, ElementOfSeq
  <2> QED BY <2>2, PrintfAssumption
<1>7. Taken \in 0 .. WORD - 1
  <2>1. IntBits \in Nat
    BY PrintfAssumption, WordFacts
  <2>2. args[a] % Power(2, IntBits) \in 0 .. WORD - 1
    BY <1>6, <2>1, Remainder
  <2> QED BY <1>6, <2>2 DEF Taken
<1>8. /\ \A base \in {8, 10, 16} : putnumber(Taken, base, FALSE) \in Seq(Characters)
      /\ putnumber(Taken, 10, TRUE) \in Seq(Characters)
      /\ putnumber(args[a], 16, FALSE) \in Seq(Characters)
  <2>1. PICK w \in 0 .. WORD - 1, v \in 0 .. WORD - 1 : w = Taken /\ v = args[a]
    BY <1>6, <1>7
  <2>2. /\ \A base \in {8, 10, 16} : putnumber(w, base, FALSE) \in Seq(Characters)
        /\ putnumber(w, 10, TRUE) \in Seq(Characters)
        /\ putnumber(v, 16, FALSE) \in Seq(Characters)
    BY PutnumberTypes
  <2> QED BY <2>1, <2>2
<1>9. /\ Prefix(<<"0", "x">>) \o putnumber(Taken, 16, FALSE) \in Seq(Characters)
      /\ Prefix(<<"0">>) \o putnumber(Taken, 8, FALSE) \in Seq(Characters)
      /\ <<"0", "x">> \o putnumber(args[a], 16, FALSE) \in Seq(Characters)
  BY <1>8, OwnTexts, ConcatProperties
<1>10. <<CharOf[args[a]]>> \in Seq(Characters)
  BY <1>6, PrintfAssumption, Single
<1>11. (IF args[a] = 0 THEN Null ELSE TextAt[args[a]]) \in Seq(Characters)
  BY <1>6, PrintfAssumption, OwnTexts
<1>12. \E new \in Seq(Characters) : Converts(new)
  BY <1>8, <1>9, <1>10, <1>11 DEF convert
<1> QED BY <1>1, <1>4, <1>5, <1>12

(* printf keeps its types, and takes no argument that was not passed.      *)
LEMMA PrintfStep ==
  ASSUME PrintfTypeOK, ScanInv, printf
  PROVE  /\ PrintfTypeOK' /\ ScanInv' /\ Len(out) \in Nat /\ Len(out') \in Nat
         /\ Len(out) <= Len(out')
<1>1. pc \in {"text", "directive"}
  BY DEF printf, literal, percent, flag, convert, other, overrun, return, At
<1>2. /\ format \in Seq(Characters) /\ args \in Seq(Words)
      /\ Len(format) \in Nat /\ Len(args) \in Nat
      /\ Cardinality(Takers(format)) <= Len(args)
  BY <1>1, CallFacts
<1>3. /\ f \in 1 .. Len(format) + 1 /\ a \in 1 .. Len(args) + 1
      /\ is_long \in BOOLEAN /\ is_alt \in BOOLEAN /\ out \in Seq(Characters)
      /\ <<format, args>> \in Calls
  BY <1>1 DEF PrintfTypeOK
<1>4. format' = format /\ args' = args
  BY DEF printf, literal, percent, flag, convert, Converts, other, overrun, return
<1>5. /\ TakenBefore(format, f) \in Nat /\ TakenBefore(format, f + 1) \in Nat
      /\ TakenBefore(format, f) <= TakenBefore(format, f + 1)
  <2>1. PICK g \in Nat : g = f + 1
    BY <1>2, <1>3
  <2> QED BY <1>2, <1>3, <2>1, TakenFacts
<1>6. ASSUME NEW new \in Seq(Characters), out' = out \o new
      PROVE  /\ out' \in Seq(Characters) /\ Len(out) \in Nat /\ Len(out') \in Nat
             /\ Len(out) <= Len(out')
  BY <1>3, <1>6, ConcatProperties, LenProperties
<1>7. Len(out) \in Nat
  BY <1>3, LenProperties
<1>8. CASE literal
  <2>1. f \in 1 .. Len(format) /\ pc' = "text" /\ out' = out \o <<format[f]>> /\ f' = f + 1
        /\ UNCHANGED <<a, is_long, is_alt>>
    BY <1>2, <1>3, <1>8 DEF literal, Puts
  <2>2. <<format[f]>> \in Seq(Characters)
    BY <1>2, <2>1, ElementOfSeq, Single
  <2>3. PICK new \in Seq(Characters) : out' = out \o new
    BY <2>1, <2>2
  <2>4. /\ out' \in Seq(Characters) /\ Len(out') \in Nat /\ Len(out) <= Len(out')
    BY <1>6, <2>3
  <2>5. ScanInv'
    BY <1>3, <1>4, <1>5, <2>1 DEF ScanInv
  <2> QED BY <1>2, <1>3, <1>4, <1>7, <2>1, <2>4, <2>5 DEF PrintfTypeOK
<1>9. CASE percent
  <2>1. f \in 1 .. Len(format) /\ format[f] = "%" /\ pc' = "directive" /\ out' = out
        /\ f' = f + 1 /\ a' = a /\ is_long' = FALSE /\ is_alt' = FALSE
    BY <1>2, <1>3, <1>9 DEF percent, At
  <2>2. ScanInv'
    <3>1. f \in 1 .. f' - 1 /\ format'[f] = "%"
          /\ \A j \in f + 1 .. f' - 1 : format'[j] \in {"l", "#"}
      BY <1>2, <1>3, <1>4, <2>1
    <3> QED BY <1>3, <1>4, <1>5, <2>1, <3>1 DEF ScanInv
  <2>3. is_long' \in BOOLEAN /\ is_alt' \in BOOLEAN
    BY <2>1, Zenon
  <2>4. f' \in 1 .. Len(format') + 1 /\ pc' \in {"text", "directive"}
    BY <1>2, <1>3, <1>4, <2>1
  <2> QED BY <1>3, <1>4, <1>7, <2>1, <2>2, <2>3, <2>4 DEF PrintfTypeOK
<1>10. CASE flag
  <2>1. /\ f <= Len(format) /\ format[f] \in {"l", "#"} /\ pc = "directive" /\ pc' = pc
        /\ out' = out /\ f' = f + 1 /\ a' = a
    BY <1>10, Zenon DEF flag, At
  <2>3. is_long' \in BOOLEAN /\ is_alt' \in BOOLEAN
    BY <1>3, <1>10, Zenon DEF flag
  <2>2. ScanInv'
    <3>1. PICK n \in 1 .. f - 1 :
            format[n] = "%" /\ \A j \in n + 1 .. f - 1 : format[j] \in {"l", "#"}
      BY <2>1 DEF ScanInv
    <3>2. n \in 1 .. f' - 1 /\ format'[n] = "%"
          /\ \A j \in n + 1 .. f' - 1 : format'[j] \in {"l", "#"}
      BY <1>2, <1>3, <1>4, <2>1, <3>1
    <3> QED BY <1>3, <1>4, <1>5, <2>1, <3>2 DEF ScanInv
  <2>4. f' \in 1 .. Len(format') + 1 /\ pc' \in {"text", "directive"}
    BY <1>2, <1>3, <1>4, <2>1
  <2> QED BY <1>3, <1>4, <1>7, <2>1, <2>2, <2>3, <2>4 DEF PrintfTypeOK
<1>11. CASE convert
  <2>1. /\ f <= Len(format) /\ f \in Takers(format) /\ a <= Len(args)
        /\ \E new \in Seq(Characters) : Converts(new)
    BY <1>11, ConvertTypes
  <2>2. PICK new \in Seq(Characters) : Converts(new)
    BY <2>1
  <2>3. pc' = "text" /\ out' = out \o new /\ f' = f + 1 /\ a' = a + 1
        /\ UNCHANGED <<is_long, is_alt>>
    BY <2>2 DEF Converts, Puts
  <2>4. /\ out' \in Seq(Characters) /\ Len(out') \in Nat /\ Len(out) <= Len(out')
    BY <1>6, <2>3
  <2>5. ScanInv'
    <3>1. TakenBefore(format, f + 1) = TakenBefore(format, f) + 1
      BY <1>2, <1>3, <2>1, TakenFacts
    <3> QED BY <1>3, <1>4, <1>5, <2>3, <3>1 DEF ScanInv
  <2> QED BY <1>2, <1>3, <1>4, <1>7, <2>1, <2>3, <2>4, <2>5 DEF PrintfTypeOK
<1>12. CASE other
  <2>1. /\ f \in 1 .. Len(format) /\ pc' = "text" /\ f' = f + 1
        /\ out' = out \o (IF format[f] = "%" THEN <<"%">> ELSE <<"%", format[f]>>)
        /\ UNCHANGED <<a, is_long, is_alt>>
    BY <1>2, <1>3, <1>12 DEF other, Puts
  <2>2. (IF format[f] = "%" THEN <<"%">> ELSE <<"%", format[f]>>) \in Seq(Characters)
    <3>1. PICK c \in Characters, p \in Characters : c = format[f] /\ p = "%"
      BY <1>2, <2>1, ElementOfSeq, PrintfAssumption
    <3>2. <<p>> \in Seq(Characters) /\ <<p, c>> \in Seq(Characters)
      OBVIOUS
    <3> QED BY <3>1, <3>2
  <2>3. PICK new \in Seq(Characters) : out' = out \o new
    BY <2>1, <2>2
  <2>4. /\ out' \in Seq(Characters) /\ Len(out') \in Nat /\ Len(out) <= Len(out')
    BY <1>6, <2>3
  <2>5. ScanInv'
    BY <1>3, <1>4, <1>5, <2>1 DEF ScanInv
  <2> QED BY <1>2, <1>3, <1>4, <1>7, <2>1, <2>4, <2>5 DEF PrintfTypeOK
<1>13. CASE overrun
  <2>1. /\ pc' = "overrun" /\ f' = f + 1 /\ out' = out \o <<"%", "NUL">>
        /\ UNCHANGED <<a, is_long, is_alt>>
    BY <1>13 DEF overrun, Puts
  <2>2. PICK new \in Seq(Characters) : out' = out \o new
    BY <2>1, OwnTexts
  <2>3. /\ out' \in Seq(Characters) /\ Len(out') \in Nat /\ Len(out) <= Len(out')
    BY <1>6, <2>2
  <2>4. ScanInv'
    BY <1>3, <1>4, <1>5, <2>1 DEF ScanInv
  <2> QED BY <1>2, <1>3, <1>4, <1>7, <2>1, <2>3, <2>4 DEF PrintfTypeOK
<1>14. CASE return
  <2>1. pc' = "returned" /\ UNCHANGED <<f, a, is_long, is_alt, out>>
    BY <1>14 DEF return
  <2>2. ScanInv'
    BY <1>4, <2>1 DEF ScanInv
  <2> QED BY <1>2, <1>3, <1>4, <1>7, <2>1, <2>2 DEF PrintfTypeOK
<1> QED BY <1>8, <1>9, <1>10, <1>11, <1>12, <1>13, <1>14 DEF printf

PrintfGood == PrintfTypeOK /\ ScanInv /\ put \in 0 .. Len(out)

(* A call starts at the first character and the first argument.            *)
LEMMA EnterTypes ==
  ASSUME NEW c \in Calls, enter(c)
  PROVE  /\ PrintfTypeOK' /\ ScanInv' /\ Len(out') = 0
<1>1. /\ format' = c[1] /\ args' = c[2] /\ f' = 1 /\ a' = 1 /\ pc' = "text"
      /\ out' = <<>> /\ is_long' = FALSE /\ is_alt' = FALSE
  BY DEF enter
<1>2. c[1] \in Seq(Characters) /\ c[2] \in Seq(Words)
  BY PrintfAssumption
<1>3. PICK fmt, given : fmt = c[1] /\ given = c[2]
  OBVIOUS
<1>4. Len(fmt) \in Nat /\ Len(given) \in Nat /\ TakenBefore(fmt, 1) \in Nat
  BY <1>2, <1>3, LenProperties, TakenFacts
<1>5. <<format', args'>> \in Calls
  <2>1. PICK pair \in Calls : pair = c
    OBVIOUS
  <2>2. pair = <<pair[1], pair[2]>>
    BY PrintfAssumption
  <2> QED BY <1>1, <2>1, <2>2
<1>6. out' \in Seq(Characters) /\ Len(out') = 0
  BY <1>1, OwnTexts
<1>7. is_long' \in BOOLEAN /\ is_alt' \in BOOLEAN
  BY <1>1, Zenon
<1>8. ScanInv'
  BY <1>1, <1>3, <1>4 DEF ScanInv
<1> QED BY <1>1, <1>3, <1>4, <1>5, <1>6, <1>7, <1>8 DEF PrintfTypeOK

(* The state of printf between the calls and in them.                      *)
LEMMA PrintfStart == Init => PrintfGood
<1> SUFFICES ASSUME Init PROVE PrintfGood
  OBVIOUS
<1>1. /\ format = <<>> /\ args = <<>> /\ f = 1 /\ a = 1 /\ is_long = FALSE /\ is_alt = FALSE
      /\ pc = "idle" /\ out = <<>> /\ put = 0
  BY DEF Init, PrintfInit
<1>2. Len(format) = 0 /\ Len(args) = 0 /\ Len(out) = 0 /\ TakenBefore(format, 1) \in Nat
  BY <1>1, OwnTexts, TakenFacts
<1>3. is_long \in BOOLEAN /\ is_alt \in BOOLEAN
  BY <1>1, Zenon
<1>4. out \in Seq(Characters)
  BY <1>1, OwnTexts
<1>5. ScanInv
  BY <1>1, <1>2 DEF ScanInv
<1> QED BY <1>1, <1>2, <1>3, <1>4, <1>5 DEF PrintfGood, PrintfTypeOK

(* Each action keeps the scan inside its format and its arguments.         *)
LEMMA PrintfKept == PrintfGood /\ [Next]_vars => PrintfGood'
<1> SUFFICES ASSUME PrintfGood, [Next]_vars PROVE PrintfGood'
  OBVIOUS
<1>1. PrintfTypeOK /\ ScanInv /\ put \in 0 .. Len(out) /\ Len(out) \in Nat
  BY LenProperties DEF PrintfGood, PrintfTypeOK
<1>2. CASE scan
  <2>1. printf /\ put' = put
    BY <1>2 DEF scan
  <2> QED BY <1>1, <2>1, PrintfStep DEF PrintfGood
<1>3. ASSUME UNCHANGED printfVars, put' \in 0 .. Len(out) PROVE PrintfGood'
  <2>1. /\ format' = format /\ args' = args /\ f' = f /\ a' = a /\ pc' = pc /\ out' = out
        /\ is_long' = is_long /\ is_alt' = is_alt
    BY <1>3 DEF printfVars
  <2> QED BY <1>1, <1>3, <2>1 DEF PrintfGood, PrintfTypeOK, ScanInv
<1>4. CASE character
  BY <1>1, <1>3, <1>4 DEF character
<1>5. CASE call
  <2>1. PICK c \in Calls : enter(c) /\ put' = 0
    BY <1>5, TerminalAssumption DEF call
  <2>2. PrintfTypeOK' /\ ScanInv' /\ Len(out') = 0
    BY <2>1, EnterTypes
  <2> QED BY <2>1, <2>2 DEF PrintfGood
<1>6. CASE clear
  BY <1>1, <1>3, <1>6 DEF clear
<1>7. CASE UNCHANGED vars
  BY <1>1, <1>3, <1>7 DEF vars
<1> QED BY <1>2, <1>4, <1>5, <1>6, <1>7 DEF Next

(* The cursor stays on its grid and its pixels on the framebuffer, the scan*)
(* inside its format until it is found to end too early, and no argument is*)
(* taken that was not passed: putchar, scroll_screen, printf and putnumber.*)
THEOREM TerminalTypes == Spec => []TypeOK
<1>1. Init => GridInv /\ PrintfGood
  BY TailStart, PrintfStart
<1>2. (GridInv /\ PrintfGood) /\ [Next]_vars => (GridInv /\ PrintfGood)'
  BY GridStep, PrintfKept
<1>3. GridInv /\ PrintfGood => TypeOK
  BY DEF GridInv, PrintfGood, TypeOK
<1> QED BY <1>1, <1>2, <1>3, PTL DEF Spec

-----------------------------------------------------------------------------
(* Numerals: itoa makes of a number the numeral that it has.               *)

(* Quotients of quotients.                                                 *)
LEMMA QuotientIs ==
  ASSUME NEW m \in Nat, m >= 1, NEW t \in Nat, NEW u \in 0 .. m - 1
  PROVE  (m * t + u) \div m = t
<1>1. PICK v \in Nat : v = m * t + u
  <2>1. m * t \in Nat
    OBVIOUS
  <2> QED BY <2>1
<1>2. PICK d \in Nat, w \in 0 .. m - 1 : d = v \div m /\ v = m * d + w
  <2>1. v \div m \in Nat /\ v % m \in 0 .. m - 1 /\ v = m * (v \div m) + (v % m)
    BY DivMod
  <2> QED BY <2>1
<1>3. ~(t > d)
  <2> SUFFICES ASSUME t > d PROVE FALSE
    OBVIOUS
  <2>1. PICK c \in Nat : t = d + 1 + c
    <3>1. t - d - 1 \in Nat /\ t = d + 1 + (t - d - 1)
      OBVIOUS
    <3> QED BY <3>1
  <2>2. m * t = m * d + m + m * c /\ m * c \in Nat /\ m * d \in Nat
    BY <2>1
  <2> QED BY <1>1, <1>2, <2>2
<1>4. ~(d > t)
  <2> SUFFICES ASSUME d > t PROVE FALSE
    OBVIOUS
  <2>1. PICK c \in Nat : d = t + 1 + c
    <3>1. d - t - 1 \in Nat /\ d = t + 1 + (d - t - 1)
      OBVIOUS
    <3> QED BY <3>1
  <2>2. m * d = m * t + m + m * c /\ m * c \in Nat /\ m * t \in Nat
    BY <2>1
  <2> QED BY <1>1, <1>2, <2>2
<1>5. d = t
  BY <1>3, <1>4
<1> QED BY <1>1, <1>2, <1>5

(* Dividing twice is dividing by the product.                              *)
LEMMA QuotientTwice ==
  ASSUME NEW v \in Nat, NEW m \in Nat, m >= 1, NEW p \in Nat, p >= 1
  PROVE  (v \div m) \div p = v \div (m * p)
<1>1. PICK q \in Nat, r \in 0 .. m - 1 : q = v \div m /\ v = m * q + r
  <2>1. v \div m \in Nat /\ v % m \in 0 .. m - 1 /\ v = m * (v \div m) + (v % m)
    BY DivMod
  <2> QED BY <2>1
<1>2. PICK t \in Nat, s \in 0 .. p - 1 : t = q \div p /\ q = p * t + s
  <2>1. q \div p \in Nat /\ q % p \in 0 .. p - 1 /\ q = p * (q \div p) + (q % p)
    BY DivMod
  <2> QED BY <2>1
<1>3. PICK mp \in Nat, u \in Nat : mp = m * p /\ u = m * s + r
  <2>1. m * p \in Nat /\ m * s \in Nat
    OBVIOUS
  <2> QED BY <2>1
<1>4. v = mp * t + u
  <2>1. m * q = m * (p * t) + m * s
    BY <1>2
  <2>2. m * (p * t) = (m * p) * t
    OBVIOUS
  <2> QED BY <1>1, <1>3, <2>1, <2>2
<1>5. mp >= 1 /\ u \in 0 .. mp - 1
  <2>1. PICK c \in Nat : p = s + 1 + c
    <3>1. p - s - 1 \in Nat /\ p = s + 1 + (p - s - 1)
      OBVIOUS
    <3> QED BY <3>1
  <2>2. m * p = m * s + m + m * c /\ m * c \in Nat /\ m * s \in Nat
    BY <2>1
  <2> QED BY <1>3, <2>2
<1>6. (mp * t + u) \div mp = t
  BY <1>5, QuotientIs
<1> QED BY <1>1, <1>2, <1>3, <1>4, <1>6

(* Powers of a larger exponent, or of a larger base than 2, are not less.  *)
LEMMA PowersGrow ==
  ASSUME NEW base \in Nat, base >= 2
  PROVE  /\ \A m, n \in Nat : m <= n => Power(base, m) <= Power(base, n)
         /\ \A n \in Nat : Power(2, n) <= Power(base, n)
<1>1. /\ Power(base, 0) = 1 /\ Power(2, 0) = 1
      /\ \A n \in Nat : /\ Power(base, n + 1) = base * Power(base, n)
                        /\ Power(2, n + 1) = 2 * Power(2, n)
                        /\ Power(base, n) \in Nat /\ Power(2, n) \in Nat
  <2>1. /\ Power(base, 0) = 1
        /\ \A n \in Nat : Power(base, n + 1) = base * Power(base, n)
    BY PowerSteps
  <2>2. /\ Power(2, 0) = 1
        /\ \A n \in Nat : Power(2, n + 1) = 2 * Power(2, n)
    BY PowerSteps
  <2>3. \A n \in Nat : Power(base, n) \in Nat
    BY PowerTypes
  <2>4. \A n \in Nat : Power(2, n) \in Nat
    BY PowerTypes
  <2> QED BY <2>1, <2>2, <2>3, <2>4
<1>2. ASSUME NEW p \in Nat PROVE base * p \in Nat /\ base * p >= 2 * p
  <2>1. PICK c \in Nat : base = 2 + c
    OBVIOUS
  <2>2. base * p = 2 * p + c * p /\ c * p \in Nat
    BY <2>1
  <2> QED BY <2>2
<1>3. ASSUME NEW m \in Nat, NEW n \in Nat, m <= n PROVE Power(base, m) <= Power(base, n)
  <2> DEFINE S == {k \in Nat : Power(base, m) <= Power(base, m + k)}
  <2>1. 0 \in S
    BY <1>1
  <2>2. ASSUME NEW k \in Nat, k \in S PROVE k + 1 \in S
    <3>2. m + k \in Nat /\ m + (k + 1) = (m + k) + 1
      OBVIOUS
    <3>1. PICK p \in Nat, q \in Nat : p = Power(base, m) /\ q = Power(base, m + k) /\ p <= q
      BY <1>1, <2>2, <3>2
    <3>3. Power(base, m + (k + 1)) = base * q
      BY <1>1, <3>1, <3>2
    <3>4. p <= base * q
      BY <1>2, <3>1
    <3> QED BY <3>1, <3>3, <3>4
  <2> HIDE DEF S
  <2>3. \A k \in Nat : k \in S
    BY <2>1, <2>2, SetInduction
  <2>4. n - m \in Nat /\ m + (n - m) = n
    BY <1>3
  <2>5. n - m \in S
    BY <2>3, <2>4
  <2> QED BY <2>4, <2>5 DEF S
<1>4. \A n \in Nat : Power(2, n) <= Power(base, n)
  <2> DEFINE S == {k \in Nat : Power(2, k) <= Power(base, k)}
  <2>1. 0 \in S
    BY <1>1
  <2>2. ASSUME NEW k \in Nat, k \in S PROVE k + 1 \in S
    <3>1. PICK p \in Nat, q \in Nat : p = Power(2, k) /\ q = Power(base, k) /\ p <= q
      BY <1>1, <2>2
    <3>2. Power(2, k + 1) = 2 * p /\ Power(base, k + 1) = base * q
      BY <1>1, <3>1
    <3>3. 2 * p <= base * q
      BY <1>2, <3>1
    <3> QED BY <3>2, <3>3
  <2> HIDE DEF S
  <2>3. \A k \in Nat : k \in S
    BY <2>1, <2>2, SetInduction
  <2> QED BY <2>3 DEF S
<1> QED BY <1>3, <1>4

(* v has n digits, and no leading zero: 0 has none.                        *)
HasSize(v, base, n) ==
  Power(base, n) > v /\ (n = 0 \/ Power(base, n - 1) <= v)

(* The digits of v from the lowest on.                                     *)
IsDigits(v, base, s) ==
  /\ Len(s) \in Nat /\ HasSize(v, base, Len(s))
  /\ \A k \in 1 .. Len(s) : s[k] = DigitChars[((v \div Power(base, k - 1)) % base) + 1]

(* One more digit.                                                         *)
LEMMA SizeStep ==
  ASSUME NEW base \in Nat, base >= 2, NEW v \in Nat, v # 0, NEW n \in Nat,
         HasSize(v \div base, base, n)
  PROVE  HasSize(v, base, n + 1)
<1>1. PICK q \in Nat, r \in 0 .. base - 1 : q = v \div base /\ v = base * q + r
  BY Divided
<1>2. PICK p \in Nat : p = Power(base, n) /\ p >= 1 /\ p > q
  BY <1>1, PowerTypes DEF HasSize
<1>3. Power(base, n + 1) = base * p /\ base * p \in Nat
  <2>1. Power(base, n + 1) = base * Power(base, n)
    BY PowerSteps
  <2>2. base * p \in Nat
    BY <1>2
  <2> QED BY <1>2, <2>1, <2>2
<1>4. base * p > v
  <2>1. PICK c \in Nat : p = q + 1 + c
    <3>1. p - q - 1 \in Nat /\ p = q + 1 + (p - q - 1)
      BY <1>2
    <3> QED BY <3>1
  <2>2. base * p = base * q + base + base * c /\ base * c \in Nat /\ base * q \in Nat
    BY <2>1
  <2> QED BY <1>1, <2>2
<1>5. Power(base, n) <= v
  <2>1. CASE n = 0
    BY <2>1, PowerSteps
  <2>2. CASE n # 0
    <3>1. PICK m \in Nat : n = m + 1
      <4>1. n - 1 \in Nat /\ n = (n - 1) + 1
        BY <2>2
      <4> QED BY <4>1
    <3>2. n - 1 = m
      BY <3>1
    <3>3. PICK x \in Nat : x = Power(base, m) /\ x <= q
      BY <1>1, <2>2, <3>2, PowerTypes DEF HasSize
    <3>4. Power(base, n) = base * x
      BY <3>1, <3>3, PowerSteps
    <3>5. PICK c \in Nat : q = x + c
      <4>1. q - x \in Nat /\ q = x + (q - x)
        BY <3>3
      <4> QED BY <4>1
    <3>6. base * q = base * x + base * c /\ base * c \in Nat /\ base * x \in Nat
      BY <3>5
    <3> QED BY <1>1, <3>4, <3>6
  <2> QED BY <2>1, <2>2
<1>6. (n + 1) - 1 = n
  OBVIOUS
<1> QED BY <1>3, <1>4, <1>5, <1>6 DEF HasSize

(* A number has one size.                                                  *)
LEMMA OneSize ==
  ASSUME NEW base \in Nat, base >= 2, NEW v \in Nat,
         NEW n \in Nat, HasSize(v, base, n), NEW m \in Nat, HasSize(v, base, m)
  PROVE  n = m
<1>1. ASSUME NEW i \in Nat, HasSize(v, base, i), NEW j \in Nat, HasSize(v, base, j), i < j
      PROVE  FALSE
  <2>1. PICK k \in Nat : k = j - 1 /\ i <= k
    BY <1>1
  <2>2. Power(base, i) > v /\ Power(base, k) <= v
    BY <1>1, <2>1 DEF HasSize
  <2>3. Power(base, i) <= Power(base, k)
    BY <2>1, PowersGrow
  <2>4. Power(base, i) \in Nat /\ Power(base, k) \in Nat
    <3>1. base >= 1
      OBVIOUS
    <3>2. \A x \in Nat : Power(base, x) \in Nat
      BY <3>1, PowerTypes
    <3> QED BY <2>1, <3>2
  <2> QED BY <2>2, <2>3, <2>4
<1>2. ~(n < m)
  BY <1>1
<1>3. ~(m < n)
  BY <1>1
<1> QED BY <1>2, <1>3

(* One more digit in front of those that are reversed.                     *)
LEMMA DigitsStep ==
  ASSUME NEW base \in 2 .. 16, NEW v \in Nat, v # 0,
         NEW s \in Seq(Characters), IsDigits(v \div base, base, s)
  PROVE  IsDigits(v, base, <<DigitChars[(v % base) + 1]>> \o s)
<1>0. base \in Nat /\ base >= 2
  OBVIOUS
<1>1. PICK q \in Nat, r \in 0 .. base - 1 : q = v \div base /\ r = v % base
  BY <1>0, Divided, Zenon
<1>2. PICK n \in Nat : n = Len(s) /\ HasSize(q, base, n)
  BY <1>1 DEF IsDigits
<1>3. PICK c \in Characters : c = DigitChars[r + 1]
  <2>1. r + 1 \in 1 .. 16
    OBVIOUS
  <2> QED BY <2>1, DigitChar
<1>4. PICK t : t = <<c>> \o s
  OBVIOUS
<1>5. Len(t) = n + 1 /\ t[1] = c /\ \A k \in 1 .. n : t[k + 1] = s[k]
  BY <1>2, <1>4, Single, ConcatProperties
<1>6. HasSize(v, base, n + 1)
  BY <1>1, <1>2, SizeStep
<1>7. ASSUME NEW k \in 1 .. n + 1
      PROVE  t[k] = DigitChars[((v \div Power(base, k - 1)) % base) + 1]
  <2>1. CASE k = 1
    <3>1. Power(base, k - 1) = 1 /\ v \div 1 = v
      BY <2>1, PowerSteps
    <3> QED BY <1>1, <1>3, <1>5, <2>1, <3>1
  <2>2. CASE k # 1
    <3>1. PICK j \in 1 .. n : k = j + 1 /\ k - 1 = j
      <4>1. k - 1 \in 1 .. n /\ k = (k - 1) + 1
        BY <2>2
      <4> QED BY <4>1
    <3>2. PICK i \in Nat : i = j - 1 /\ i + 1 = j
      OBVIOUS
    <3>3. PICK p \in Nat : p = Power(base, i) /\ p >= 1
      BY PowerTypes
    <3>4. Power(base, j) = base * p
      BY <3>2, <3>3, PowerSteps
    <3>5. (v \div base) \div p = v \div (base * p)
      BY <3>3, QuotientTwice
    <3>6. s[j] = DigitChars[((q \div p) % base) + 1]
      BY <1>1, <1>2, <3>2, <3>3 DEF IsDigits
    <3> QED BY <1>1, <1>5, <3>1, <3>4, <3>5, <3>6
  <2> QED BY <2>1, <2>2
<1> QED BY <1>1, <1>3, <1>4, <1>5, <1>6, <1>7 DEF IsDigits

(* The digits that itoa takes are those of the number.                     *)
LEMMA DigitsRight ==
  ASSUME NEW base \in 2 .. 16, NEW value \in 0 .. WORD - 1
  PROVE  Digits(base)[value] \in Seq(Characters) /\ IsDigits(value, base, Digits(base)[value])
<1>1. PICK n \in Nat : n = WORD - 1
  BY WordFacts
<1>2. PICK low : low = Digits(base)
  OBVIOUS
<1>3. /\ low[0] = <<>>
      /\ \A v \in 1 .. n : low[v] = <<DigitChars[(v % base) + 1]>> \o low[v \div base]
  BY <1>1, <1>2, DigitsSteps
<1> DEFINE Right(v) == low[v] \in Seq(Characters) /\ IsDigits(v, base, low[v])
           S == {m \in Nat : \A v \in 0 .. n : v <= m => Right(v)}
<1>0. Right(0)
  <2>1. low[0] \in Seq(Characters) /\ Len(low[0]) = 0
    BY <1>3, EmptySeq
  <2>2. Power(base, 0) = 1
    BY PowerSteps
  <2> QED BY <2>1, <2>2 DEF IsDigits, HasSize
<1>4. 0 \in S
  BY <1>0
<1>5. ASSUME NEW m \in Nat, m \in S PROVE m + 1 \in S
  <2> SUFFICES ASSUME NEW v \in 0 .. n, v <= m + 1, v # 0 PROVE Right(v)
    BY <1>0
  <2>1. PICK q \in Nat, r \in 0 .. base - 1 : q = v \div base /\ r = v % base /\ q < v
    BY Divided
  <2>2. low[q] \in Seq(Characters) /\ IsDigits(q, base, low[q])
    BY <1>5, <2>1
  <2>3. PICK c \in Characters : c = DigitChars[r + 1]
    <3>1. r + 1 \in 1 .. 16
      BY <2>1
    <3> QED BY <3>1, DigitChar
  <2>4. low[v] = <<c>> \o low[q]
    <3>1. v \in 1 .. n
      OBVIOUS
    <3> QED BY <1>3, <2>1, <2>3, <3>1, Zenon
  <2>5. low[v] \in Seq(Characters)
    BY <2>2, <2>4, Single, ConcatProperties
  <2>6. IsDigits(v, base, low[v])
    <3>1. PICK s \in Seq(Characters) : s = low[q] /\ IsDigits(v \div base, base, s)
      BY <2>1, <2>2
    <3>3. v \in Nat /\ v # 0
      OBVIOUS
    <3>2. IsDigits(v, base, <<DigitChars[(v % base) + 1]>> \o s)
      BY <3>1, <3>3, DigitsStep, Zenon
    <3> QED BY <2>1, <2>3, <2>4, <3>1, <3>2
  <2> QED BY <2>5, <2>6
<1> HIDE DEF S
<1>6. value \in S
  BY <1>4, <1>5, SetInduction
<1>7. Right(value)
  BY <1>1, <1>6 DEF S
<1> QED BY <1>2, <1>7

(* What itoa makes of a number is its numeral.                             *)
LEMMA ItoaIsNumeral ==
  ASSUME NEW base \in {8, 10, 16}, NEW value \in 0 .. WORD - 1
  PROVE  itoa(value, base) = Numeral(value, base) /\ Numeral(value, base) \in Seq(Characters)
<1>0. base \in 2 .. 16 /\ base \in Nat /\ base >= 2 /\ base >= 1 /\ value \in Nat
  BY WordFacts
<1>1. PICK n : n = CHOOSE m \in 1 .. LongBits :
                 Power(base, m) > value /\ (m = 1 \/ Power(base, m - 1) <= value)
  OBVIOUS
<1>2. Numeral(value, base) =
        [k \in 1 .. n |-> DigitChars[((value \div Power(base, n - k)) % base) + 1]]
  BY <1>1 DEF Numeral
<1>3. itoa(value, base) \in Seq(Characters)
  BY <1>0, ItoaTypes
<1>4. CASE value = 0
  <2>1. 1 \in 1 .. LongBits /\ Power(base, 1) > 0
    <3>1. Power(base, 1) \in Nat /\ Power(base, 1) >= 1
      BY <1>0, PowerTypes
    <3> QED BY <3>1, WordFacts
  <2>2. \A m \in 1 .. LongBits : m = 1 \/ Power(base, m - 1) <= value => m = 1
    <3> SUFFICES ASSUME NEW m \in 1 .. LongBits, Power(base, m - 1) <= value PROVE m = 1
      OBVIOUS
    <3>1. m - 1 \in Nat
      BY WordFacts
    <3>2. Power(base, m - 1) \in Nat /\ Power(base, m - 1) >= 1
      BY <1>0, <3>1, PowerTypes
    <3> QED BY <1>4, <3>2
  <2>3. n = 1
    BY <1>1, <1>4, <2>1, <2>2
  <2>4. (value \div Power(base, 0)) % base = 0
    <3>1. Power(base, 0) = 1
      BY PowerSteps
    <3> QED BY <1>0, <1>4, <3>1
  <2>5. Numeral(value, base) = <<"0">>
    <3>1. Numeral(value, base) = [k \in 1 .. 1 |-> "0"]
      <4>1. \A k \in 1 .. 1 : n - k = 0
        BY <2>3
      <4> QED BY <1>2, <2>3, <2>4, <4>1, DigitChar
    <3> QED BY <3>1
  <2>6. itoa(value, base) = <<"0">>
    BY <1>0, <1>4 DEF itoa
  <2> QED BY <1>3, <2>5, <2>6
<1>5. CASE value # 0
  <2>1. PICK s \in Seq(Characters) : s = Digits(base)[value] /\ IsDigits(value, base, s)
    BY <1>0, DigitsRight
  <2>2. PICK size \in Nat : size = Len(s) /\ HasSize(value, base, size)
    BY <2>1 DEF IsDigits
  <2>3. size # 0
    <3>1. Power(base, 0) = 1
      BY PowerSteps
    <3> QED BY <1>0, <1>5, <2>2, <3>1 DEF HasSize
  <2>4. size \in 1 .. LongBits
    <3> SUFFICES ASSUME size > LongBits PROVE FALSE
      BY <2>3, WordFacts
    <3>1. PICK j \in Nat : j = size - 1 /\ LongBits <= j
      BY WordFacts
    <3>2. Power(base, j) <= value
      BY <2>2, <2>3, <3>1 DEF HasSize
    <3>3. Power(base, LongBits) <= Power(base, j) /\ Power(2, LongBits) <= Power(base, LongBits)
      BY <1>0, <3>1, PowersGrow, WordFacts
    <3>4. \A i \in Nat : Power(base, i) \in Nat
      BY <1>0, PowerTypes
    <3>5. WORD \in Nat /\ WORD = Power(2, LongBits) /\ LongBits \in Nat /\ value < WORD
      BY WordFacts
    <3>6. PICK word \in Nat, high \in Nat, low \in Nat :
            word = WORD /\ high = Power(base, j) /\ low = Power(base, LongBits)
      BY <3>1, <3>4, <3>5
    <3>7. word <= low /\ low <= high /\ high <= value /\ value < word
      BY <3>2, <3>3, <3>5, <3>6
    <3> QED BY <1>0, <3>7
  <2>5. /\ Power(base, size) > value
        /\ (size = 1 \/ Power(base, size - 1) <= value)
    BY <2>2, <2>3 DEF HasSize
  <2>6. ASSUME NEW m \in 1 .. LongBits, Power(base, m) > value,
               m = 1 \/ Power(base, m - 1) <= value
        PROVE  m = size
    <3>1. m \in Nat /\ m # 0
      BY WordFacts
    <3>2. Power(base, m - 1) <= value
      <4>1. CASE m = 1
        <5>1. m - 1 = 0 /\ Power(base, 0) = 1
          BY <4>1, PowerSteps
        <5> QED BY <1>0, <1>5, <5>1
      <4> QED BY <2>6, <4>1
    <3>3. HasSize(value, base, m)
      BY <2>6, <3>2 DEF HasSize
    <3> QED BY <1>0, <2>2, <3>1, <3>3, OneSize
  <2>7. n = size
    BY <1>1, <2>4, <2>5, <2>6
  <2>8. itoa(value, base) = [k \in 1 .. size |-> s[(size - k) + 1]]
    BY <1>0, <1>5, <2>1, <2>2 DEF itoa, Reverse
  <2>9. ASSUME NEW k \in 1 .. size
        PROVE  s[(size - k) + 1] = DigitChars[((value \div Power(base, size - k)) % base) + 1]
    <3>1. PICK j \in 1 .. size : j = (size - k) + 1 /\ j - 1 = size - k
      OBVIOUS
    <3>2. s[j] = DigitChars[((value \div Power(base, j - 1)) % base) + 1]
      BY <2>1, <2>2 DEF IsDigits
    <3> QED BY <3>1, <3>2
  <2>10. itoa(value, base) = Numeral(value, base)
    BY <1>2, <2>7, <2>8, <2>9
  <2> QED BY <1>3, <2>10
<1> QED BY <1>4, <1>5

-----------------------------------------------------------------------------
(* What a format means: a recursive function from its end on.              *)

(* From the n-th character and the m-th argument, given what follows.      *)
MeansFrom(fmt, words, h, n, m) ==
  IF n > Len(fmt) THEN <<>>
  ELSE IF fmt[n] # "%" THEN <<fmt[n]>> \o h[<<n + 1, m>>]
  ELSE LET e == EndOf(fmt, n)
       IN  CASE e = 0 -> <<>>
             [] e # 0 /\ fmt[e] \in Conversions ->
                  IF m > Len(words) THEN <<>>
                  ELSE Meaning(fmt[e], {fmt[k] : k \in n + 1 .. e - 1}, words[m])
                         \o h[<<e + 1, m + 1>>]
             [] e # 0 /\ fmt[e] = "%" -> <<"%">> \o h[<<e + 1, m>>]
             [] OTHER -> <<"%", fmt[e]>> \o h[<<e + 1, m>>]

(* What the format means from each place at or behind low on.              *)
MeansBehind(fmt, words, low, h) ==
  h = [at \in (low .. Len(fmt) + 1) \X (1 .. Len(words) + 1) |->
         MeansFrom(fmt, words, h, at[1], at[2])]

From(fmt, words) == CHOOSE h : MeansBehind(fmt, words, 1, h)

(* What a call means is what the format means from its beginning,          *)
LEMMA MeantIsFrom ==
  ASSUME NEW fmt, NEW words
  PROVE  Meant(fmt, words) = From(fmt, words)[<<1, 1>>]
BY DEF Meant, From, MeansBehind, MeansFrom

(* and what it means from a place on is one step of that recursion.        *)
LEMMA MeansAt ==
  ASSUME NEW fmt, NEW words, NEW low, NEW h, MeansBehind(fmt, words, low, h),
         NEW n \in low .. Len(fmt) + 1, NEW m \in 1 .. Len(words) + 1
  PROVE  h[<<n, m>>] = MeansFrom(fmt, words, h, n, m)
<1>1. PICK Places : Places = (low .. Len(fmt) + 1) \X (1 .. Len(words) + 1)
  OBVIOUS
<1>2. h = [at \in Places |-> MeansFrom(fmt, words, h, at[1], at[2])]
  BY <1>1, Zenon DEF MeansBehind
<1>3. PICK at : at = <<n, m>>
  OBVIOUS
<1>4. at \in Places /\ at[1] = n /\ at[2] = m
  BY <1>1, <1>3
<1>5. h[at] = MeansFrom(fmt, words, h, at[1], at[2])
  BY <1>2, <1>4, Zenon
<1> QED BY <1>3, <1>4, <1>5

(* The end of a directive is the first character that is not a flag.       *)
LEMMA EndFacts ==
  ASSUME NEW fmt \in Seq(Characters), NEW n \in 1 .. Len(fmt)
  PROVE  \/ /\ EndOf(fmt, n) = 0
            /\ \A j \in n + 1 .. Len(fmt) : fmt[j] \in {"l", "#"}
         \/ /\ EndOf(fmt, n) \in n + 1 .. Len(fmt) /\ EndOf(fmt, n) # 0
            /\ fmt[EndOf(fmt, n)] \notin {"l", "#"}
            /\ \A j \in n + 1 .. EndOf(fmt, n) - 1 : fmt[j] \in {"l", "#"}
<1>1. PICK len \in Nat : len = Len(fmt)
  BY LenProperties
<1>2. PICK ends : ends = {k \in n + 1 .. Len(fmt) : fmt[k] \notin {"l", "#"}}
  OBVIOUS
<1>3. EndOf(fmt, n) = IF ends = {} THEN 0 ELSE CHOOSE k \in ends : \A j \in ends : k <= j
  BY <1>2 DEF EndOf
<1>4. CASE ends = {}
  BY <1>2, <1>3, <1>4
<1>5. CASE ends # {}
  <2>1. ends \in SUBSET Nat
    BY <1>1, <1>2
  <2>2. \E k \in ends : \A j \in ends : k <= j
    BY <1>5, <2>1, LeastExists
  <2>3. PICK e \in ends : e = EndOf(fmt, n) /\ \A j \in ends : e <= j
    BY <1>3, <1>5, <2>2
  <2>4. e \in n + 1 .. len /\ fmt[e] \notin {"l", "#"} /\ e # 0
    BY <1>1, <1>2
  <2>5. \A j \in n + 1 .. e - 1 : fmt[j] \in {"l", "#"}
    <3> SUFFICES ASSUME NEW j \in n + 1 .. e - 1, fmt[j] \notin {"l", "#"} PROVE FALSE
      OBVIOUS
    <3>1. j \in n + 1 .. len /\ ~(e <= j)
      BY <1>1, <2>4
    <3> QED BY <1>1, <1>2, <2>3, <3>1
  <2> QED BY <1>1, <2>3, <2>4, <2>5
<1> QED BY <1>4, <1>5

(* The end of a directive, when the scan has come to it.                   *)
LEMMA EndIs ==
  ASSUME NEW fmt \in Seq(Characters), NEW n \in 1 .. Len(fmt), NEW k \in n + 1 .. Len(fmt),
         fmt[k] \notin {"l", "#"}, \A j \in n + 1 .. k - 1 : fmt[j] \in {"l", "#"}
  PROVE  EndOf(fmt, n) = k
<1>1. PICK len \in Nat : len = Len(fmt)
  BY LenProperties
<1>2. PICK e : e = EndOf(fmt, n)
  OBVIOUS
<1>3. /\ e \in n + 1 .. len /\ fmt[e] \notin {"l", "#"}
      /\ \A j \in n + 1 .. e - 1 : fmt[j] \in {"l", "#"}
  BY <1>1, <1>2, EndFacts
<1>4. ~(e < k)
  BY <1>1, <1>3
<1>5. ~(k < e)
  BY <1>1, <1>3
<1> QED BY <1>1, <1>2, <1>3, <1>4, <1>5

(* What a format means from a place depends on what it means behind it.    *)
LEMMA MeansLocal ==
  ASSUME NEW fmt \in Seq(Characters), NEW words \in Seq(Words),
         NEW n \in 1 .. Len(fmt) + 1, NEW m \in 1 .. Len(words) + 1, NEW h, NEW g,
         \A x \in n + 1 .. Len(fmt) + 1, y \in 1 .. Len(words) + 1 : h[<<x, y>>] = g[<<x, y>>]
  PROVE  MeansFrom(fmt, words, h, n, m) = MeansFrom(fmt, words, g, n, m)
<1>1. PICK len \in Nat, count \in Nat : len = Len(fmt) /\ count = Len(words)
  BY LenProperties
<1>2. CASE n > len
  BY <1>1, <1>2 DEF MeansFrom
<1>3. CASE n <= len
  <2>1. n \in 1 .. len /\ n + 1 \in n + 1 .. len + 1
    BY <1>1, <1>3
  <2>2. h[<<n + 1, m>>] = g[<<n + 1, m>>]
    BY <1>1, <2>1
  <2>3. PICK e : e = EndOf(fmt, n)
    OBVIOUS
  <2>4. e # 0 => e + 1 \in n + 1 .. len + 1
    <3>1. e = 0 \/ e \in n + 1 .. len
      BY <1>1, <2>1, <2>3, EndFacts
    <3> QED BY <2>1, <3>1
  <2>5. e # 0 => h[<<e + 1, m>>] = g[<<e + 1, m>>]
    BY <1>1, <2>4
  <2>6. e # 0 /\ ~(m > count) => h[<<e + 1, m + 1>>] = g[<<e + 1, m + 1>>]
    <3>1. ~(m > count) => m + 1 \in 1 .. count + 1
      BY <1>1
    <3> QED BY <1>1, <2>4, <3>1
  <2>7. CASE fmt[n] # "%"
    BY <2>2, <2>7 DEF MeansFrom
  <2>8. CASE fmt[n] = "%" /\ e = 0
    BY <2>3, <2>8 DEF MeansFrom
  <2>9. CASE fmt[n] = "%" /\ e # 0
    BY <1>1, <2>3, <2>5, <2>6, <2>9 DEF MeansFrom
  <2> QED BY <2>7, <2>8, <2>9
<1> QED BY <1>1, <1>2, <1>3

(* From each place on, there is something it means.                        *)
LEMMA MeansExist ==
  ASSUME NEW fmt \in Seq(Characters), NEW words \in Seq(Words)
  PROVE  \E h : MeansBehind(fmt, words, 1, h)
<1>1. PICK len \in Nat, count \in Nat : len = Len(fmt) /\ count = Len(words)
  BY LenProperties
<1> DEFINE S == {k \in Nat : k <= len => \E h : MeansBehind(fmt, words, len + 1 - k, h)}
<1>2. 0 \in S
  <2>1. PICK h : h = [at \in (len + 1 .. len + 1) \X (1 .. count + 1) |-> <<>>]
    OBVIOUS
  <2>2. \A at \in (len + 1 .. len + 1) \X (1 .. count + 1) :
          MeansFrom(fmt, words, h, at[1], at[2]) = <<>>
    <3>1. \A n, m : n > len => MeansFrom(fmt, words, h, n, m) = <<>>
      BY <1>1 DEF MeansFrom
    <3> QED BY <3>1
  <2>3. MeansBehind(fmt, words, len + 1, h)
    BY <1>1, <2>1, <2>2 DEF MeansBehind
  <2>4. len + 1 - 0 = len + 1
    OBVIOUS
  <2> QED BY <2>3, <2>4
<1>3. ASSUME NEW k \in Nat, k \in S PROVE k + 1 \in S
  <2> SUFFICES ASSUME k + 1 <= len
               PROVE  \E h : MeansBehind(fmt, words, len + 1 - (k + 1), h)
    OBVIOUS
  <2>1. PICK low \in 1 .. len : low = len + 1 - (k + 1) /\ low + 1 = len + 1 - k
    <3>1. len + 1 - (k + 1) \in 1 .. len /\ (len + 1 - (k + 1)) + 1 = len + 1 - k
      OBVIOUS
    <3> QED BY <3>1
  <2>2. PICK h : MeansBehind(fmt, words, low + 1, h)
    BY <1>3, <2>1
  <2>3. PICK g : g = [at \in (low .. len + 1) \X (1 .. count + 1) |->
                        IF at[1] = low THEN MeansFrom(fmt, words, h, low, at[2]) ELSE h[at]]
    OBVIOUS
  <2>4. \A x \in low + 1 .. len + 1, y \in 1 .. count + 1 : h[<<x, y>>] = g[<<x, y>>]
    <3> SUFFICES ASSUME NEW x \in low + 1 .. len + 1, NEW y \in 1 .. count + 1
                 PROVE  h[<<x, y>>] = g[<<x, y>>]
      OBVIOUS
    <3>1. PICK at : at = <<x, y>>
      OBVIOUS
    <3>2. at \in (low .. len + 1) \X (1 .. count + 1) /\ at[1] # low
      BY <3>1
    <3> QED BY <2>3, <3>1, <3>2
  <2>5. ASSUME NEW n \in low .. len + 1, NEW m \in 1 .. count + 1
        PROVE  g[<<n, m>>] = MeansFrom(fmt, words, g, n, m)
    <3>1. n \in 1 .. Len(fmt) + 1 /\ m \in 1 .. Len(words) + 1
      BY <1>1
    <3>2. \A x \in n + 1 .. Len(fmt) + 1, y \in 1 .. Len(words) + 1 :
            h[<<x, y>>] = g[<<x, y>>]
      <4>1. \A x \in n + 1 .. len + 1 : x \in low + 1 .. len + 1
        OBVIOUS
      <4> QED BY <1>1, <2>4, <4>1
    <3>3. MeansFrom(fmt, words, h, n, m) = MeansFrom(fmt, words, g, n, m)
      BY <3>1, <3>2, MeansLocal
    <3>4. PICK at : at = <<n, m>>
      OBVIOUS
    <3>5. at \in (low .. len + 1) \X (1 .. count + 1) /\ at[1] = n /\ at[2] = m
      BY <3>4
    <3>6. CASE n = low
      BY <2>3, <3>3, <3>4, <3>5, <3>6
    <3>7. CASE n # low
      <4>1. n \in low + 1 .. Len(fmt) + 1
        BY <1>1, <3>7
      <4>2. h[<<n, m>>] = MeansFrom(fmt, words, h, n, m)
        BY <2>2, <3>1, <4>1, MeansAt
      <4> QED BY <2>3, <3>3, <3>4, <3>5, <3>7, <4>2
    <3> QED BY <3>6, <3>7
  <2>6. g = [at \in (low .. len + 1) \X (1 .. count + 1) |->
               MeansFrom(fmt, words, g, at[1], at[2])]
    <3>1. ASSUME NEW at \in (low .. len + 1) \X (1 .. count + 1)
          PROVE  g[at] = MeansFrom(fmt, words, g, at[1], at[2])
      <4>1. PICK n \in low .. len + 1, m \in 1 .. count + 1 :
              n = at[1] /\ m = at[2] /\ at = <<n, m>>
        OBVIOUS
      <4> QED BY <2>5, <4>1
    <3>2. PICK Places : Places = (low .. len + 1) \X (1 .. count + 1)
      OBVIOUS
    <3>3. DOMAIN g = Places /\ g = [at \in Places |-> g[at]]
      BY <2>3, <3>2
    <3> QED BY <3>1, <3>2, <3>3, Zenon
  <2>7. MeansBehind(fmt, words, low, g)
    BY <1>1, <2>6 DEF MeansBehind
  <2> QED BY <2>1, <2>7
<1> HIDE DEF S
<1>4. len \in S
  BY <1>2, <1>3, SetInduction
<1>5. len + 1 - len = 1
  OBVIOUS
<1>6. \E h : MeansBehind(fmt, words, len + 1 - len, h)
  BY <1>4 DEF S
<1> QED BY <1>5, <1>6

(* Powers of two up to the word.                                           *)
LEMMA Bits ==
  ASSUME NEW bits \in {IntBits, LongBits}
  PROVE  /\ bits \in 1 .. LongBits /\ bits - 1 \in Nat
         /\ Power(2, bits) \in Nat /\ Power(2, bits - 1) \in Nat /\ Power(2, bits - 1) >= 1
         /\ Power(2, bits) = 2 * Power(2, bits - 1)
         /\ Power(2, bits) <= WORD /\ Power(2, bits - 1) <= WORD \div 2
         /\ bits = LongBits => Power(2, bits) = WORD /\ Power(2, bits - 1) = WORD \div 2
<1>1. LongBits \in Nat /\ LongBits >= 1 /\ bits \in 1 .. LongBits
  BY PrintfAssumption, WordFacts
<1>2. PICK n \in Nat, max \in Nat : n = bits - 1 /\ n + 1 = bits /\ max = LongBits - 1
                                    /\ max + 1 = LongBits
  BY <1>1
<1>3. \A k \in Nat : Power(2, k) \in Nat /\ Power(2, k) >= 1
  BY PowerTypes
<1>4. PICK p \in Nat, q \in Nat : p = Power(2, n) /\ q = Power(2, max) /\ p >= 1
  BY <1>3
<1>5. Power(2, n + 1) = 2 * p /\ Power(2, max + 1) = 2 * q
  BY <1>4, PowerSteps
<1>6. p <= q
  <2>1. n <= max
    BY <1>1, <1>2
  <2> QED BY <1>4, <2>1, PowersGrow
<1>7. WORD = 2 * q /\ WORD \div 2 = q
  <2>1. WORD = 2 * q
    BY <1>2, <1>5, WordFacts
  <2>2. (2 * q) \div 2 = q
    OBVIOUS
  <2> QED BY <2>1, <2>2
<1>8. bits = LongBits => p = q
  BY <1>2, <1>4
<1> QED BY <1>1, <1>2, <1>4, <1>5, <1>6, <1>7, <1>8

(* The numerals of signed numbers are characters too.                      *)
LEMMA MeaningTypes ==
  ASSUME NEW c \in Conversions, NEW flags, NEW word \in Words
  PROVE  Meaning(c, flags, word) \in Seq(Characters)
<1>1. PICK bits \in {IntBits, LongBits} : bits = IF "l" \in flags THEN LongBits ELSE IntBits
  OBVIOUS
<1>2. word \in 0 .. WORD - 1
  BY PrintfAssumption
<1>3. PICK p \in Nat, half \in Nat : /\ p = Power(2, bits) /\ half = Power(2, bits - 1)
                                     /\ p = 2 * half /\ half >= 1 /\ p <= WORD
  BY Bits
<1>4. PICK v \in 0 .. WORD - 1 : v = word % Power(2, bits)
  <2>1. bits \in Nat
    BY Bits, WordFacts
  <2> QED BY <1>2, <2>1, Remainder
<1>5. v < p
  <2>1. PICK w \in Nat : w = word
    BY <1>2, WordFacts
  <2>3. p >= 1
    BY <1>3
  <2>2. w % p \in 0 .. p - 1
    BY <2>3, DivMod
  <2> QED BY <1>3, <1>4, <2>1, <2>2
<1>6. \A base \in {8, 10, 16} : /\ Numeral(v, base) \in Seq(Characters)
                                /\ Numeral(word, base) \in Seq(Characters)
  BY <1>2, <1>4, ItoaIsNumeral
<1>7. SignedNumeral(v, bits) \in Seq(Characters)
  <2>1. CASE v < half
    BY <1>3, <1>6, <2>1 DEF SignedNumeral
  <2>2. CASE ~(v < half)
    <3>1. PICK w \in 0 .. WORD - 1 : w = p - v
      <4>1. p - v \in 0 .. WORD - 1
        BY <1>3, <1>4, <1>5, <2>2, WordFacts
      <4> QED BY <4>1
    <3>2. Numeral(w, 10) \in Seq(Characters)
      BY ItoaIsNumeral
    <3>3. <<"-">> \in Seq(Characters)
      BY PrintfAssumption, Single
    <3>4. <<"-">> \o Numeral(w, 10) \in Seq(Characters)
      BY <3>2, <3>3, ConcatProperties
    <3> QED BY <1>3, <2>2, <3>1, <3>4 DEF SignedNumeral
  <2> QED BY <2>1, <2>2
<1>8. /\ <<"0", "x">> \o Numeral(v, 16) \in Seq(Characters)
      /\ <<"0">> \o Numeral(v, 8) \in Seq(Characters)
      /\ <<"0", "x">> \o Numeral(word, 16) \in Seq(Characters)
  BY <1>6, OwnTexts, ConcatProperties
<1>9. <<CharOf[word]>> \in Seq(Characters)
  BY PrintfAssumption, Single
<1>10. (IF word = 0 THEN Null ELSE TextAt[word]) \in Seq(Characters)
  BY PrintfAssumption, OwnTexts
<1>11. CASE c = "d"
  BY <1>1, <1>4, <1>7, <1>11 DEF Meaning
<1>12. CASE c = "u"
  BY <1>1, <1>4, <1>6, <1>12 DEF Meaning
<1>13. CASE c = "x"
  BY <1>1, <1>4, <1>6, <1>8, <1>13 DEF Meaning
<1>14. CASE c = "o"
  BY <1>1, <1>4, <1>6, <1>8, <1>14 DEF Meaning
<1>15. CASE c = "p"
  BY <1>8, <1>15 DEF Meaning
<1>16. CASE c = "c"
  BY <1>9, <1>16 DEF Meaning
<1>17. CASE c = "s"
  BY <1>10, <1>17 DEF Meaning
<1> QED BY <1>11, <1>12, <1>13, <1>14, <1>15, <1>16, <1>17 DEF Conversions

(* What a format means is characters, and what it means from a place on is *)
(* the text of what stands there and what it means behind it.              *)
LEMMA FromFacts ==
  ASSUME NEW fmt \in Seq(Characters), NEW words \in Seq(Words)
  PROVE  /\ \A n \in 1 .. Len(fmt) + 1, m \in 1 .. Len(words) + 1 :
              /\ From(fmt, words)[<<n, m>>] = MeansFrom(fmt, words, From(fmt, words), n, m)
              /\ From(fmt, words)[<<n, m>>] \in Seq(Characters)
         /\ Meant(fmt, words) = From(fmt, words)[<<1, 1>>]
<1>1. PICK len \in Nat, count \in Nat : len = Len(fmt) /\ count = Len(words)
  BY LenProperties
<1>2. PICK h : h = From(fmt, words)
  OBVIOUS
<1>3. MeansBehind(fmt, words, 1, h)
  BY <1>2, MeansExist DEF From
<1>4. ASSUME NEW n \in 1 .. len + 1, NEW m \in 1 .. count + 1
      PROVE  h[<<n, m>>] = MeansFrom(fmt, words, h, n, m)
  BY <1>1, <1>3, MeansAt
<1> DEFINE S == {k \in Nat : \A n \in 1 .. len + 1, m \in 1 .. count + 1 :
                               n >= len + 1 - k => h[<<n, m>>] \in Seq(Characters)}
<1>5. ASSUME NEW n \in 1 .. len + 1, NEW m \in 1 .. count + 1,
             \A x \in n + 1 .. len + 1, y \in 1 .. count + 1 : h[<<x, y>>] \in Seq(Characters)
      PROVE  h[<<n, m>>] \in Seq(Characters)
  <2>1. h[<<n, m>>] = MeansFrom(fmt, words, h, n, m)
    BY <1>4
  <2>2. CASE n > len
    BY <1>1, <2>1, <2>2, OwnTexts DEF MeansFrom
  <2>3. CASE n <= len
    <3>1. PICK e : e = EndOf(fmt, n)
      OBVIOUS
    <3>2. fmt[n] \in Characters /\ <<fmt[n]>> \in Seq(Characters) /\ n + 1 \in n + 1 .. len + 1
      BY <1>1, <2>3, ElementOfSeq, Single
    <3>3. CASE fmt[n] # "%"
      <4>1. h[<<n + 1, m>>] \in Seq(Characters)
        BY <1>5, <3>2
      <4>2. <<fmt[n]>> \o h[<<n + 1, m>>] \in Seq(Characters)
        BY <3>2, <4>1, ConcatProperties
      <4>3. ~(n > Len(fmt))
        BY <1>1, <2>3
      <4> QED BY <2>1, <3>3, <4>2, <4>3 DEF MeansFrom
    <3>4. CASE fmt[n] = "%" /\ e = 0
      BY <2>1, <3>1, <3>4, OwnTexts DEF MeansFrom
    <3>5. CASE fmt[n] = "%" /\ e # 0
      <4>1. e \in n + 1 .. len /\ e \in 1 .. len /\ e + 1 \in n + 1 .. len + 1
        <5>1. e \in n + 1 .. len
          BY <1>1, <2>3, <3>1, <3>5, EndFacts
        <5> QED BY <5>1
      <4>2. fmt[e] \in Characters
        BY <1>1, <4>1, ElementOfSeq
      <4>3. h[<<e + 1, m>>] \in Seq(Characters)
        BY <1>5, <4>1
      <4>4. <<"%">> \in Seq(Characters) /\ <<"%", fmt[e]>> \in Seq(Characters)
        <5>1. "%" \in Characters
          BY PrintfAssumption
        <5>2. \A x, y \in Characters : <<x, y>> \in Seq(Characters)
          OBVIOUS
        <5> QED BY <4>2, <5>1, <5>2, Single
      <4>5. /\ <<"%">> \o h[<<e + 1, m>>] \in Seq(Characters)
            /\ <<"%", fmt[e]>> \o h[<<e + 1, m>>] \in Seq(Characters)
        BY <4>3, <4>4, ConcatProperties
      <4>6. PICK flags : flags = {fmt[k] : k \in n + 1 .. e - 1}
        OBVIOUS
      <4>7. ASSUME fmt[e] \in Conversions, ~(m > count)
            PROVE  Meaning(fmt[e], flags, words[m]) \o h[<<e + 1, m + 1>>] \in Seq(Characters)
        <5>1. m \in 1 .. count /\ m + 1 \in 1 .. count + 1
          BY <4>7
        <5>2. words[m] \in Words
          BY <1>1, <5>1, ElementOfSeq
        <5>3. Meaning(fmt[e], flags, words[m]) \in Seq(Characters)
          BY <4>7, <5>2, MeaningTypes
        <5>4. h[<<e + 1, m + 1>>] \in Seq(Characters)
          BY <1>5, <4>1, <5>1
        <5> QED BY <5>3, <5>4, ConcatProperties
      <4>8. ~(n > Len(fmt)) /\ (m > Len(words) <=> m > count)
        BY <1>1, <2>3
      <4>9. MeansFrom(fmt, words, h, n, m) =
              CASE e = 0 -> <<>>
                [] e # 0 /\ fmt[e] \in Conversions ->
                     IF m > Len(words) THEN <<>>
                     ELSE Meaning(fmt[e], flags, words[m]) \o h[<<e + 1, m + 1>>]
                [] e # 0 /\ fmt[e] = "%" -> <<"%">> \o h[<<e + 1, m>>]
                [] OTHER -> <<"%", fmt[e]>> \o h[<<e + 1, m>>]
        BY <3>1, <3>5, <4>6, <4>8 DEF MeansFrom
      <4>10. CASE fmt[e] \in Conversions
        <5>1. fmt[e] # "%"
          BY <4>10 DEF Conversions
        <5>2. CASE m > count
          BY <2>1, <3>5, <4>8, <4>9, <4>10, <5>1, <5>2, OwnTexts
        <5>3. CASE ~(m > count)
          BY <2>1, <3>5, <4>7, <4>8, <4>9, <4>10, <5>1, <5>3
        <5> QED BY <5>2, <5>3
      <4>11. CASE fmt[e] \notin Conversions
        BY <2>1, <3>5, <4>5, <4>9, <4>11
      <4> QED BY <4>10, <4>11
    <3> QED BY <3>3, <3>4, <3>5
  <2> QED BY <1>1, <2>2, <2>3
<1>6. 0 \in S
  <2> SUFFICES ASSUME NEW n \in 1 .. len + 1, NEW m \in 1 .. count + 1, n >= len + 1
               PROVE  h[<<n, m>>] \in Seq(Characters)
    OBVIOUS
  <2>1. \A x \in n + 1 .. len + 1 : FALSE
    OBVIOUS
  <2> QED BY <1>5, <2>1
<1>7. ASSUME NEW k \in Nat, k \in S PROVE k + 1 \in S
  <2> SUFFICES ASSUME NEW n \in 1 .. len + 1, NEW m \in 1 .. count + 1,
                      n >= len + 1 - (k + 1)
               PROVE  h[<<n, m>>] \in Seq(Characters)
    OBVIOUS
  <2>1. \A x \in n + 1 .. len + 1 : x \in 1 .. len + 1 /\ x >= len + 1 - k
    OBVIOUS
  <2>2. \A x \in n + 1 .. len + 1, y \in 1 .. count + 1 : h[<<x, y>>] \in Seq(Characters)
    BY <1>7, <2>1
  <2> QED BY <1>5, <2>2
<1> HIDE DEF S
<1>8. len \in S
  BY <1>6, <1>7, SetInduction
<1>9. \A n \in 1 .. len + 1, m \in 1 .. count + 1 : h[<<n, m>>] \in Seq(Characters)
  <2>1. \A n \in 1 .. len + 1 : n >= len + 1 - len
    OBVIOUS
  <2> QED BY <1>8, <2>1 DEF S
<1> QED BY <1>1, <1>2, <1>4, <1>9, MeantIsFrom

-----------------------------------------------------------------------------
(* The scan puts what the format means.                                    *)

(* A directive that the scan is in.                                        *)
Directive(n) ==
  LET flags == {format[k] : k \in n + 1 .. f - 1}
  IN  /\ format[n] = "%" /\ flags \subseteq {"l", "#"}
      /\ is_long <=> "l" \in flags
      /\ is_alt <=> "#" \in flags

(* What was put, and what is meant from here on, is what was meant.        *)
MeantInv ==
  /\ pc = "text" /\ ~NegativeInt =>
       out \o From(format, args)[<<f, a>>] = Meant(format, args)
  /\ pc = "directive" => \E n \in 1 .. f - 1 :
       /\ Directive(n)
       /\ ~NegativeInt => out \o From(format, args)[<<n, a>>] = Meant(format, args)
  /\ PrintsAsMeant

(* A conversion puts the meaning of its directive.                         *)
LEMMA ConvertMeans ==
  ASSUME PrintfTypeOK, ScanInv, convert, ~NegativeInt, NEW flags,
         is_long <=> "l" \in flags, is_alt <=> "#" \in flags
  PROVE  Converts(Meaning(format[f], flags, args[a]))
<1>1. f <= Len(format) /\ a <= Len(args) /\ pc = "directive"
  BY ConvertTypes
<1>2. format \in Seq(Characters) /\ args \in Seq(Words)
      /\ Len(format) \in Nat /\ Len(args) \in Nat
  BY <1>1, CallFacts
<1>3. a \in 1 .. Len(args) /\ f \in 1 .. Len(format) /\ is_long \in BOOLEAN /\ is_alt \in BOOLEAN
  BY <1>1, <1>2 DEF PrintfTypeOK
<1>4. PICK word \in Words : word = args[a]
  BY <1>2, <1>3, ElementOfSeq
<1>5. word \in 0 .. WORD - 1
  BY PrintfAssumption
<1>6. PICK bits \in {IntBits, LongBits} :
        bits = (IF "l" \in flags THEN LongBits ELSE IntBits) /\ bits \in Nat
  BY Bits
<1>7. PICK p \in Nat, half \in Nat : /\ p = Power(2, bits) /\ half = Power(2, bits - 1)
                                     /\ p = 2 * half /\ half >= 1 /\ p <= WORD
                                     /\ half <= WORD \div 2
                                     /\ bits = LongBits => p = WORD /\ half = WORD \div 2
  BY Bits
<1>8. PICK v \in 0 .. WORD - 1 : v = word % Power(2, bits)
  BY <1>5, <1>6, Remainder
<1>9. v < p
  <2>1. PICK w \in Nat : w = word
    BY <1>5, WordFacts
  <2>2. p >= 1
    BY <1>7
  <2>3. w % p \in 0 .. p - 1
    BY <2>2, DivMod
  <2> QED BY <1>7, <1>8, <2>1, <2>3
<1>10. Taken = v
  <2>1. CASE is_long
    <3>1. bits = LongBits /\ Taken = word /\ p = WORD
      BY <1>4, <1>6, <1>7, <2>1 DEF Taken
    <3>2. PICK w \in Nat, m \in Nat : w = word /\ m = WORD /\ w < m
      BY <1>5, WordFacts
    <3>3. w % m = w
      BY <3>2
    <3> QED BY <1>7, <1>8, <3>1, <3>2, <3>3
  <2>2. CASE ~is_long
    BY <1>4, <1>6, <1>8, <2>2 DEF Taken
  <2> QED BY <2>1, <2>2
<1>11. \A base \in {8, 10, 16} : /\ itoa(v, base) = Numeral(v, base)
                                 /\ itoa(word, base) = Numeral(word, base)
  BY <1>5, <1>8, ItoaIsNumeral
<1>12. \A base \in {8, 10, 16} : /\ putnumber(Taken, base, FALSE) = Numeral(v, base)
                                 /\ putnumber(args[a], base, FALSE) = Numeral(word, base)
  BY <1>4, <1>10, <1>11 DEF putnumber
<1>13. CASE format[f] = "d"
  <2>1. Converts(putnumber(Taken, 10, TRUE))
    BY <1>13 DEF convert, At
  <2>2. Meaning(format[f], flags, args[a]) = SignedNumeral(v, bits)
    BY <1>4, <1>6, <1>8, <1>13 DEF Meaning
  <2>3. CASE v < half
    <3>1. ~Negative(v)
      BY <1>7, <2>3, WordFacts DEF Negative
    <3>2. putnumber(Taken, 10, TRUE) = Numeral(v, 10)
      BY <1>10, <1>11, <3>1 DEF putnumber
    <3>3. SignedNumeral(v, bits) = Numeral(v, 10)
      BY <1>7, <2>3 DEF SignedNumeral
    <3> QED BY <2>1, <2>2, <3>2, <3>3
  <2>4. CASE ~(v < half)
    <3>1. "d" \in Range(format)
      BY <1>2, <1>3, <1>13, LenProperties DEF Range
    <3>2. bits = LongBits
      <4> SUFFICES ASSUME bits = IntBits PROVE FALSE
        OBVIOUS
      <4>1. args[a] % Power(2, IntBits) >= Power(2, IntBits - 1)
        BY <1>4, <1>7, <1>8, <2>4
      <4>2. a \in DOMAIN args
        BY <1>2, <1>3, LenProperties
      <4> QED BY <3>1, <4>1, <4>2 DEF NegativeInt
    <3>3. Negative(v)
      BY <1>7, <2>4, <3>2 DEF Negative
    <3>4. PICK w \in 0 .. WORD - 1 : w = WORD - v /\ w = (WORD - v) % WORD
      <4>1. PICK m \in Nat : m = WORD
        BY WordFacts
      <4>2. m - v \in 0 .. m - 1 /\ m - v \in Nat
        BY <1>7, <1>8, <1>9, <2>4, <3>2, <4>1
      <4>3. (m - v) % m = m - v
        BY <4>1, <4>2
      <4> QED BY <4>1, <4>2, <4>3
    <3>5. putnumber(Taken, 10, TRUE) = <<"-">> \o itoa(w, 10)
      BY <1>10, <3>3, <3>4 DEF putnumber
    <3>6. SignedNumeral(v, bits) = <<"-">> \o Numeral(w, 10)
      BY <1>7, <2>4, <3>2, <3>4 DEF SignedNumeral
    <3>7. itoa(w, 10) = Numeral(w, 10)
      BY ItoaIsNumeral
    <3> QED BY <2>1, <2>2, <3>5, <3>6, <3>7
  <2> QED BY <2>3, <2>4
<1>14. CASE format[f] = "u"
  <2>1. Converts(putnumber(Taken, 10, FALSE))
    BY <1>14 DEF convert, At
  <2>2. Meaning(format[f], flags, args[a]) = Numeral(v, 10)
    BY <1>4, <1>6, <1>8, <1>14 DEF Meaning
  <2> QED BY <1>12, <2>1, <2>2
<1>15. CASE format[f] = "x"
  <2>1. Converts(Prefix(<<"0", "x">>) \o putnumber(Taken, 16, FALSE))
    BY <1>15 DEF convert, At
  <2>2. Meaning(format[f], flags, args[a]) =
          IF "#" \in flags THEN <<"0", "x">> \o Numeral(v, 16) ELSE Numeral(v, 16)
    BY <1>4, <1>6, <1>8, <1>15 DEF Meaning
  <2>3. Numeral(v, 16) \in Seq(Characters)
    BY ItoaIsNumeral
  <2>4. <<>> \o Numeral(v, 16) = Numeral(v, 16)
    BY <2>3, ConcatEmptySeq
  <2>5. putnumber(Taken, 16, FALSE) = Numeral(v, 16)
    BY <1>12
  <2>6. CASE is_alt
    BY <2>1, <2>2, <2>5, <2>6 DEF Prefix
  <2>7. CASE ~is_alt
    BY <2>1, <2>2, <2>4, <2>5, <2>7 DEF Prefix
  <2> QED BY <2>6, <2>7
<1>16. CASE format[f] = "o"
  <2>1. Converts(Prefix(<<"0">>) \o putnumber(Taken, 8, FALSE))
    BY <1>16 DEF convert, At
  <2>2. Meaning(format[f], flags, args[a]) =
          IF "#" \in flags THEN <<"0">> \o Numeral(v, 8) ELSE Numeral(v, 8)
    BY <1>4, <1>6, <1>8, <1>16 DEF Meaning
  <2>3. Numeral(v, 8) \in Seq(Characters)
    BY ItoaIsNumeral
  <2>4. <<>> \o Numeral(v, 8) = Numeral(v, 8)
    BY <2>3, ConcatEmptySeq
  <2>5. putnumber(Taken, 8, FALSE) = Numeral(v, 8)
    BY <1>12
  <2>6. CASE is_alt
    BY <2>1, <2>2, <2>5, <2>6 DEF Prefix
  <2>7. CASE ~is_alt
    BY <2>1, <2>2, <2>4, <2>5, <2>7 DEF Prefix
  <2> QED BY <2>6, <2>7
<1>17. CASE format[f] = "p"
  <2>1. Converts(<<"0", "x">> \o putnumber(args[a], 16, FALSE))
    BY <1>17 DEF convert, At
  <2>2. Meaning(format[f], flags, args[a]) = <<"0", "x">> \o Numeral(word, 16)
    BY <1>4, <1>17 DEF Meaning
  <2> QED BY <1>12, <2>1, <2>2
<1>18. CASE format[f] = "c"
  <2>1. Converts(<<CharOf[args[a]]>>)
    BY <1>18 DEF convert, At
  <2> QED BY <1>18, <2>1 DEF Meaning
<1>19. CASE format[f] = "s"
  <2>1. Converts(IF args[a] = 0 THEN Null ELSE TextAt[args[a]])
    BY <1>19 DEF convert, At
  <2> QED BY <1>19, <2>1 DEF Meaning
<1>20. format[f] \in Conversions
  BY DEF convert, At, Conversions
<1> QED BY <1>13, <1>14, <1>15, <1>16, <1>17, <1>18, <1>19, <1>20 DEF Conversions

(* Each step of the scan keeps it.                                         *)
LEMMA MeantPrintf ==
  ASSUME PrintfTypeOK, ScanInv, MeantInv, printf
  PROVE  MeantInv'
<1>1. pc \in {"text", "directive"}
  BY DEF printf, literal, percent, flag, convert, other, overrun, return, At
<1>2. /\ format \in Seq(Characters) /\ args \in Seq(Words)
      /\ Len(format) \in Nat /\ Len(args) \in Nat /\ out \in Seq(Characters)
      /\ f \in 1 .. Len(format) + 1 /\ a \in 1 .. Len(args) + 1
  BY <1>1, CallFacts DEF PrintfTypeOK
<1>3. PICK len \in Nat, count \in Nat :
        len = Len(format) /\ count = Len(args) /\ DOMAIN format = 1 .. len
  BY <1>2, LenProperties
<1>4. PICK h, all : h = From(format, args) /\ all = Meant(format, args)
  OBVIOUS
<1>5. \A n \in 1 .. len + 1, m \in 1 .. count + 1 :
        /\ h[<<n, m>>] = MeansFrom(format, args, h, n, m)
        /\ h[<<n, m>>] \in Seq(Characters)
  BY <1>2, <1>3, <1>4, FromFacts
<1>6. format' = format /\ args' = args
  BY DEF printf, literal, percent, flag, convert, Converts, other, overrun, return
<1>7. /\ From(format', args') = h /\ Meant(format', args') = all
      /\ NegativeInt' <=> NegativeInt
  <2>1. NegativeInt' <=> NegativeInt
    BY <1>6 DEF NegativeInt
  <2> QED BY <1>4, <1>6, <2>1, Zenon
<1>8. ASSUME NEW new \in Seq(Characters), NEW rest \in Seq(Characters)
      PROVE  (out \o new) \o rest = out \o (new \o rest)
  <2>1. PICK old \in Seq(Characters) : old = out
    BY <1>2
  <2>2. (old \o new) \o rest = old \o (new \o rest)
    BY ConcatAssociative
  <2> QED BY <2>1, <2>2
<1>9. CASE literal
  <2>1. /\ f \in 1 .. len /\ pc = "text" /\ pc' = "text" /\ format[f] # "%"
        /\ out' = out \o <<format[f]>> /\ f' = f + 1 /\ a' = a
    BY <1>2, <1>3, <1>9 DEF literal, Puts
  <2>2. f + 1 \in 1 .. len + 1 /\ ~(f > Len(format))
    BY <1>3, <2>1
  <2>3. h[<<f, a>>] = <<format[f]>> \o h[<<f + 1, a>>]
    <3>1. h[<<f, a>>] = MeansFrom(format, args, h, f, a)
      BY <1>2, <1>3, <1>5
    <3> QED BY <2>1, <2>2, <3>1 DEF MeansFrom
  <2>4. <<format[f]>> \in Seq(Characters) /\ h[<<f + 1, a>>] \in Seq(Characters)
    BY <1>2, <1>3, <1>5, <2>1, <2>2, ElementOfSeq, Single
  <2>5. out' \o h[<<f + 1, a>>] = out \o h[<<f, a>>]
    BY <1>8, <2>1, <2>3, <2>4
  <2>6. ~NegativeInt => out' \o h[<<f', a'>>] = all
    BY <1>4, <2>1, <2>5 DEF MeantInv
  <2> QED BY <1>7, <2>1, <2>6 DEF MeantInv, PrintsAsMeant
<1>10. CASE percent
  <2>1. /\ f \in 1 .. len /\ pc = "text" /\ pc' = "directive" /\ format[f] = "%"
        /\ out' = out /\ f' = f + 1 /\ a' = a /\ is_long' = FALSE /\ is_alt' = FALSE
    BY <1>2, <1>3, <1>10 DEF percent, At
  <2>0. PICK n \in Nat : n = f
    BY <1>3, <2>1
  <2>2. Directive(n)'
    <3>1. PICK flags : flags = {format'[k] : k \in n + 1 .. f' - 1}
      OBVIOUS
    <3>2. flags = {}
      BY <2>0, <2>1, <3>1
    <3>3. (is_long' <=> "l" \in flags) /\ (is_alt' <=> "#" \in flags)
      BY <2>1, <3>2, Zenon
    <3>4. flags \subseteq {"l", "#"} /\ format'[n] = "%"
      BY <1>6, <2>0, <2>1, <3>2
    <3> QED BY <3>1, <3>3, <3>4 DEF Directive
  <2>3. n \in 1 .. f' - 1
    BY <1>3, <2>0, <2>1
  <2>4. ~NegativeInt => out' \o h[<<n, a'>>] = all
    BY <1>4, <2>0, <2>1 DEF MeantInv
  <2>5. \E i \in 1 .. f' - 1 : Directive(i)' /\ (~NegativeInt => out' \o h[<<i, a'>>] = all)
    BY <2>2, <2>3, <2>4
  <2> QED BY <1>7, <2>1, <2>5 DEF MeantInv, PrintsAsMeant
<1>11. CASE return
  <2>1. f > Len(format) /\ pc = "text" /\ pc' = "returned" /\ out' = out
    BY <1>11 DEF return
  <2>2. h[<<f, a>>] = <<>>
    BY <1>2, <1>3, <1>5, <2>1 DEF MeansFrom
  <2>3. out \o <<>> = out
    BY <1>2, ConcatEmptySeq
  <2>4. ~NegativeInt => out' = all
    BY <1>4, <2>1, <2>2, <2>3 DEF MeantInv
  <2> QED BY <1>7, <2>1, <2>4 DEF MeantInv, PrintsAsMeant
<1>12. ASSUME pc = "directive" PROVE MeantInv'
  <2>1. PICK n \in 1 .. f - 1 :
          Directive(n) /\ (~NegativeInt => out \o h[<<n, a>>] = all)
    BY <1>4, <1>12 DEF MeantInv
  <2>2. n \in 1 .. len /\ n \in 1 .. len + 1 /\ ~(n > Len(format)) /\ n \in Nat
    BY <1>2, <1>3
  <2>3. PICK flags : /\ flags = {format[k] : k \in n + 1 .. f - 1}
                     /\ format[n] = "%" /\ flags \subseteq {"l", "#"}
                     /\ is_long <=> "l" \in flags
                     /\ is_alt <=> "#" \in flags
    BY <2>1 DEF Directive
  <2>4. \A j \in n + 1 .. f - 1 : format[j] \in {"l", "#"}
    BY <2>3
  <2>5. h[<<n, a>>] = MeansFrom(format, args, h, n, a)
    BY <1>2, <1>3, <1>5, <2>2
  <2>6. CASE flag
    <3>1. /\ f \in 1 .. len /\ format[f] \in {"l", "#"} /\ pc' = "directive"
          /\ out' = out /\ f' = f + 1 /\ a' = a
      BY <1>2, <1>3, <2>6 DEF flag, At
    <3>0. \/ format[f] = "l" /\ is_long' = TRUE /\ is_alt' = is_alt
          \/ format[f] = "#" /\ is_alt' = TRUE /\ is_long' = is_long
      BY <2>6, Zenon DEF flag, At
    <3>11. format[f] = "l" => format[f] # "#"
      OBVIOUS
    <3>2. (is_long' <=> is_long \/ format[f] = "l") /\ (is_alt' <=> is_alt \/ format[f] = "#")
      <4>1. CASE format[f] = "l"
        <5>1. is_long' = TRUE /\ is_alt' = is_alt /\ format[f] # "#"
          BY <3>0, <3>11, <4>1, Zenon
        <5>2. is_long' /\ (is_alt' <=> is_alt)
          BY <5>1, Zenon
        <5> QED BY <4>1, <5>1, <5>2, Zenon
      <4>2. CASE format[f] = "#"
        <5>1. is_alt' = TRUE /\ is_long' = is_long /\ format[f] # "l"
          BY <3>0, <3>11, <4>2, Zenon
        <5>2. is_alt' /\ (is_long' <=> is_long)
          BY <5>1, Zenon
        <5> QED BY <4>2, <5>1, <5>2, Zenon
      <4> QED BY <3>0, <4>1, <4>2, Zenon
    <3>4. PICK more : more = {format'[k] : k \in n + 1 .. f' - 1}
      OBVIOUS
    <3>5. more = flags \cup {format[f]}
      BY <1>3, <1>6, <2>2, <2>3, <3>1, <3>4
    <3>6. more \subseteq {"l", "#"} /\ format'[n] = "%"
      BY <1>6, <2>3, <3>1, <3>5
    <3>7. (is_long' <=> "l" \in more) /\ (is_alt' <=> "#" \in more)
      BY <2>3, <3>2, <3>5, Zenon
    <3>8. Directive(n)'
      BY <3>4, <3>6, <3>7 DEF Directive
    <3>9. n \in 1 .. f' - 1
      BY <1>2, <1>3, <2>2, <3>1
    <3>10. \E i \in 1 .. f' - 1 : Directive(i)' /\ (~NegativeInt => out' \o h[<<i, a'>>] = all)
      BY <2>1, <3>1, <3>8, <3>9
    <3> QED BY <1>7, <3>1, <3>10 DEF MeantInv, PrintsAsMeant
  <2>7. ASSUME f <= Len(format), format[f] \notin {"l", "#"}
        PROVE  EndOf(format, n) = f /\ f # 0 /\ f + 1 \in 1 .. len + 1
    <3>1. f \in n + 1 .. Len(format) /\ n \in 1 .. Len(format)
      BY <1>2, <1>3, <2>2, <2>7
    <3>2. EndOf(format, n) = f
      BY <1>2, <2>4, <2>7, <3>1, EndIs
    <3> QED BY <1>2, <1>3, <2>7, <3>2
  <2>8. CASE convert
    <3>1. f <= Len(format) /\ a <= Len(args) /\ format[f] \in Conversions
      BY <2>8, ConvertTypes DEF convert, At, Conversions
    <3>2. EndOf(format, n) = f /\ f # 0 /\ f + 1 \in 1 .. len + 1
      BY <2>7, <3>1 DEF Conversions
    <3>3. PICK new : new = Meaning(format[f], flags, args[a])
      OBVIOUS
    <3>4. h[<<n, a>>] = new \o h[<<f + 1, a + 1>>]
      <4>1. ~(a > Len(args)) /\ format[f] # "%"
        BY <1>2, <3>1 DEF Conversions
      <4> QED BY <2>2, <2>3, <2>5, <3>1, <3>2, <3>3, <4>1 DEF MeansFrom
    <3>5. new \in Seq(Characters)
      <4>1. a \in 1 .. Len(args)
        BY <1>2, <3>1
      <4>2. args[a] \in Words
        BY <1>2, <4>1, ElementOfSeq
      <4> QED BY <3>1, <3>3, <4>2, MeaningTypes
    <3>6. h[<<f + 1, a + 1>>] \in Seq(Characters)
      <4>1. a + 1 \in 1 .. count + 1
        BY <1>2, <1>3, <3>1
      <4> QED BY <1>5, <3>2, <4>1
    <3>7. CASE ~NegativeInt
      <4>1. Converts(new)
        BY <2>3, <2>8, <3>3, <3>7, ConvertMeans
      <4>2. out' = out \o new /\ f' = f + 1 /\ a' = a + 1 /\ pc' = "text"
        BY <4>1 DEF Converts, Puts
      <4>3. out' \o h[<<f', a'>>] = all
        BY <1>8, <2>1, <3>4, <3>5, <3>6, <3>7, <4>2
      <4> QED BY <1>7, <4>2, <4>3 DEF MeantInv, PrintsAsMeant
    <3>8. CASE NegativeInt
      <4>1. pc' = "text"
        BY <2>8 DEF convert, Converts
      <4> QED BY <1>7, <3>8, <4>1 DEF MeantInv, PrintsAsMeant
    <3> QED BY <3>7, <3>8
  <2>9. CASE other
    <3>1. PICK new : new = IF format[f] = "%" THEN <<"%">> ELSE <<"%", format[f]>>
      OBVIOUS
    <3>2. /\ f <= Len(format) /\ format[f] \notin Conversions /\ format[f] \notin {"l", "#"}
          /\ out' = out \o new /\ f' = f + 1 /\ a' = a /\ pc' = "text"
      BY <2>9, <3>1 DEF other, Puts
    <3>3. EndOf(format, n) = f /\ f # 0 /\ f + 1 \in 1 .. len + 1
      BY <2>7, <3>2
    <3>4. h[<<n, a>>] = new \o h[<<f + 1, a>>]
      <4>1. CASE format[f] = "%"
        BY <2>2, <2>3, <2>5, <3>1, <3>2, <3>3, <4>1 DEF MeansFrom
      <4>2. CASE format[f] # "%"
        BY <2>2, <2>3, <2>5, <3>1, <3>2, <3>3, <4>2 DEF MeansFrom
      <4> QED BY <4>1, <4>2
    <3>5. new \in Seq(Characters)
      <4>1. PICK c \in Characters, p \in Characters : c = format[f] /\ p = "%"
        <5>1. f \in 1 .. Len(format)
          BY <1>2, <3>2
        <5> QED BY <1>2, <5>1, ElementOfSeq, PrintfAssumption
      <4>2. <<p>> \in Seq(Characters) /\ <<p, c>> \in Seq(Characters)
        OBVIOUS
      <4> QED BY <3>1, <4>1, <4>2
    <3>6. h[<<f + 1, a>>] \in Seq(Characters)
      BY <1>2, <1>3, <1>5, <3>3
    <3>7. ~NegativeInt => out' \o h[<<f', a'>>] = all
      BY <1>8, <2>1, <3>2, <3>4, <3>5, <3>6
    <3> QED BY <1>7, <3>2, <3>7 DEF MeantInv, PrintsAsMeant
  <2>10. CASE overrun
    <3>1. f > Len(format) /\ pc' = "overrun"
      BY <2>10 DEF overrun
    <3>2. EndOf(format, n) = 0
      <4>1. \A j \in n + 1 .. len : format[j] \in {"l", "#"}
        <5>1. \A j \in n + 1 .. len : j \in n + 1 .. f - 1
          BY <1>2, <1>3, <2>2, <3>1
        <5> QED BY <2>4, <5>1
      <4> QED BY <1>2, <1>3, <2>2, <4>1, EndFacts
    <3>3. \E i \in DOMAIN format' : format'[i] = "%" /\ EndOf(format', i) = 0
      BY <1>3, <1>6, <2>2, <2>3, <3>2
    <3> QED BY <1>7, <3>1, <3>3 DEF MeantInv, PrintsAsMeant
  <2>11. CASE literal \/ percent \/ return
    BY <1>12, <2>11 DEF literal, percent, return, At
  <2> QED BY <2>6, <2>8, <2>9, <2>10, <2>11 DEF printf
<1> QED BY <1>1, <1>9, <1>10, <1>11, <1>12 DEF printf, literal, flag, convert, other, overrun, At

(* A call means what its format means from the first character on.         *)
LEMMA MeantKept == PrintfGood /\ MeantInv /\ [Next]_vars => MeantInv'
<1> SUFFICES ASSUME PrintfGood, MeantInv, [Next]_vars PROVE MeantInv'
  OBVIOUS
<1>1. CASE scan
  BY <1>1, MeantPrintf DEF scan, PrintfGood
<1>2. ASSUME UNCHANGED printfVars PROVE MeantInv'
  <2>1. /\ format' = format /\ args' = args /\ f' = f /\ a' = a /\ pc' = pc /\ out' = out
        /\ is_long' = is_long /\ is_alt' = is_alt
    BY <1>2 DEF printfVars
  <2>2. /\ NegativeInt' <=> NegativeInt
        /\ From(format', args') = From(format, args)
        /\ Meant(format', args') = Meant(format, args)
    BY <2>1 DEF NegativeInt
  <2>3. PrintsAsMeant'
    BY <2>1, <2>2 DEF MeantInv, PrintsAsMeant
  <2>4. \A n : Directive(n)' <=> Directive(n)
    BY <2>1 DEF Directive
  <2> QED BY <2>1, <2>2, <2>3, <2>4 DEF MeantInv
<1>3. CASE call
  <2>1. PICK c \in Calls : enter(c)
    BY <1>3, TerminalAssumption DEF call
  <2>2. /\ format' = c[1] /\ args' = c[2] /\ f' = 1 /\ a' = 1 /\ pc' = "text" /\ out' = <<>>
    BY <2>1 DEF enter
  <2>3. PICK fmt, given : fmt = c[1] /\ given = c[2]
    OBVIOUS
  <2>4. fmt \in Seq(Characters) /\ given \in Seq(Words)
    BY <2>3, PrintfAssumption
  <2>5. 1 \in 1 .. Len(fmt) + 1 /\ 1 \in 1 .. Len(given) + 1
    BY <2>4, LenProperties
  <2>6. /\ From(fmt, given)[<<1, 1>>] = Meant(fmt, given)
        /\ From(fmt, given)[<<1, 1>>] \in Seq(Characters)
    BY <2>4, <2>5, FromFacts
  <2>7. <<>> \o From(fmt, given)[<<1, 1>>] = Meant(fmt, given)
    BY <2>6, ConcatEmptySeq
  <2> QED BY <2>2, <2>3, <2>7 DEF MeantInv, PrintsAsMeant
<1> QED BY <1>1, <1>2, <1>3 DEF Next, character, clear, vars

(* printf puts what the format means, whatever the call: each directive    *)
(* with its own flags and argument and each number in its shortest numeral,*)
(* and runs past a format only when that ends inside a directive: printf,  *)
(* putnumber and itoa.                                                     *)
THEOREM PrintfPrintsTheMeaning == Spec => []PrintsAsMeant
<1>1. Init => PrintfGood /\ MeantInv
  <2> SUFFICES ASSUME Init PROVE PrintfGood /\ MeantInv
    OBVIOUS
  <2>1. pc = "idle"
    BY DEF Init, PrintfInit
  <2> QED BY <2>1, PrintfStart DEF MeantInv, PrintsAsMeant
<1>2. (PrintfGood /\ MeantInv) /\ [Next]_vars => (PrintfGood /\ MeantInv)'
  BY PrintfKept, MeantKept
<1>3. PrintfGood /\ MeantInv => PrintsAsMeant
  BY DEF MeantInv
<1> QED BY <1>1, <1>2, <1>3, PTL DEF Spec
-----------------------------------------------------------------------------
(* The byte loops: what is left when the rounds are done.                  *)

(* Memory of a size.                                                       *)
Memory(size) == [1 .. size -> 0 .. 255]

(* With k bytes from s on copied to d, and with k bytes c from d on.       *)
Moved(m, d, s, k) ==
  [x \in DOMAIN m |-> IF x \in d .. d + k - 1 THEN m[s + x - d] ELSE m[x]]
Painted(m, d, c, k) ==
  [x \in DOMAIN m |-> IF x \in d .. d + k - 1 THEN c ELSE m[x]]

(* The loops from the first byte up and from the last one down.            *)
AscendingUpto(m, d, s, n, h) ==
  h = [k \in 0 .. n |->
         IF k = 0 THEN m ELSE [h[k - 1] EXCEPT ![d + k - 1] = h[k - 1][s + k - 1]]]
DescendingFrom(m, d, s, n, h) ==
  h = [k \in 0 .. n |->
         IF k = n THEN m ELSE [h[k + 1] EXCEPT ![d + k] = h[k + 1][s + k]]]
FillUpto(m, d, c, n, h) ==
  h = [k \in 0 .. n |-> IF k = 0 THEN m ELSE [h[k - 1] EXCEPT ![d + k - 1] = c]]

(* A memory's size is the length of the sequence.                          *)
LEMMA MemoryFacts ==
  ASSUME NEW m \in Seq(0 .. 255)
  PROVE  /\ Size(m) \in Nat /\ DOMAIN m = 1 .. Size(m) /\ m \in Memory(Size(m))
<1>1. PICK size \in Nat : size = Len(m)
  OBVIOUS
<1>2. DOMAIN m = 1 .. size /\ m \in [1 .. size -> 0 .. 255]
  <2>1. DOMAIN m = 1 .. Len(m) /\ m \in [1 .. Len(m) -> 0 .. 255]
    BY LenProperties
  <2> QED BY <1>1, <2>1
<1>3. Cardinality(1 .. size) = size
  BY FS_Interval
<1>4. Size(m) = size
  BY <1>2, <1>3 DEF Size
<1> QED BY <1>2, <1>4 DEF Memory

(* What is moved is a memory again.                                        *)
LEMMA MovedIsMemory ==
  ASSUME NEW size \in Nat, NEW m \in Memory(size), NEW d \in Nat, NEW s \in Nat \ {0},
         NEW k \in Nat, s + k - 1 <= size
  PROVE  Moved(m, d, s, k) \in Memory(size) /\ DOMAIN m = 1 .. size
<1>1. DOMAIN m = 1 .. size /\ \A x \in 1 .. size : m[x] \in 0 .. 255
  BY DEF Memory
<1>2. ASSUME NEW x \in 1 .. size
      PROVE  (IF x \in d .. d + k - 1 THEN m[s + x - d] ELSE m[x]) \in 0 .. 255
  <2>1. CASE x \in d .. d + k - 1
    <3>1. s + x - d \in 1 .. size
      BY <2>1
    <3> QED BY <1>1, <2>1, <3>1
  <2> QED BY <1>1, <2>1
<1> QED BY <1>1, <1>2 DEF Moved, Memory

(* A byte that no earlier round has overwritten is copied as it was.       *)
LEMMA MovedOneMore ==
  ASSUME NEW size \in Nat, NEW m \in Memory(size), NEW d \in Nat \ {0}, NEW s \in Nat \ {0},
         NEW k \in Nat, s + k <= size, s >= d \/ s + k < d
  PROVE  [Moved(m, d, s, k) EXCEPT ![d + k] = Moved(m, d, s, k)[s + k]] =
           Moved(m, d, s, k + 1)
<1>1. PICK v : v = Moved(m, d, s, k)
  OBVIOUS
<1>2. DOMAIN m = 1 .. size /\ v \in [1 .. size -> 0 .. 255]
  <2>1. s + k - 1 <= size /\ d \in Nat
    OBVIOUS
  <2>2. DOMAIN m = 1 .. size /\ v \in Memory(size)
    BY <1>1, <2>1, MovedIsMemory
  <2> QED BY <2>2 DEF Memory
<1>3. s + k \in 1 .. size /\ s + k \notin d .. d + k - 1
  OBVIOUS
<1>4. v[s + k] = m[s + k]
  BY <1>1, <1>2, <1>3 DEF Moved
<1>5. PICK w : w = [v EXCEPT ![d + k] = v[s + k]]
  OBVIOUS
<1>6. ASSUME NEW x \in 1 .. size
      PROVE  w[x] = IF x \in d .. d + (k + 1) - 1 THEN m[s + x - d] ELSE m[x]
  <2>1. CASE x = d + k
    <3>1. w[x] = m[s + k] /\ s + x - d = s + k /\ x \in d .. d + (k + 1) - 1
      BY <1>2, <1>4, <1>5, <2>1
    <3> QED BY <3>1
  <2>2. CASE x # d + k
    <3>1. w[x] = v[x]
      BY <1>2, <1>5, <2>2
    <3>2. x \in d .. d + (k + 1) - 1 <=> x \in d .. d + k - 1
      BY <2>2
    <3> QED BY <1>1, <1>2, <3>1, <3>2 DEF Moved
  <2> QED BY <2>1, <2>2
<1>7. w = [x \in 1 .. size |-> IF x \in d .. d + (k + 1) - 1 THEN m[s + x - d] ELSE m[x]]
  BY <1>2, <1>5, <1>6
<1> QED BY <1>1, <1>2, <1>5, <1>7 DEF Moved

(* So going up copies the bytes when the source is not below in reach of   *)
(* the destination,                                                        *)
LEMMA AscendingMoves ==
  ASSUME NEW size \in Nat, NEW m \in Memory(size), NEW d \in Nat \ {0}, NEW s \in Nat \ {0},
         NEW n \in Nat, s + n - 1 <= size, s >= d \/ s + n <= d
  PROVE  Ascending(m, d, s, n) = Moved(m, d, s, n)
<1>1. ASSUME NEW k \in 1 .. n
      PROVE  [Moved(m, d, s, k - 1) EXCEPT ![d + k - 1] = Moved(m, d, s, k - 1)[s + k - 1]] =
               Moved(m, d, s, k)
  <2>1. PICK j \in Nat : j = k - 1
    BY <1>1
  <2>2. s + j <= size /\ (s >= d \/ s + j < d) /\ k = j + 1 /\ d + k - 1 = d + j /\ s + k - 1 = s + j
    BY <1>1, <2>1
  <2>3. [Moved(m, d, s, j) EXCEPT ![d + j] = Moved(m, d, s, j)[s + j]] = Moved(m, d, s, j + 1)
    BY <2>2, MovedOneMore
  <2> QED BY <2>1, <2>2, <2>3
<1>2. Moved(m, d, s, 0) = m
  <2>1. DOMAIN m = 1 .. size /\ m = [x \in 1 .. size |-> m[x]]
    BY DEF Memory
  <2>2. \A x \in 1 .. size : x \notin d .. d + 0 - 1
    OBVIOUS
  <2> QED BY <2>1, <2>2 DEF Moved
<1>3. PICK g : g = [k \in 0 .. n |-> Moved(m, d, s, k)]
  OBVIOUS
<1>4. ASSUME NEW k \in 0 .. n
      PROVE  g[k] = IF k = 0 THEN m ELSE [g[k - 1] EXCEPT ![d + k - 1] = g[k - 1][s + k - 1]]
  <2>1. CASE k = 0
    BY <1>2, <1>3, <2>1
  <2>2. CASE k # 0
    <3>1. k \in 1 .. n /\ k - 1 \in 0 .. n
      BY <2>2
    <3>2. g[k] = Moved(m, d, s, k) /\ g[k - 1] = Moved(m, d, s, k - 1)
      BY <1>3, <3>1
    <3> QED BY <1>1, <2>2, <3>1, <3>2
  <2> QED BY <2>1, <2>2
<1>5. AscendingUpto(m, d, s, n, g)
  BY <1>3, <1>4 DEF AscendingUpto
<1>6. PICK h : h = CHOOSE p : AscendingUpto(m, d, s, n, p)
  OBVIOUS
<1>7. AscendingUpto(m, d, s, n, h)
  BY <1>5, <1>6
<1>8. Ascending(m, d, s, n) = h[n]
  BY <1>6 DEF Ascending, AscendingUpto
<1> DEFINE S == {k \in Nat : k <= n => h[k] = Moved(m, d, s, k)}
<1>9. 0 \in S
  BY <1>2, <1>7 DEF AscendingUpto
<1>10. ASSUME NEW k \in Nat, k \in S PROVE k + 1 \in S
  <2> SUFFICES ASSUME k + 1 <= n PROVE h[k + 1] = Moved(m, d, s, k + 1)
    OBVIOUS
  <2>1. PICK j \in 1 .. n : j = k + 1
    OBVIOUS
  <2>2. j \in 0 .. n /\ j # 0 /\ j - 1 = k /\ h[k] = Moved(m, d, s, k)
    BY <1>10, <2>1
  <2>3. h[j] = [h[j - 1] EXCEPT ![d + j - 1] = h[j - 1][s + j - 1]]
    BY <1>7, <2>2 DEF AscendingUpto
  <2>4. h[j] = Moved(m, d, s, j)
    BY <1>1, <2>2, <2>3
  <2> QED BY <2>1, <2>4
<1> HIDE DEF S
<1>11. n \in S
  BY <1>9, <1>10, SetInduction
<1> QED BY <1>8, <1>11 DEF S

(* and going down copies them when the source is below.                    *)
LEMMA MovedOneLess ==
  ASSUME NEW size \in Nat, NEW m \in Memory(size), NEW d \in Nat \ {0}, NEW s \in Nat \ {0},
         NEW k \in Nat, s + k <= size, s <= d
  PROVE  [Moved(m, d + 1, s + 1, k) EXCEPT ![d] = Moved(m, d + 1, s + 1, k)[s]] =
           Moved(m, d, s, k + 1)
<1>1. PICK v : v = Moved(m, d + 1, s + 1, k)
  OBVIOUS
<1>2. DOMAIN m = 1 .. size /\ v \in [1 .. size -> 0 .. 255]
  <2>1. s + 1 + k - 1 <= size /\ d + 1 \in Nat /\ s + 1 \in Nat \ {0}
    OBVIOUS
  <2>2. DOMAIN m = 1 .. size /\ v \in Memory(size)
    BY <1>1, <2>1, MovedIsMemory
  <2> QED BY <2>2 DEF Memory
<1>3. s \in 1 .. size /\ s \notin d + 1 .. d + 1 + k - 1
  OBVIOUS
<1>4. v[s] = m[s]
  BY <1>1, <1>2, <1>3 DEF Moved
<1>5. PICK w : w = [v EXCEPT ![d] = v[s]]
  OBVIOUS
<1>6. ASSUME NEW x \in 1 .. size
      PROVE  w[x] = IF x \in d .. d + (k + 1) - 1 THEN m[s + x - d] ELSE m[x]
  <2>1. CASE x = d
    <3>1. w[x] = m[s] /\ s + x - d = s /\ x \in d .. d + (k + 1) - 1
      BY <1>2, <1>4, <1>5, <2>1
    <3> QED BY <3>1
  <2>2. CASE x # d
    <3>1. w[x] = v[x]
      BY <1>2, <1>5, <2>2
    <3>2. /\ x \in d .. d + (k + 1) - 1 <=> x \in d + 1 .. d + 1 + k - 1
          /\ s + x - d = (s + 1) + x - (d + 1)
      BY <2>2
    <3>3. v[x] = IF x \in d + 1 .. d + 1 + k - 1 THEN m[(s + 1) + x - (d + 1)] ELSE m[x]
      BY <1>1, <1>2 DEF Moved
    <3> QED BY <3>1, <3>2, <3>3
  <2> QED BY <2>1, <2>2
<1>7. w = [x \in 1 .. size |-> IF x \in d .. d + (k + 1) - 1 THEN m[s + x - d] ELSE m[x]]
  BY <1>2, <1>5, <1>6
<1> QED BY <1>1, <1>2, <1>5, <1>7 DEF Moved

(* Nothing is moved in no round.                                           *)
LEMMA MovedNothing ==
  ASSUME NEW size \in Nat, NEW m \in Memory(size), NEW d \in Nat, NEW s \in Nat
  PROVE  Moved(m, d, s, 0) = m
<1>1. DOMAIN m = 1 .. size /\ m = [x \in 1 .. size |-> m[x]]
  BY DEF Memory
<1>2. \A x \in 1 .. size : x \notin d .. d + 0 - 1
  OBVIOUS
<1> QED BY <1>1, <1>2 DEF Moved

(* So going down copies the bytes, down to the first.                      *)
LEMMA DescendingMoves ==
  ASSUME NEW size \in Nat, NEW m \in Memory(size), NEW d \in Nat \ {0}, NEW s \in Nat \ {0},
         NEW n \in Nat, s + n - 1 <= size, s <= d
  PROVE  Descending(m, d, s, n) = Moved(m, d, s, n)
<1> DEFINE M(k) == Moved(m, d + k, s + k, n - k)
<1>1. ASSUME NEW k \in 0 .. n - 1
      PROVE  [M(k + 1) EXCEPT ![d + k] = M(k + 1)[s + k]] = M(k)
  <2>1. PICK j \in Nat, e \in Nat \ {0}, t \in Nat \ {0} :
          j = n - (k + 1) /\ e = d + k /\ t = s + k
    BY <1>1
  <2>2. t + j <= size /\ t <= e /\ d + (k + 1) = e + 1 /\ s + (k + 1) = t + 1 /\ n - k = j + 1
    BY <1>1, <2>1
  <2>3. [Moved(m, e + 1, t + 1, j) EXCEPT ![e] = Moved(m, e + 1, t + 1, j)[t]] = Moved(m, e, t, j + 1)
    BY <2>2, MovedOneLess
  <2> QED BY <2>1, <2>2, <2>3
<1>2. M(n) = m /\ M(0) = Moved(m, d, s, n)
  <2>1. n - n = 0 /\ d + n \in Nat /\ s + n \in Nat /\ d + 0 = d /\ s + 0 = s /\ n - 0 = n
    OBVIOUS
  <2>2. Moved(m, d + n, s + n, 0) = m
    BY <2>1, MovedNothing
  <2> QED BY <2>1, <2>2
<1> HIDE DEF M
<1>3. PICK g : g = [k \in 0 .. n |-> M(k)]
  OBVIOUS
<1>4. ASSUME NEW k \in 0 .. n
      PROVE  g[k] = IF k = n THEN m ELSE [g[k + 1] EXCEPT ![d + k] = g[k + 1][s + k]]
  <2>1. CASE k = n
    BY <1>2, <1>3, <2>1
  <2>2. CASE k # n
    <3>1. k \in 0 .. n - 1 /\ k + 1 \in 0 .. n
      BY <2>2
    <3>2. g[k] = M(k) /\ g[k + 1] = M(k + 1)
      BY <1>3, <3>1
    <3> QED BY <1>1, <2>2, <3>1, <3>2
  <2> QED BY <2>1, <2>2
<1>5. DescendingFrom(m, d, s, n, g)
  BY <1>3, <1>4 DEF DescendingFrom
<1>6. PICK h : h = CHOOSE p : DescendingFrom(m, d, s, n, p)
  OBVIOUS
<1>7. DescendingFrom(m, d, s, n, h)
  BY <1>5, <1>6
<1>8. Descending(m, d, s, n) = h[0]
  BY <1>6 DEF Descending, DescendingFrom
<1> DEFINE S == {k \in Nat : k <= n => h[n - k] = M(n - k)}
<1>9. 0 \in S
  <2>1. n - 0 = n /\ n \in 0 .. n
    OBVIOUS
  <2>2. h[n] = m
    BY <1>7, <2>1 DEF DescendingFrom
  <2> QED BY <1>2, <2>1, <2>2
<1>10. ASSUME NEW k \in Nat, k \in S PROVE k + 1 \in S
  <2> SUFFICES ASSUME k + 1 <= n PROVE h[n - (k + 1)] = M(n - (k + 1))
    OBVIOUS
  <2>1. PICK j \in 0 .. n - 1 : j = n - (k + 1)
    OBVIOUS
  <2>2. j \in 0 .. n /\ j # n /\ j + 1 = n - k /\ h[n - k] = M(n - k)
    BY <1>10, <2>1
  <2>3. h[j] = [h[j + 1] EXCEPT ![d + j] = h[j + 1][s + j]]
    BY <1>7, <2>2 DEF DescendingFrom
  <2>4. h[j] = M(j)
    BY <1>1, <2>2, <2>3
  <2> QED BY <2>1, <2>4
<1> HIDE DEF S
<1>11. n \in S
  BY <1>9, <1>10, SetInduction
<1>12. h[0] = M(0)
  <2>1. n - n = 0 /\ n <= n
    OBVIOUS
  <2> QED BY <1>11, <2>1 DEF S
<1> QED BY <1>2, <1>8, <1>12

(* Filling.                                                                *)
LEMMA FillPaints ==
  ASSUME NEW size \in Nat, NEW m \in Memory(size), NEW d \in Nat \ {0}, NEW c, NEW n \in Nat
  PROVE  Fill(m, d, c, n) = Painted(m, d, c, n)
<1>0. DOMAIN m = 1 .. size /\ m = [x \in 1 .. size |-> m[x]]
  BY DEF Memory
<1>1. ASSUME NEW k \in 1 .. n
      PROVE  [Painted(m, d, c, k - 1) EXCEPT ![d + k - 1] = c] = Painted(m, d, c, k)
  <2>1. PICK v, w : v = Painted(m, d, c, k - 1) /\ w = [v EXCEPT ![d + k - 1] = c]
    OBVIOUS
  <2>2. DOMAIN v = 1 .. size /\ DOMAIN w = 1 .. size
    BY <1>0, <2>1 DEF Painted
  <2>3. ASSUME NEW x \in 1 .. size
        PROVE  w[x] = IF x \in d .. d + k - 1 THEN c ELSE m[x]
    <3>1. v[x] = IF x \in d .. d + (k - 1) - 1 THEN c ELSE m[x]
      BY <1>0, <2>1 DEF Painted
    <3>2. w[x] = IF x = d + k - 1 THEN c ELSE v[x]
      BY <2>1, <2>2
    <3>3. x \in d .. d + k - 1 <=> x = d + k - 1 \/ x \in d .. d + (k - 1) - 1
      BY <1>1
    <3> QED BY <3>1, <3>2, <3>3
  <2>4. w = [x \in 1 .. size |-> IF x \in d .. d + k - 1 THEN c ELSE m[x]]
    BY <2>1, <2>2, <2>3
  <2> QED BY <1>0, <2>1, <2>4 DEF Painted
<1>2. Painted(m, d, c, 0) = m
  <2>1. \A x \in 1 .. size : x \notin d .. d + 0 - 1
    OBVIOUS
  <2> QED BY <1>0, <2>1 DEF Painted
<1>3. PICK g : g = [k \in 0 .. n |-> Painted(m, d, c, k)]
  OBVIOUS
<1>4. ASSUME NEW k \in 0 .. n
      PROVE  g[k] = IF k = 0 THEN m ELSE [g[k - 1] EXCEPT ![d + k - 1] = c]
  <2>1. CASE k = 0
    BY <1>2, <1>3, <2>1
  <2>2. CASE k # 0
    <3>1. k \in 1 .. n /\ k - 1 \in 0 .. n
      BY <2>2
    <3>2. g[k] = Painted(m, d, c, k) /\ g[k - 1] = Painted(m, d, c, k - 1)
      BY <1>3, <3>1
    <3> QED BY <1>1, <2>2, <3>1, <3>2
  <2> QED BY <2>1, <2>2
<1>5. FillUpto(m, d, c, n, g)
  BY <1>3, <1>4 DEF FillUpto
<1>6. PICK h : h = CHOOSE p : FillUpto(m, d, c, n, p)
  OBVIOUS
<1>7. FillUpto(m, d, c, n, h)
  BY <1>5, <1>6
<1>8. Fill(m, d, c, n) = h[n]
  BY <1>6 DEF Fill, FillUpto
<1> DEFINE S == {k \in Nat : k <= n => h[k] = Painted(m, d, c, k)}
<1>9. 0 \in S
  BY <1>2, <1>7 DEF FillUpto
<1>10. ASSUME NEW k \in Nat, k \in S PROVE k + 1 \in S
  <2> SUFFICES ASSUME k + 1 <= n PROVE h[k + 1] = Painted(m, d, c, k + 1)
    OBVIOUS
  <2>1. PICK j \in 1 .. n : j = k + 1
    OBVIOUS
  <2>2. j \in 0 .. n /\ j # 0 /\ j - 1 = k /\ h[k] = Painted(m, d, c, k)
    BY <1>10, <2>1
  <2>3. h[j] = [h[j - 1] EXCEPT ![d + j - 1] = c]
    BY <1>7, <2>2 DEF FillUpto
  <2>4. h[j] = Painted(m, d, c, j)
    BY <1>1, <2>2, <2>3
  <2> QED BY <2>1, <2>4
<1> HIDE DEF S
<1>11. n \in S
  BY <1>9, <1>10, SetInduction
<1> QED BY <1>8, <1>11 DEF S

(* Two moves, one behind the other, are one.                               *)
LEMMA MovedJoin ==
  ASSUME NEW size \in Nat, NEW m \in Memory(size), NEW d \in Nat \ {0}, NEW s \in Nat \ {0},
         NEW k \in Nat, NEW j \in Nat, s + k + j - 1 <= size, Apart(d, s, k + j)
  PROVE  Moved(Moved(m, d, s, k), d + k, s + k, j) = Moved(m, d, s, k + j)
<1>1. DOMAIN m = 1 .. size
  BY DEF Memory
<1>2. PICK v : v = Moved(m, d, s, k)
  OBVIOUS
<1>3. DOMAIN v = 1 .. size /\ \A x \in 1 .. size :
        v[x] = IF x \in d .. d + k - 1 THEN m[s + x - d] ELSE m[x]
  BY <1>1, <1>2 DEF Moved
<1>4. ASSUME NEW x \in 1 .. size
      PROVE  (IF x \in d + k .. d + k + j - 1 THEN v[(s + k) + x - (d + k)] ELSE v[x]) =
               IF x \in d .. d + (k + j) - 1 THEN m[s + x - d] ELSE m[x]
  <2>1. CASE x \in d + k .. d + k + j - 1
    <3>1. PICK y \in 1 .. size : y = s + x - d
      BY <2>1
    <3>2. (s + k) + x - (d + k) = y /\ y \notin d .. d + k - 1
      BY <2>1, <3>1 DEF Apart
    <3>3. v[y] = m[y]
      BY <1>3, <3>2
    <3>4. x \in d .. d + (k + j) - 1
      BY <2>1
    <3> QED BY <2>1, <3>1, <3>2, <3>3, <3>4
  <2>2. CASE x \notin d + k .. d + k + j - 1
    <3>1. x \in d .. d + (k + j) - 1 <=> x \in d .. d + k - 1
      BY <2>2
    <3> QED BY <1>3, <2>2, <3>1
  <2> QED BY <2>1, <2>2
<1>5. Moved(v, d + k, s + k, j) =
        [x \in 1 .. size |-> IF x \in d + k .. d + k + j - 1
                             THEN v[(s + k) + x - (d + k)] ELSE v[x]]
  BY <1>3 DEF Moved
<1>6. Moved(m, d, s, k + j) =
        [x \in 1 .. size |-> IF x \in d .. d + (k + j) - 1 THEN m[s + x - d] ELSE m[x]]
  BY <1>1 DEF Moved
<1> QED BY <1>2, <1>4, <1>5, <1>6

(* Two fillings, one behind the other, are one.                            *)
LEMMA PaintedJoin ==
  ASSUME NEW size \in Nat, NEW m \in Memory(size), NEW d \in Nat \ {0}, NEW c,
         NEW k \in Nat, NEW j \in Nat
  PROVE  Painted(Painted(m, d, c, k), d + k, c, j) = Painted(m, d, c, k + j)
<1>1. DOMAIN m = 1 .. size
  BY DEF Memory
<1>2. PICK v : v = Painted(m, d, c, k)
  OBVIOUS
<1>3. DOMAIN v = 1 .. size /\ \A x \in 1 .. size :
        v[x] = IF x \in d .. d + k - 1 THEN c ELSE m[x]
  BY <1>1, <1>2 DEF Painted
<1>4. \A x \in 1 .. size : x \in d .. d + (k + j) - 1 <=>
        x \in d .. d + k - 1 \/ x \in d + k .. d + k + j - 1
  OBVIOUS
<1>5. Painted(v, d + k, c, j) =
        [x \in 1 .. size |-> IF x \in d + k .. d + k + j - 1 THEN c ELSE v[x]]
  BY <1>3 DEF Painted
<1>6. Painted(m, d, c, k + j) =
        [x \in 1 .. size |-> IF x \in d .. d + (k + j) - 1 THEN c ELSE m[x]]
  BY <1>1 DEF Painted
<1> QED BY <1>2, <1>3, <1>4, <1>5, <1>6

(* What is filled is a memory again.                                       *)
LEMMA PaintedIsMemory ==
  ASSUME NEW size \in Nat, NEW m \in Memory(size), NEW d, NEW c \in 0 .. 255, NEW k
  PROVE  Painted(m, d, c, k) \in Memory(size)
BY DEF Painted, Memory

(* Register by register.                                                   *)
ChunksUpto(m, d, s, n, h) ==
  h = [k \in 0 .. n |->
         IF k = 0 THEN m
         ELSE movdqu(h[k - 1], d + (k - 1) * Chunk, s + (k - 1) * Chunk)]

(* Whole registers move their bytes, all of them.                          *)
LEMMA ChunksMove ==
  ASSUME NEW size \in Nat, NEW m \in Memory(size), NEW d \in Nat \ {0}, NEW s \in Nat \ {0},
         NEW n \in Nat, s + n * Chunk - 1 <= size, Apart(d, s, n * Chunk)
  PROVE  Chunks(m, d, s, n) = Moved(m, d, s, n * Chunk)
<1>0. Chunk \in Nat \ {0}
  BY StringsAssumption
<1> DEFINE M(k) == Moved(m, d, s, k * Chunk)
<1>1. ASSUME NEW k \in 1 .. n
      PROVE  movdqu(M(k - 1), d + (k - 1) * Chunk, s + (k - 1) * Chunk) = M(k)
  <2>1. PICK j \in Nat, c \in Nat : j = k - 1 /\ c = n - k
    <3>1. k - 1 \in Nat /\ n - k \in Nat
      OBVIOUS
    <3> QED BY <3>1
  <2>2. PICK p \in Nat, q \in Nat : p = j * Chunk /\ q = c * Chunk
    <3>1. j * Chunk \in Nat /\ c * Chunk \in Nat
      BY <1>0
    <3> QED BY <3>1
  <2>3. k * Chunk = p + Chunk /\ n * Chunk = p + Chunk + q
    <3>1. k = j + 1 /\ n = j + 1 + c
      BY <2>1
    <3>2. (j + 1) * Chunk = j * Chunk + Chunk /\ (j + 1 + c) * Chunk = j * Chunk + Chunk + c * Chunk
      BY <1>0
    <3> QED BY <2>2, <3>1, <3>2
  <2>4. s + p + Chunk - 1 <= size /\ Apart(d, s, p + Chunk)
    BY <1>0, <2>3 DEF Apart
  <2>5. Moved(Moved(m, d, s, p), d + p, s + p, Chunk) = Moved(m, d, s, p + Chunk)
    BY <1>0, <2>4, MovedJoin
  <2>6. movdqu(M(k - 1), d + p, s + p) = Moved(Moved(m, d, s, p), d + p, s + p, Chunk)
    BY <2>1, <2>2 DEF movdqu, Moved
  <2> QED BY <2>1, <2>2, <2>3, <2>5, <2>6
<1>2. M(0) = m
  <2>1. 0 * Chunk = 0
    BY <1>0
  <2> QED BY <2>1, MovedNothing
<1> HIDE DEF M
<1>3. PICK g : g = [k \in 0 .. n |-> M(k)]
  OBVIOUS
<1>4. ASSUME NEW k \in 0 .. n
      PROVE  g[k] = IF k = 0 THEN m
                    ELSE movdqu(g[k - 1], d + (k - 1) * Chunk, s + (k - 1) * Chunk)
  <2>1. CASE k = 0
    BY <1>2, <1>3, <2>1
  <2>2. CASE k # 0
    <3>1. k \in 1 .. n /\ k - 1 \in 0 .. n
      BY <2>2
    <3>2. g[k] = M(k) /\ g[k - 1] = M(k - 1)
      BY <1>3, <3>1
    <3> QED BY <1>1, <2>2, <3>1, <3>2
  <2> QED BY <2>1, <2>2
<1>5. ChunksUpto(m, d, s, n, g)
  BY <1>3, <1>4 DEF ChunksUpto
<1>6. PICK h : h = CHOOSE p : ChunksUpto(m, d, s, n, p)
  OBVIOUS
<1>7. ChunksUpto(m, d, s, n, h)
  BY <1>5, <1>6
<1>8. Chunks(m, d, s, n) = h[n]
  BY <1>6 DEF Chunks, ChunksUpto
<1> DEFINE S == {k \in Nat : k <= n => h[k] = M(k)}
<1>9. 0 \in S
  BY <1>2, <1>7 DEF ChunksUpto
<1>10. ASSUME NEW k \in Nat, k \in S PROVE k + 1 \in S
  <2> SUFFICES ASSUME k + 1 <= n PROVE h[k + 1] = M(k + 1)
    OBVIOUS
  <2>1. PICK j \in 1 .. n : j = k + 1
    OBVIOUS
  <2>2. j \in 0 .. n /\ j # 0 /\ j - 1 = k /\ h[k] = M(k)
    BY <1>10, <2>1
  <2>3. h[j] = movdqu(h[j - 1], d + (j - 1) * Chunk, s + (j - 1) * Chunk)
    BY <1>7, <2>2 DEF ChunksUpto
  <2>4. h[j] = M(j)
    BY <1>1, <2>2, <2>3
  <2> QED BY <2>1, <2>4
<1> HIDE DEF S
<1>11. n \in S
  BY <1>9, <1>10, SetInduction
<1>12. h[n] = M(n)
  BY <1>11 DEF S
<1> QED BY <1>8, <1>12 DEF M

(* A condition that holds in some round holds first in one.                *)
LEMMA FirstExists ==
  ASSUME NEW max \in Nat, NEW S, NEW z \in 0 .. max, z \in S
  PROVE  \E k \in 0 .. max : k \in S /\ k <= z /\ \A j \in 0 .. k - 1 : j \notin S
<1>1. PICK T : T = {j \in 0 .. max : j \in S}
  OBVIOUS
<1>2. T \in SUBSET Nat /\ T # {}
  BY <1>1
<1>3. PICK k \in T : \A y \in T : k <= y
  BY <1>2, LeastExists
<1>4. k \in 0 .. max /\ k \in S /\ k <= z
  BY <1>1, <1>3
<1>5. ASSUME NEW j \in 0 .. k - 1, j \in S PROVE FALSE
  <2>1. j \in T /\ ~(k <= j)
    BY <1>1, <1>4, <1>5
  <2> QED BY <1>3, <2>1
<1> QED BY <1>4, <1>5

(* The bytes before the first register are some of those asked for.        *)
LEMMA UpToAlignedType ==
  ASSUME NEW d \in Nat, NEW n \in Nat
  PROVE  UpToAligned(d, n) \in 0 .. n
<1>1. PICK S : S = {j \in 0 .. n : j = n \/ (d + j) % Chunk = 0}
  OBVIOUS
<1>2. n \in S /\ n \in 0 .. n
  BY <1>1
<1>3. PICK k \in 0 .. n : k \in S /\ \A j \in 0 .. k - 1 : j \notin S
  BY <1>2, FirstExists
<1>4. (k = n \/ (d + k) % Chunk = 0) /\ \A j \in 0 .. k - 1 : ~(j = n \/ (d + j) % Chunk = 0)
  BY <1>1, <1>3
<1>5. \E i \in 0 .. n : /\ i = n \/ (d + i) % Chunk = 0
                        /\ \A j \in 0 .. i - 1 : ~(j = n \/ (d + j) % Chunk = 0)
  BY <1>4
<1> QED BY <1>5 DEF UpToAligned, First

(* A length is whole registers and a rest.                                 *)
LEMMA WholeAndRest ==
  ASSUME NEW n \in Nat, NEW head \in 0 .. n
  PROVE  \E c \in Nat, whole \in Nat, rest \in Nat :
           /\ whole = c * Chunk /\ c = (n - head) \div Chunk /\ whole \div Chunk = c
           /\ rest = (n - head) % Chunk /\ head + whole + rest = n
<1>0. PICK ch \in Nat : ch = Chunk /\ ch >= 1
  BY StringsAssumption
<1>1. PICK v \in Nat : v = n - head
  OBVIOUS
<1>2. PICK c \in Nat, rest \in 0 .. ch - 1 : c = v \div ch /\ rest = v % ch /\ v = ch * c + rest
  <2>1. v \div ch \in Nat /\ v % ch \in 0 .. ch - 1 /\ v = ch * (v \div ch) + (v % ch)
    BY <1>0, DivMod
  <2> QED BY <2>1
<1>3. PICK whole \in Nat : whole = ch * c
  <2>1. ch * c \in Nat
    OBVIOUS
  <2> QED BY <2>1
<1>4. whole = c * ch
  BY <1>3
<1>5. (ch * c + 0) \div ch = c
  <2>1. 0 \in 0 .. ch - 1
    BY <1>0
  <2> QED BY <1>0, <2>1, QuotientIs
<1>6. whole \div ch = c
  <2>1. whole = ch * c + 0
    BY <1>3
  <2> QED BY <1>5, <2>1
<1>7. head + whole + rest = n
  BY <1>1, <1>2, <1>3
<1> QED BY <1>0, <1>1, <1>2, <1>4, <1>6, <1>7

(* The copies with registers.                                              *)
LEMMA MemcpySimdMoves ==
  ASSUME NEW size \in Nat, NEW m \in Memory(size), NEW d \in Nat \ {0}, NEW s \in Nat \ {0},
         NEW n \in Nat, s + n - 1 <= size, Apart(d, s, n)
  PROVE  memcpy_simd(m, d, s, n) = Moved(m, d, s, n)
<1>1. CASE n < 2 * Chunk
  <2>1. memcpy_simd(m, d, s, n) = Ascending(m, d, s, n)
    BY <1>1 DEF memcpy_simd
  <2>2. s >= d \/ s + n <= d
    BY DEF Apart
  <2> QED BY <2>1, <2>2, AscendingMoves
<1>2. CASE ~(n < 2 * Chunk)
  <2>1. PICK head \in 0 .. n : head = UpToAligned(d, n)
    BY UpToAlignedType
  <2>2. PICK c \in Nat, whole \in Nat, rest \in Nat :
           /\ whole = c * Chunk /\ c = (n - head) \div Chunk /\ whole \div Chunk = c
           /\ rest = (n - head) % Chunk /\ head + whole + rest = n
    BY WholeAndRest
  <2>3. PICK first : first = Ascending(m, d, s, head)
    OBVIOUS
  <2>4. PICK chunks : chunks = Chunks(first, d + head, s + head, c)
    OBVIOUS
  <2>5. memcpy_simd(m, d, s, n) = Ascending(chunks, d + head + whole, s + head + whole, rest)
    BY <1>2, <2>1, <2>2, <2>3, <2>4 DEF memcpy_simd
  <2>6. first = Moved(m, d, s, head) /\ first \in Memory(size)
    <3>1. s + head - 1 <= size /\ (s >= d \/ s + head <= d)
      BY DEF Apart
    <3> QED BY <2>3, <3>1, AscendingMoves, MovedIsMemory
  <2>7. PICK e \in Nat \ {0}, t \in Nat \ {0} : e = d + head /\ t = s + head
    BY <2>1
  <2>8. chunks = Moved(first, e, t, whole)
    <3>1. t + whole - 1 <= size /\ Apart(e, t, whole)
      BY <2>2, <2>7 DEF Apart
    <3>2. t + c * Chunk - 1 <= size /\ Apart(e, t, c * Chunk)
      BY <2>2, <3>1
    <3>3. Chunks(first, e, t, c) = Moved(first, e, t, c * Chunk)
      BY <2>6, <3>2, ChunksMove
    <3> QED BY <2>2, <2>4, <2>7, <3>3
  <2>9. PICK k \in Nat : k = head + whole
    BY <2>1, <2>2
  <2>10. chunks = Moved(m, d, s, k) /\ chunks \in Memory(size)
    <3>1. s + head + whole - 1 <= size /\ Apart(d, s, head + whole) /\ head \in Nat
      BY <2>1, <2>2 DEF Apart
    <3>2. Moved(Moved(m, d, s, head), d + head, s + head, whole) = Moved(m, d, s, head + whole)
      BY <3>1, MovedJoin
    <3>3. chunks = Moved(m, d, s, k)
      BY <2>6, <2>7, <2>8, <2>9, <3>2
    <3>4. s + k - 1 <= size
      BY <2>2, <2>9
    <3> QED BY <3>3, <3>4, MovedIsMemory
  <2>11. Ascending(chunks, d + k, s + k, rest) = Moved(chunks, d + k, s + k, rest)
    <3>1. s + k + rest - 1 <= size /\ (s + k >= d + k \/ s + k + rest <= d + k)
      BY <2>2, <2>9 DEF Apart
    <3>2. d + k \in Nat \ {0} /\ s + k \in Nat \ {0}
      BY <2>9
    <3> QED BY <2>10, <3>1, <3>2, AscendingMoves
  <2>12. Moved(chunks, d + k, s + k, rest) = Moved(m, d, s, n)
    <3>1. s + k + rest - 1 <= size /\ Apart(d, s, k + rest) /\ k + rest = n
      BY <2>2, <2>9 DEF Apart
    <3>2. Moved(Moved(m, d, s, k), d + k, s + k, rest) = Moved(m, d, s, k + rest)
      BY <3>1, MovedJoin
    <3> QED BY <2>10, <3>1, <3>2
  <2>13. d + head + whole = d + k /\ s + head + whole = s + k
    BY <2>1, <2>2, <2>9
  <2> QED BY <2>5, <2>11, <2>12, <2>13
<1> QED BY <1>1, <1>2

(* The filling with registers.                                             *)
LEMMA MemsetSimdPaints ==
  ASSUME NEW size \in Nat, NEW m \in Memory(size), NEW d \in Nat \ {0}, NEW n \in Nat,
         NEW c \in Nat
  PROVE  memset_simd(m, d, c, n) = Painted(m, d, c % 256, n)
<1>0. PICK b \in 0 .. 255 : b = c % 256
  OBVIOUS
<1>1. CASE n < 2 * Chunk
  <2>1. memset_simd(m, d, c, n) = Fill(m, d, b, n)
    BY <1>0, <1>1 DEF memset_simd
  <2> QED BY <1>0, <2>1, FillPaints
<1>2. CASE ~(n < 2 * Chunk)
  <2>1. PICK head \in 0 .. n : head = UpToAligned(d, n)
    BY UpToAlignedType
  <2>2. PICK k \in Nat, whole \in Nat, rest \in Nat :
           /\ whole = k * Chunk /\ k = (n - head) \div Chunk /\ whole \div Chunk = k
           /\ rest = (n - head) % Chunk /\ head + whole + rest = n
    BY WholeAndRest
  <2>3. PICK first, chunks : /\ first = Fill(m, d, b, head)
                             /\ chunks = Fill(first, d + head, b, whole)
    OBVIOUS
  <2>4. memset_simd(m, d, c, n) = Fill(chunks, d + head + whole, b, rest)
    BY <1>0, <1>2, <2>1, <2>2, <2>3 DEF memset_simd
  <2>5. first = Painted(m, d, b, head) /\ first \in Memory(size) /\ head \in Nat
    <3>1. head \in Nat
      BY <2>1
    <3>2. first = Painted(m, d, b, head)
      BY <2>3, <3>1, FillPaints
    <3> QED BY <3>1, <3>2, PaintedIsMemory
  <2>6. chunks = Painted(first, d + head, b, whole) /\ chunks \in Memory(size)
    <3>1. PICK e \in Nat \ {0} : e = d + head
      BY <2>5
    <3>2. chunks = Painted(first, e, b, whole)
      BY <2>3, <2>5, <3>1, FillPaints
    <3> QED BY <2>5, <3>1, <3>2, PaintedIsMemory
  <2>7. PICK i \in Nat : i = head + whole
    BY <2>1, <2>2
  <2>8. chunks = Painted(m, d, b, i)
    BY <2>5, <2>6, <2>7, PaintedJoin
  <2>9. Fill(chunks, d + i, b, rest) = Painted(chunks, d + i, b, rest)
    BY <2>6, <2>7, FillPaints
  <2>10. Painted(chunks, d + i, b, rest) = Painted(m, d, b, i + rest) /\ i + rest = n
    BY <2>2, <2>7, <2>8, PaintedJoin
  <2>11. d + head + whole = d + i
    BY <2>1, <2>2, <2>7
  <2> QED BY <1>0, <2>4, <2>9, <2>10, <2>11
<1> QED BY <1>1, <1>2

(* What is defined without a loop is the same.                             *)
LEMMA PutMoved ==
  ASSUME NEW size \in Nat, NEW m \in Memory(size), NEW d \in Nat, NEW s \in Nat, NEW n \in Nat
  PROVE  Put(m, d, Bytes(m, s, n)) = Moved(m, d, s, n)
<1>1. PICK b : b = Bytes(m, s, n)
  OBVIOUS
<1>2. Len(b) = n /\ \A k \in 1 .. n : b[k] = m[s + k - 1]
  BY <1>1 DEF Bytes
<1>3. DOMAIN m = 1 .. size
  BY DEF Memory
<1>4. ASSUME NEW x \in 1 .. size
      PROVE  (IF x \in d .. d + n - 1 THEN b[x - d + 1] ELSE m[x]) =
             IF x \in d .. d + n - 1 THEN m[s + x - d] ELSE m[x]
  <2>1. CASE x \in d .. d + n - 1
    <3>1. x - d + 1 \in 1 .. n /\ s + (x - d + 1) - 1 = s + x - d
      BY <2>1
    <3>2. b[x - d + 1] = m[s + (x - d + 1) - 1]
      BY <1>2, <3>1
    <3> QED BY <3>1, <3>2
  <2> QED BY <2>1
<1>5. Put(m, d, b) = [x \in 1 .. size |-> IF x \in d .. d + n - 1 THEN b[x - d + 1] ELSE m[x]]
  BY <1>2, <1>3 DEF Put
<1>6. Moved(m, d, s, n) =
        [x \in 1 .. size |-> IF x \in d .. d + n - 1 THEN m[s + x - d] ELSE m[x]]
  BY <1>3 DEF Moved
<1> QED BY <1>1, <1>4, <1>5, <1>6

(* And so is a filling.                                                    *)
LEMMA PutPainted ==
  ASSUME NEW size \in Nat, NEW m \in Memory(size), NEW d \in Nat, NEW c, NEW n \in Nat
  PROVE  Put(m, d, [k \in 1 .. n |-> c]) = Painted(m, d, c, n)
<1>1. PICK b : b = [k \in 1 .. n |-> c]
  OBVIOUS
<1>2. Len(b) = n /\ \A k \in 1 .. n : b[k] = c
  BY <1>1
<1>3. \A x \in d .. d + n - 1 : x - d + 1 \in 1 .. n
  OBVIOUS
<1>4. DOMAIN m = 1 .. size
  BY DEF Memory
<1> QED BY <1>1, <1>2, <1>3, <1>4 DEF Put, Painted

(* The copies and the fillings do what they are for.                       *)
LEMMA CopiesAreExact == CopiesExact
<1> SUFFICES ASSUME NEW d \in DOMAIN Buffer, NEW s \in DOMAIN Buffer, NEW n \in 0 .. Size(Buffer),
                    d + n - 1 \in {0} \cup DOMAIN Buffer, s + n - 1 \in {0} \cup DOMAIN Buffer
             PROVE  /\ memmove(Buffer, d, s, n) = Put(Buffer, d, Bytes(Buffer, s, n))
                    /\ Apart(d, s, n) =>
                         /\ memcpy(Buffer, d, s, n) = Put(Buffer, d, Bytes(Buffer, s, n))
                         /\ memcpy_simd(Buffer, d, s, n) = Put(Buffer, d, Bytes(Buffer, s, n))
                    /\ memset(Buffer, d, Space + 256, n) = Put(Buffer, d, [k \in 1 .. n |-> Space])
                    /\ memset_simd(Buffer, d, Space + 256, n) = Put(Buffer, d, [k \in 1 .. n |-> Space])
  BY DEF CopiesExact
<1>1. PICK size \in Nat : size = Size(Buffer) /\ DOMAIN Buffer = 1 .. size /\ Buffer \in Memory(size)
  <2>1. Buffer \in Seq(0 .. 255)
    BY StringsAssumption
  <2> QED BY <2>1, MemoryFacts
<1>2. n \in Nat /\ d \in Nat \ {0} /\ s \in Nat \ {0} /\ s + n - 1 <= size
  BY <1>1
<1>3. PICK moved : moved = Moved(Buffer, d, s, n)
  OBVIOUS
<1>4. Put(Buffer, d, Bytes(Buffer, s, n)) = moved
  BY <1>1, <1>2, <1>3, PutMoved
<1>5. memmove(Buffer, d, s, n) = moved
  <2>1. CASE s > d
    <3>1. memmove(Buffer, d, s, n) = Ascending(Buffer, d, s, n) /\ s >= d
      BY <1>2, <2>1 DEF memmove
    <3> QED BY <1>1, <1>2, <1>3, <3>1, AscendingMoves
  <2>2. CASE s < d
    <3>1. memmove(Buffer, d, s, n) = Descending(Buffer, d, s, n) /\ s <= d
      BY <1>2, <2>2 DEF memmove
    <3> QED BY <1>1, <1>2, <1>3, <3>1, DescendingMoves
  <2>3. CASE s = d
    <3>1. memmove(Buffer, d, s, n) = Buffer
      BY <1>2, <2>3 DEF memmove
    <3>2. \A x \in 1 .. size : (IF x \in d .. d + n - 1 THEN Buffer[s + x - d] ELSE Buffer[x]) = Buffer[x]
      BY <1>2, <2>3
    <3>3. Buffer = [x \in 1 .. size |-> Buffer[x]]
      BY <1>1 DEF Memory
    <3>4. moved = [x \in 1 .. size |-> IF x \in d .. d + n - 1 THEN Buffer[s + x - d] ELSE Buffer[x]]
      BY <1>1, <1>3 DEF Moved
    <3> QED BY <3>1, <3>2, <3>3, <3>4
  <2> QED BY <1>2, <2>1, <2>2, <2>3
<1>6. ASSUME Apart(d, s, n)
      PROVE  memcpy(Buffer, d, s, n) = moved /\ memcpy_simd(Buffer, d, s, n) = moved
  <2>1. s >= d \/ s + n <= d
    BY <1>2, <1>6 DEF Apart
  <2>2. Ascending(Buffer, d, s, n) = moved
    BY <1>1, <1>2, <1>3, <2>1, AscendingMoves
  <2>3. memcpy_simd(Buffer, d, s, n) = moved
    BY <1>1, <1>2, <1>3, <1>6, MemcpySimdMoves
  <2> QED BY <2>2, <2>3 DEF memcpy
<1>7. Space \in 0 .. 255 /\ Space = (Space + 256) % 256
  BY StringsAssumption
<1>8. Put(Buffer, d, [k \in 1 .. n |-> Space]) = Painted(Buffer, d, Space, n)
  BY <1>1, <1>2, PutPainted
<1>9. memset(Buffer, d, Space + 256, n) = Painted(Buffer, d, Space, n)
  BY <1>1, <1>2, <1>7, FillPaints DEF memset
<1>10. memset_simd(Buffer, d, Space + 256, n) = Painted(Buffer, d, Space, n)
  <2>1. Space + 256 \in Nat
    BY <1>7
  <2>2. memset_simd(Buffer, d, Space + 256, n) = Painted(Buffer, d, (Space + 256) % 256, n)
    BY <1>1, <1>2, <2>1, MemsetSimdPaints
  <2> QED BY <1>7, <2>2
<1> QED BY <1>4, <1>5, <1>6, <1>8, <1>9, <1>10

-----------------------------------------------------------------------------
(* Texts and comparisons.                                                  *)

(* The text at s is n long.                                                *)
TextEnds(m, s, n) ==
  s + n \in DOMAIN m /\ m[s + n] = 0 /\ \A j \in 0 .. n - 1 : m[s + j] # 0

(* A stretch of the memory, as a sequence.                                 *)
LEMMA BytesFacts ==
  ASSUME NEW m, NEW s, NEW n \in Nat
  PROVE  /\ Len(Bytes(m, s, n)) = n /\ DOMAIN Bytes(m, s, n) = 1 .. n
         /\ \A k \in 1 .. n : Bytes(m, s, n)[k] = m[s + k - 1]
         /\ Bytes(m, s, n) = [k \in 1 .. n |-> m[s + k - 1]]
BY DEF Bytes

(* A text that ends inside the memory ends first somewhere,                *)
LEMMA TextEndsSomewhere ==
  ASSUME NEW size \in Nat, NEW m \in Memory(size), NEW s \in Nat \ {0}, Ended(m, s)
  PROVE  \E n \in Nat : TextEnds(m, s, n)
<1>1. DOMAIN m = 1 .. size
  BY DEF Memory
<1>2. PICK z \in 1 .. size : z >= s /\ m[z] = 0
  BY <1>1 DEF Ended
<1>3. PICK S : S = {j \in Nat : m[s + j] = 0}
  OBVIOUS
<1>4. PICK e \in Nat : e = z - s
  BY <1>2
<1>5. e \in S /\ e \in 0 .. e
  BY <1>2, <1>3, <1>4
<1>6. PICK n \in 0 .. e : n \in S /\ n <= e /\ \A j \in 0 .. n - 1 : j \notin S
  <2>1. e \in Nat /\ e \in 0 .. e /\ e \in S
    BY <1>5
  <2> QED BY <2>1, FirstExists, Zenon
<1>7. s + n \in DOMAIN m
  BY <1>1, <1>2, <1>4
<1> QED BY <1>3, <1>6, <1>7 DEF TextEnds

(* and is then the bytes up to there,                                      *)
LEMMA TextIs ==
  ASSUME NEW size \in Nat, NEW m \in Memory(size), NEW s \in Nat \ {0}, NEW n \in Nat,
         TextEnds(m, s, n)
  PROVE  Ended(m, s) /\ Text(m, s) = Bytes(m, s, n)
<1>1. DOMAIN m = 1 .. size
  BY DEF Memory
<1>2. PICK e \in 1 .. size : e = s + n
  BY <1>1 DEF TextEnds
<1>3. e >= s /\ m[e] = 0 /\ \A y \in s .. e - 1 : m[y] # 0
  <2>1. ASSUME NEW y \in s .. e - 1 PROVE m[y] # 0
    <3>1. y - s \in 0 .. n - 1 /\ s + (y - s) = y
      BY <1>2
    <3> QED BY <3>1 DEF TextEnds
  <2> QED BY <1>2, <2>1 DEF TextEnds
<1>4. PICK x : x = CHOOSE i \in DOMAIN m : i >= s /\ m[i] = 0 /\ \A y \in s .. i - 1 : m[y] # 0
  OBVIOUS
<1>5. x \in DOMAIN m /\ x >= s /\ m[x] = 0 /\ \A y \in s .. x - 1 : m[y] # 0
  BY <1>1, <1>3, <1>4
<1>6. x = e
  <2>1. ~(x < e)
    BY <1>1, <1>3, <1>5
  <2>2. ~(e < x)
    BY <1>1, <1>3, <1>5
  <2> QED BY <1>1, <1>5, <2>1, <2>2
<1>7. e - s = n
  BY <1>2
<1> QED BY <1>1, <1>3, <1>4, <1>6, <1>7 DEF Ended, Text

(* which strlen counts.                                                    *)
LEMMA StrlenIs ==
  ASSUME NEW size \in Nat, NEW m \in Memory(size), Size(m) = size,
         NEW s \in Nat \ {0}, NEW n \in Nat, TextEnds(m, s, n)
  PROVE  strlen(m, s) = n
<1>1. DOMAIN m = 1 .. size
  BY DEF Memory
<1>2. n \in 0 .. size /\ m[s + n] = 0 /\ \A j \in 0 .. n - 1 : ~(m[s + j] = 0)
  BY <1>1 DEF TextEnds
<1>3. PICK k : k = strlen(m, s)
  OBVIOUS
<1>4. k \in 0 .. size /\ m[s + k] = 0 /\ \A j \in 0 .. k - 1 : ~(m[s + j] = 0)
  BY <1>2, <1>3 DEF strlen, First
<1>5. ~(k < n) /\ ~(n < k)
  BY <1>2, <1>4
<1> QED BY <1>3, <1>4, <1>5

(* Two texts are ordered by where they first differ.                       *)
LEMMA OrdersBy ==
  ASSUME NEW X, NEW Y, NEW lx \in Nat, NEW ly \in Nat, Len(X) = lx, Len(Y) = ly,
         X = [j \in 1 .. lx |-> X[j]], Y = [j \in 1 .. ly |-> Y[j]],
         \A j \in 1 .. lx : X[j] \in Nat, \A j \in 1 .. ly : Y[j] \in Nat,
         NEW k \in Nat, k <= lx, k <= ly, \A j \in 1 .. k : X[j] = Y[j],
         NEW result \in Int,
         \/ lx = k /\ ly = k /\ result = 0
         \/ lx = k /\ ly > k /\ result < 0
         \/ lx > k /\ ly = k /\ result > 0
         \/ /\ lx > k /\ ly > k /\ X[k + 1] # Y[k + 1] /\ result # 0
            /\ result < 0 <=> X[k + 1] < Y[k + 1]
  PROVE  Orders(result, X, Y)
<1>0. Before(X, Y) <=> \E i \in 1 .. ly : /\ lx >= i - 1 /\ \A j \in 1 .. i - 1 : X[j] = Y[j]
                                          /\ lx = i - 1 \/ X[i] < Y[i]
  BY DEF Before
<1>1. CASE lx = k /\ ly = k /\ result = 0
  <2>1. X = Y
    BY <1>1
  <2>2. ASSUME NEW i \in 1 .. ly, lx = i - 1 \/ X[i] < Y[i] PROVE FALSE
    BY <1>1, <2>2
  <2> QED BY <1>0, <1>1, <2>1, <2>2 DEF Orders
<1>2. CASE lx = k /\ ly > k /\ result < 0
  <2>1. k + 1 \in 1 .. ly /\ (k + 1) - 1 = k /\ lx = (k + 1) - 1
    BY <1>2
  <2>2. Before(X, Y)
    BY <1>0, <2>1
  <2>3. X # Y
    BY <1>2
  <2> QED BY <1>2, <2>2, <2>3 DEF Orders
<1>3. CASE lx > k /\ ly = k /\ result > 0
  <2>1. ASSUME NEW i \in 1 .. ly, lx = i - 1 \/ X[i] < Y[i] PROVE FALSE
    <3>1. i \in 1 .. k /\ i \in 1 .. lx /\ lx # i - 1
      BY <1>3
    <3>2. X[i] = Y[i] /\ X[i] \in Nat
      BY <3>1
    <3> QED BY <2>1, <3>1, <3>2
  <2>2. X # Y
    BY <1>3
  <2>3. ~Before(X, Y)
    BY <1>0, <2>1
  <2> QED BY <1>3, <2>2, <2>3 DEF Orders
<1>4. CASE /\ lx > k /\ ly > k /\ X[k + 1] # Y[k + 1] /\ result # 0
           /\ result < 0 <=> X[k + 1] < Y[k + 1]
  <2>0. PICK i0 \in Nat : i0 = k + 1
    OBVIOUS
  <2>1. i0 \in 1 .. ly /\ i0 \in 1 .. lx /\ i0 - 1 = k /\ X[i0] # Y[i0]
    BY <1>4, <2>0
  <2>2. X # Y
    BY <2>1
  <2>3. CASE X[i0] < Y[i0]
    <3>1. Before(X, Y)
      BY <1>0, <2>1, <2>3
    <3> QED BY <1>4, <2>0, <2>2, <2>3, <3>1 DEF Orders
  <2>4. CASE ~(X[i0] < Y[i0])
    <3>1. ASSUME NEW i \in 1 .. ly, \A j \in 1 .. i - 1 : X[j] = Y[j], lx = i - 1 \/ X[i] < Y[i],
                 lx >= i - 1
          PROVE  FALSE
      <4>1. CASE i < i0
        <5>1. i \in 1 .. k /\ i \in 1 .. lx /\ lx # i - 1
          BY <1>4, <2>0, <4>1
        <5>2. X[i] = Y[i] /\ X[i] \in Nat
          BY <5>1
        <5> QED BY <3>1, <5>1, <5>2
      <4>2. CASE i = i0
        BY <1>4, <2>0, <2>1, <2>4, <3>1, <4>2
      <4>3. CASE i > i0
        <5>1. i0 \in 1 .. i - 1
          BY <2>1, <4>3
        <5> QED BY <2>1, <3>1, <5>1
      <4> QED BY <2>1, <4>1, <4>2, <4>3
    <3> QED BY <1>0, <1>4, <2>0, <2>2, <2>4, <3>1 DEF Orders
  <2> QED BY <2>3, <2>4
<1> QED BY <1>1, <1>2, <1>3, <1>4

(* The difference at the first place where two texts end or differ, also   *)
(* when both are cut behind it.                                            *)
LEMMA ComparedAt ==
  ASSUME NEW size \in Nat, NEW m \in Memory(size), NEW p \in Nat \ {0}, NEW q \in Nat \ {0},
         NEW x \in Nat, TextEnds(m, p, x), NEW y \in Nat, TextEnds(m, q, y),
         NEW k \in Nat, m[p + k] = 0 \/ m[p + k] # m[q + k],
         k <= x, k <= y, \A j \in 0 .. k - 1 : m[p + j] = m[q + j],
         NEW lx \in Nat, NEW ly \in Nat, k <= lx, lx <= x, k <= ly, ly <= y,
         lx = k => x = k, ly = k => y = k
  PROVE  Orders(m[p + k] - m[q + k], Bytes(m, p, lx), Bytes(m, q, ly))
<1>1. DOMAIN m = 1 .. size /\ \A i \in 1 .. size : m[i] \in 0 .. 255
  BY DEF Memory
<1>2. PICK X, Y : X = Bytes(m, p, lx) /\ Y = Bytes(m, q, ly)
  OBVIOUS
<1>3. /\ Len(X) = lx /\ X = [j \in 1 .. lx |-> m[p + j - 1]]
      /\ Len(Y) = ly /\ Y = [j \in 1 .. ly |-> m[q + j - 1]]
  BY <1>2, BytesFacts
<1>4. p + x \in 1 .. size /\ q + y \in 1 .. size
  BY <1>1 DEF TextEnds
<1>5. /\ \A j \in 1 .. lx : X[j] \in Nat /\ X[j] = m[p + (j - 1)]
      /\ \A j \in 1 .. ly : Y[j] \in Nat /\ Y[j] = m[q + (j - 1)]
  <2>1. ASSUME NEW j \in 1 .. lx PROVE X[j] \in Nat /\ X[j] = m[p + (j - 1)]
    <3>1. PICK i \in 1 .. size : i = p + j - 1 /\ i = p + (j - 1)
      BY <1>4
    <3>2. X[j] = m[p + j - 1]
      BY <1>3
    <3>3. X[j] = m[i]
      BY <3>1, <3>2
    <3>4. m[i] \in 0 .. 255
      BY <1>1
    <3>5. m[i] \in Nat
      BY <3>4
    <3> QED BY <3>1, <3>3, <3>5
  <2>2. ASSUME NEW j \in 1 .. ly PROVE Y[j] \in Nat /\ Y[j] = m[q + (j - 1)]
    <3>1. PICK i \in 1 .. size : i = q + j - 1 /\ i = q + (j - 1)
      BY <1>4
    <3>2. Y[j] = m[q + j - 1]
      BY <1>3
    <3>3. Y[j] = m[i]
      BY <3>1, <3>2
    <3>4. m[i] \in 0 .. 255
      BY <1>1
    <3>5. m[i] \in Nat
      BY <3>4
    <3> QED BY <3>1, <3>3, <3>5
  <2> QED BY <2>1, <2>2
<1>6. /\ X = [j \in 1 .. lx |-> X[j]] /\ Y = [j \in 1 .. ly |-> Y[j]]
  BY <1>3
<1>7. \A j \in 1 .. k : X[j] = Y[j]
  <2>1. ASSUME NEW j \in 1 .. k PROVE X[j] = Y[j]
    <3>1. j - 1 \in 0 .. k - 1 /\ j \in 1 .. lx /\ j \in 1 .. ly
      OBVIOUS
    <3> QED BY <1>5, <3>1
  <2> QED BY <2>1
<1>8. PICK u \in 0 .. 255, v \in 0 .. 255, r \in Int : u = m[p + k] /\ v = m[q + k] /\ r = u - v
  <2>1. p + k \in 1 .. size /\ q + k \in 1 .. size
    BY <1>4
  <2>2. PICK u \in 0 .. 255, v \in 0 .. 255 : u = m[p + k] /\ v = m[q + k]
    BY <1>1, <2>1
  <2>3. u - v \in Int
    OBVIOUS
  <2> QED BY <2>2, <2>3
<1>9. /\ lx > k => X[k + 1] = u /\ u # 0
      /\ ly > k => Y[k + 1] = v /\ v # 0
      /\ lx = k => u = 0
      /\ ly = k => v = 0
  <2>1. (k + 1) - 1 = k /\ (lx > k => k + 1 \in 1 .. lx /\ k \in 0 .. x - 1)
        /\ (ly > k => k + 1 \in 1 .. ly /\ k \in 0 .. y - 1)
    OBVIOUS
  <2> QED BY <1>5, <1>8, <2>1 DEF TextEnds
<1>10. \/ lx = k /\ ly = k /\ r = 0
       \/ lx = k /\ ly > k /\ r < 0
       \/ lx > k /\ ly = k /\ r > 0
       \/ /\ lx > k /\ ly > k /\ X[k + 1] # Y[k + 1] /\ r # 0
          /\ r < 0 <=> X[k + 1] < Y[k + 1]
  <2>1. CASE lx = k /\ ly = k
    BY <1>8, <1>9, <2>1
  <2>2. CASE lx = k /\ ly > k
    BY <1>8, <1>9, <2>2
  <2>3. CASE lx > k /\ ly = k
    BY <1>8, <1>9, <2>3
  <2>4. CASE lx > k /\ ly > k
    <3>1. X[k + 1] = u /\ Y[k + 1] = v /\ u # v
      BY <1>8, <1>9, <2>4
    <3> QED BY <1>8, <2>4, <3>1
  <2> QED BY <2>1, <2>2, <2>3, <2>4
<1>11. Orders(r, X, Y)
  BY <1>3, <1>5, <1>6, <1>7, <1>10, OrdersBy
<1> QED BY <1>2, <1>8, <1>11

(* Up to k nothing has ended nor differed;                                 *)
AlikeUpto(m, p, q, k) == \A j \in 0 .. k - 1 : m[p + j] # 0 /\ m[p + j] = m[q + j]

(* then both texts go on to there.                                         *)
LEMMA CommonPrefix ==
  ASSUME NEW m, NEW p \in Nat, NEW q \in Nat, NEW x \in Nat, TextEnds(m, p, x),
         NEW y \in Nat, TextEnds(m, q, y), NEW k \in Nat, AlikeUpto(m, p, q, k)
  PROVE  k <= x /\ k <= y
<1>1. m[p + x] = 0 /\ m[q + y] = 0
  BY DEF TextEnds
<1>2. ~(x < k)
  <2> SUFFICES ASSUME x < k PROVE FALSE
    OBVIOUS
  <2>1. x \in 0 .. k - 1
    OBVIOUS
  <2> QED BY <1>1, <2>1 DEF AlikeUpto
<1>3. ~(y < k)
  <2> SUFFICES ASSUME y < k PROVE FALSE
    OBVIOUS
  <2>1. y \in 0 .. k - 1
    OBVIOUS
  <2>2. m[p + y] # 0 /\ m[p + y] = m[q + y]
    BY <2>1 DEF AlikeUpto
  <2> QED BY <1>1, <2>2
<1> QED BY <1>2, <1>3

(* strcmp stops at such a place, because one of the texts has an end.      *)
LEMMA StrcmpOrders ==
  ASSUME NEW size \in Nat, NEW m \in Memory(size), Size(m) = size,
         NEW p \in Nat \ {0}, NEW q \in Nat \ {0},
         NEW x \in Nat, TextEnds(m, p, x), NEW y \in Nat, TextEnds(m, q, y)
  PROVE  Orders(strcmp(m, p, q), Text(m, p), Text(m, q))
<1>1. PICK S : S = {j \in 0 .. size : m[p + j] = 0 \/ m[p + j] # m[q + j]}
  OBVIOUS
<1>2. x \in 0 .. size /\ x \in S
  <2>1. DOMAIN m = 1 .. size
    BY DEF Memory
  <2>2. p + x \in 1 .. size /\ m[p + x] = 0
    BY <2>1 DEF TextEnds
  <2> QED BY <1>1, <2>2
<1>3. PICK i \in 0 .. size : i \in S /\ i <= x /\ \A j \in 0 .. i - 1 : j \notin S
  BY <1>2, FirstExists
<1>4. /\ m[p + i] = 0 \/ m[p + i] # m[q + i]
      /\ \A j \in 0 .. i - 1 : ~(m[p + j] = 0 \/ m[p + j] # m[q + j])
  BY <1>1, <1>3
<1>5. PICK k \in 0 .. size : k = First(Size(m), LAMBDA j : m[p + j] = 0 \/ m[p + j] # m[q + j])
  BY <1>4 DEF First
<1>6. /\ k \in 0 .. size /\ (m[p + k] = 0 \/ m[p + k] # m[q + k])
      /\ \A j \in 0 .. k - 1 : ~(m[p + j] = 0 \/ m[p + j] # m[q + j])
  BY <1>4, <1>5 DEF First
<1>7. k \in Nat /\ k <= x /\ k <= y /\ \A j \in 0 .. k - 1 : m[p + j] = m[q + j]
  <2>1. k \in Nat /\ p \in Nat /\ q \in Nat
    BY <1>6
  <2>2. AlikeUpto(m, p, q, k)
    BY <1>6 DEF AlikeUpto
  <2>3. k <= x /\ k <= y
    BY <2>1, <2>2, CommonPrefix
  <2> QED BY <2>1, <2>2, <2>3 DEF AlikeUpto
<1>8. Orders(m[p + k] - m[q + k], Bytes(m, p, x), Bytes(m, q, y))
  BY <1>6, <1>7, ComparedAt
<1>9. strcmp(m, p, q) = m[p + k] - m[q + k]
  BY <1>5 DEF strcmp
<1> QED BY <1>8, <1>9, TextIs

(* A cut of a text is its first bytes.                                     *)
LEMMA CutBytes ==
  ASSUME NEW m, NEW s, NEW x \in Nat, NEW n \in Nat,
         NEW l \in Nat, l = IF x < n THEN x ELSE n
  PROVE  Cut(Bytes(m, s, x), n) = Bytes(m, s, l)
<1>1. PICK b : b = Bytes(m, s, x)
  OBVIOUS
<1>2. Len(b) = x /\ b = [k \in 1 .. x |-> m[s + k - 1]]
  BY <1>1, BytesFacts
<1>3. SubSeq(b, 1, l) = [k \in 1 .. l |-> b[k]]
  <2>1. SubSeq(b, 1, l) = [k \in 1 .. (1 + l - 1) |-> b[1 + k - 1]]
    OBVIOUS
  <2>2. 1 + l - 1 = l /\ \A k \in 1 .. l : 1 + k - 1 = k
    OBVIOUS
  <2> QED BY <2>1, <2>2
<1>4. \A k \in 1 .. l : b[k] = m[s + k - 1]
  BY <1>2
<1>5. Bytes(m, s, l) = [k \in 1 .. l |-> m[s + k - 1]]
  BY BytesFacts
<1> QED BY <1>1, <1>2, <1>3, <1>4, <1>5 DEF Cut

(* strncmp stops there, or at the n-th character, before which all are     *)
(* alike.                                                                  *)
LEMMA StrncmpOrders ==
  ASSUME NEW size \in Nat, NEW m \in Memory(size), NEW p \in Nat \ {0}, NEW q \in Nat \ {0},
         NEW x \in Nat, TextEnds(m, p, x), NEW y \in Nat, TextEnds(m, q, y), NEW n \in Nat
  PROVE  Orders(strncmp(m, p, q, n), Cut(Text(m, p), n), Cut(Text(m, q), n))
<1>1. PICK S : S = {j \in 0 .. n : j = n \/ m[p + j] # m[q + j] \/ m[p + j] = 0}
  OBVIOUS
<1>2. n \in 0 .. n /\ n \in S
  BY <1>1
<1>3. PICK i \in 0 .. n : i \in S /\ i <= n /\ \A j \in 0 .. i - 1 : j \notin S
  BY <1>2, FirstExists
<1>4. /\ i = n \/ m[p + i] # m[q + i] \/ m[p + i] = 0
      /\ \A j \in 0 .. i - 1 : ~(j = n \/ m[p + j] # m[q + j] \/ m[p + j] = 0)
  BY <1>1, <1>3
<1>5. PICK k \in 0 .. n : k = First(n, LAMBDA j : j = n \/ m[p + j] # m[q + j] \/ m[p + j] = 0)
  BY <1>4 DEF First
<1>6. /\ k \in 0 .. n /\ (k = n \/ m[p + k] # m[q + k] \/ m[p + k] = 0)
      /\ \A j \in 0 .. k - 1 : ~(j = n \/ m[p + j] # m[q + j] \/ m[p + j] = 0)
  BY <1>4, <1>5 DEF First
<1>7. k \in Nat /\ k <= x /\ k <= y /\ \A j \in 0 .. k - 1 : m[p + j] = m[q + j]
  <2>1. AlikeUpto(m, p, q, k)
    BY <1>6 DEF AlikeUpto
  <2>2. k \in Nat /\ p \in Nat /\ q \in Nat
    BY <1>6
  <2>3. k <= x /\ k <= y
    BY <2>1, <2>2, CommonPrefix
  <2> QED BY <2>1, <2>2, <2>3 DEF AlikeUpto
<1>8. PICK lx \in Nat, ly \in Nat : /\ lx = IF x < n THEN x ELSE n
                                    /\ ly = IF y < n THEN y ELSE n
  OBVIOUS
<1>9. Cut(Text(m, p), n) = Bytes(m, p, lx) /\ Cut(Text(m, q), n) = Bytes(m, q, ly)
  <2>1. Text(m, p) = Bytes(m, p, x) /\ Text(m, q) = Bytes(m, q, y)
    BY TextIs
  <2> QED BY <1>8, <2>1, CutBytes
<1>10. CASE k = n
  <2>1. lx = n /\ ly = n
    BY <1>7, <1>8, <1>10
  <2>2. Bytes(m, p, n) = Bytes(m, q, n)
    <3>1. ASSUME NEW j \in 1 .. n PROVE m[p + j - 1] = m[q + j - 1]
      <4>1. j - 1 \in 0 .. k - 1 /\ p + j - 1 = p + (j - 1) /\ q + j - 1 = q + (j - 1)
        BY <1>10
      <4> QED BY <1>7, <4>1
    <3> QED BY <3>1 DEF Bytes
  <2>3. ~Before(Bytes(m, p, n), Bytes(m, p, n))
    <3>1. ASSUME NEW j \in 1 .. n, n = j - 1 \/ Bytes(m, p, n)[j] < Bytes(m, p, n)[j] PROVE FALSE
      <4>1. p + x \in 1 .. size /\ \A e \in 1 .. size : m[e] \in 0 .. 255
        BY DEF TextEnds, Memory
      <4>2. PICK e \in 1 .. size : e = p + j - 1
        BY <1>7, <1>10, <4>1
      <4>3. m[e] \in 0 .. 255
        BY <4>1
      <4>4. ~(m[e] < m[e])
        BY <4>3
      <4>5. Bytes(m, p, n)[j] = m[e]
        BY <4>2, BytesFacts
      <4> QED BY <3>1, <4>4, <4>5
    <3>2. Len(Bytes(m, p, n)) = n
      BY BytesFacts
    <3> QED BY <3>1, <3>2 DEF Before
  <2>4. strncmp(m, p, q, n) = 0
    BY <1>5, <1>10 DEF strncmp
  <2>5. Orders(0, Bytes(m, p, n), Bytes(m, q, n))
    BY <2>2, <2>3 DEF Orders
  <2> QED BY <1>9, <2>1, <2>4, <2>5
<1>11. CASE k # n
  <2>1. m[p + k] = 0 \/ m[p + k] # m[q + k]
    BY <1>6, <1>11
  <2>2. /\ k <= lx /\ lx <= x /\ k <= ly /\ ly <= y
        /\ (lx = k => x = k) /\ (ly = k => y = k)
    BY <1>6, <1>7, <1>8, <1>11
  <2>3. Orders(m[p + k] - m[q + k], Bytes(m, p, lx), Bytes(m, q, ly))
    BY <1>7, <2>1, <2>2, ComparedAt
  <2>4. strncmp(m, p, q, n) = m[p + k] - m[q + k]
    BY <1>5, <1>11 DEF strncmp
  <2> QED BY <1>9, <2>3, <2>4
<1> QED BY <1>10, <1>11

(* memcmp does not stop at zeros.                                          *)
LEMMA MemcmpOrders ==
  ASSUME NEW size \in Nat, NEW m \in Memory(size), NEW p \in Nat \ {0}, NEW q \in Nat \ {0},
         NEW n \in Nat, p + n - 1 <= size, q + n - 1 <= size
  PROVE  Orders(memcmp(m, p, q, n), Bytes(m, p, n), Bytes(m, q, n))
<1>1. PICK S : S = {j \in 0 .. n : j = n \/ m[p + j] # m[q + j]}
  OBVIOUS
<1>2. n \in 0 .. n /\ n \in S
  BY <1>1
<1>3. PICK i \in 0 .. n : i \in S /\ i <= n /\ \A j \in 0 .. i - 1 : j \notin S
  BY <1>2, FirstExists
<1>4. /\ i = n \/ m[p + i] # m[q + i]
      /\ \A j \in 0 .. i - 1 : ~(j = n \/ m[p + j] # m[q + j])
  BY <1>1, <1>3
<1>5. PICK k : k = First(n, LAMBDA j : j = n \/ m[p + j] # m[q + j])
  OBVIOUS
<1>6. /\ k \in 0 .. n /\ (k = n \/ m[p + k] # m[q + k])
      /\ \A j \in 0 .. k - 1 : ~(j = n \/ m[p + j] # m[q + j])
  BY <1>4, <1>5 DEF First
<1>7. PICK X, Y : X = Bytes(m, p, n) /\ Y = Bytes(m, q, n)
  OBVIOUS
<1>8. /\ Len(X) = n /\ X = [j \in 1 .. n |-> m[p + j - 1]]
      /\ Len(Y) = n /\ Y = [j \in 1 .. n |-> m[q + j - 1]]
  BY <1>7, BytesFacts
<1>9. \A e \in 1 .. size : m[e] \in 0 .. 255
  BY DEF Memory
<1>10. ASSUME NEW j \in 1 .. n
       PROVE  X[j] \in Nat /\ Y[j] \in Nat /\ X[j] = m[p + (j - 1)] /\ Y[j] = m[q + (j - 1)]
  <2>1. PICK u \in 1 .. size, v \in 1 .. size : /\ u = p + j - 1 /\ u = p + (j - 1)
                                                /\ v = q + j - 1 /\ v = q + (j - 1)
    <3>1. p + j - 1 \in 1 .. size /\ p + j - 1 = p + (j - 1)
      OBVIOUS
    <3>2. q + j - 1 \in 1 .. size /\ q + j - 1 = q + (j - 1)
      OBVIOUS
    <3> QED BY <3>1, <3>2
  <2>2. X[j] = m[u] /\ Y[j] = m[v]
    BY <1>8, <2>1
  <2>3. m[u] \in 0 .. 255 /\ m[v] \in 0 .. 255
    BY <1>9
  <2>4. m[u] \in Nat /\ m[v] \in Nat
    BY <2>3
  <2> QED BY <2>1, <2>2, <2>4
<1>11. \A j \in 1 .. k : X[j] = Y[j]
  <2>1. ASSUME NEW j \in 1 .. k PROVE X[j] = Y[j]
    <3>1. j - 1 \in 0 .. k - 1 /\ j \in 1 .. n
      BY <1>6
    <3> QED BY <1>6, <1>10, <3>1
  <2> QED BY <2>1
<1>12. PICK r : r = memcmp(m, p, q, n)
  OBVIOUS
<1>13. r = IF k = n THEN 0 ELSE IF m[p + k] < m[q + k] THEN -1 ELSE 1
  BY <1>5, <1>12 DEF memcmp
<1>14. /\ r \in Int
       /\ \/ n = k /\ r = 0
          \/ n > k /\ X[k + 1] # Y[k + 1] /\ r # 0 /\ (r < 0 <=> X[k + 1] < Y[k + 1])
  <2>1. CASE k = n
    BY <1>13, <2>1
  <2>2. CASE k # n
    <3>1. k + 1 \in 1 .. n /\ (k + 1) - 1 = k /\ n > k
      BY <1>6, <2>2
    <3>2. X[k + 1] = m[p + k] /\ Y[k + 1] = m[q + k]
      BY <1>10, <3>1
    <3> QED BY <1>6, <1>13, <2>2, <3>1, <3>2
  <2> QED BY <2>1, <2>2
<1>15. X = [j \in 1 .. n |-> X[j]] /\ Y = [j \in 1 .. n |-> Y[j]]
  BY <1>8
<1>16. Orders(r, X, Y)
  <2>1. k \in Nat /\ k <= n
    BY <1>6
  <2> QED BY <1>8, <1>10, <1>11, <1>14, <1>15, <2>1, OrdersBy
<1> QED BY <1>7, <1>12, <1>16

(* The comparisons agree with the dictionary.                              *)
LEMMA ComparisonsAreOrdered == ComparisonsOrder
<1> SUFFICES ASSUME NEW m \in Texts, NEW p \in DOMAIN m, Ended(m, p), NEW q \in DOMAIN m, Ended(m, q)
             PROVE  /\ strlen(m, p) = Len(Text(m, p))
                    /\ Orders(strcmp(m, p, q), Text(m, p), Text(m, q))
                    /\ \A n \in 0 .. Size(m) :
                         /\ Orders(strncmp(m, p, q, n), Cut(Text(m, p), n), Cut(Text(m, q), n))
                         /\ p + n - 1 \in {0} \cup DOMAIN m /\ q + n - 1 \in {0} \cup DOMAIN m =>
                              Orders(memcmp(m, p, q, n), Bytes(m, p, n), Bytes(m, q, n))
  BY DEF ComparisonsOrder
<1>1. PICK size \in Nat : size = Size(m) /\ DOMAIN m = 1 .. size /\ m \in Memory(size)
  <2>1. m \in Seq(0 .. 255)
    BY StringsAssumption
  <2> QED BY <2>1, MemoryFacts
<1>2. p \in Nat \ {0} /\ q \in Nat \ {0}
  BY <1>1
<1>3. PICK x \in Nat : TextEnds(m, p, x)
  BY <1>1, <1>2, TextEndsSomewhere
<1>4. PICK y \in Nat : TextEnds(m, q, y)
  BY <1>1, <1>2, TextEndsSomewhere
<1>5. strlen(m, p) = Len(Text(m, p))
  <2>1. strlen(m, p) = x
    BY <1>1, <1>2, <1>3, StrlenIs
  <2>2. Text(m, p) = Bytes(m, p, x)
    BY <1>1, <1>2, <1>3, TextIs
  <2> QED BY <2>1, <2>2, BytesFacts
<1>6. Orders(strcmp(m, p, q), Text(m, p), Text(m, q))
  BY <1>1, <1>2, <1>3, <1>4, StrcmpOrders
<1>7. ASSUME NEW n \in 0 .. Size(m)
      PROVE  Orders(strncmp(m, p, q, n), Cut(Text(m, p), n), Cut(Text(m, q), n))
  <2>1. n \in Nat
    BY <1>1
  <2> QED BY <1>1, <1>2, <1>3, <1>4, <2>1, StrncmpOrders
<1>8. ASSUME NEW n \in 0 .. Size(m),
             p + n - 1 \in {0} \cup DOMAIN m, q + n - 1 \in {0} \cup DOMAIN m
      PROVE  Orders(memcmp(m, p, q, n), Bytes(m, p, n), Bytes(m, q, n))
  <2>1. n \in Nat /\ p + n - 1 <= size /\ q + n - 1 <= size
    BY <1>1, <1>8
  <2> QED BY <1>1, <1>2, <2>1, MemcmpOrders
<1> QED BY <1>5, <1>6, <1>7, <1>8

-----------------------------------------------------------------------------
(* The text functions.                                                     *)

(* As long as the copy has not reached the source, the loop sees the text. *)
LEMMA SourceKept ==
  ASSUME NEW size \in Nat, NEW m \in Memory(size), NEW d \in Nat \ {0}, NEW s \in Nat \ {0},
         NEW j \in Nat, s + j <= size, Apart(d, s, j + 1)
  PROVE  Ascending(m, d, s, j) = Moved(m, d, s, j) /\ Ascending(m, d, s, j)[s + j] = m[s + j]
<1>1. s + j - 1 <= size /\ (s >= d \/ s + j <= d)
  BY DEF Apart
<1>2. Ascending(m, d, s, j) = Moved(m, d, s, j)
  BY <1>1, AscendingMoves
<1>3. s + j \in 1 .. size /\ s + j \notin d .. d + j - 1 /\ DOMAIN m = 1 .. size
  BY DEF Apart, Memory
<1>4. Moved(m, d, s, j)[s + j] = m[s + j]
  BY <1>3 DEF Moved
<1> QED BY <1>2, <1>4

(* strcpy stops at the end of the text and ends its copy there.            *)
LEMMA CopyTextIs ==
  ASSUME NEW size \in Nat, NEW m \in Memory(size), Size(m) = size,
         NEW d \in Nat \ {0}, NEW s \in Nat \ {0}, NEW l \in Nat, TextEnds(m, s, l),
         Apart(d, s, l + 1), d + l <= size
  PROVE  CopyText(m, d, s) = Put(m, d, Append(Bytes(m, s, l), 0))
<1>1. DOMAIN m = 1 .. size /\ s + l <= size /\ m[s + l] = 0 /\ \A j \in 0 .. l - 1 : m[s + j] # 0
  BY DEF TextEnds, Memory
<1>2. ASSUME NEW j \in 0 .. l
      PROVE  Ascending(m, d, s, j) = Moved(m, d, s, j) /\ Ascending(m, d, s, j)[s + j] = m[s + j]
  <2>1. j \in Nat /\ s + j <= size /\ Apart(d, s, j + 1)
    BY <1>1 DEF Apart
  <2> QED BY <2>1, SourceKept
<1>3. /\ l \in 0 .. size /\ Ascending(m, d, s, l)[s + l] = 0
      /\ \A j \in 0 .. l - 1 : ~(Ascending(m, d, s, j)[s + j] = 0)
  <2>1. l \in 0 .. size /\ l \in 0 .. l
    BY <1>1
  <2>2. ASSUME NEW j \in 0 .. l - 1 PROVE ~(Ascending(m, d, s, j)[s + j] = 0)
    <3>1. j \in 0 .. l
      OBVIOUS
    <3> QED BY <1>1, <1>2, <3>1
  <2> QED BY <1>1, <1>2, <2>1, <2>2
<1>4. PICK n \in 0 .. size : n = First(Size(m), LAMBDA j : Ascending(m, d, s, j)[s + j] = 0)
  BY <1>3 DEF First
<1>5. Ascending(m, d, s, n)[s + n] = 0 /\ \A j \in 0 .. n - 1 : ~(Ascending(m, d, s, j)[s + j] = 0)
  BY <1>3, <1>4 DEF First
<1>6. n = l
  <2>1. ~(n < l)
    <3> SUFFICES ASSUME n < l PROVE FALSE
      OBVIOUS
    <3>1. n \in 0 .. l - 1
      OBVIOUS
    <3> QED BY <1>3, <1>5, <3>1
  <2>2. ~(l < n)
    <3> SUFFICES ASSUME l < n PROVE FALSE
      OBVIOUS
    <3>1. l \in 0 .. n - 1
      OBVIOUS
    <3> QED BY <1>3, <1>5, <3>1
  <2> QED BY <2>1, <2>2
<1>7. CopyText(m, d, s) = [Moved(m, d, s, l) EXCEPT ![d + l] = 0]
  <2>1. Ascending(m, d, s, l) = Moved(m, d, s, l)
    <3>1. l \in 0 .. l
      OBVIOUS
    <3> QED BY <1>2, <3>1
  <2>2. CopyText(m, d, s) = [Ascending(m, d, s, n) EXCEPT ![d + n] = 0]
    BY <1>4 DEF CopyText
  <2> QED BY <1>6, <2>1, <2>2
<1>8. PICK b : b = Append(Bytes(m, s, l), 0)
  OBVIOUS
<1>9. Len(b) = l + 1 /\ b[l + 1] = 0 /\ \A k \in 1 .. l : b[k] = m[s + k - 1]
  <2>1. PICK e : e = Bytes(m, s, l)
    OBVIOUS
  <2>2. e = [k \in 1 .. l |-> m[s + k - 1]] /\ Len(e) = l
    BY <2>1, BytesFacts
  <2>3. \A k \in 1 .. l : m[s + k - 1] \in 0 .. 255
    <3>1. \A x \in 1 .. size : m[x] \in 0 .. 255
      BY DEF Memory
    <3>2. ASSUME NEW k \in 1 .. l PROVE s + k - 1 \in 1 .. size
      BY <1>1
    <3> QED BY <3>1, <3>2
  <2>4. e \in Seq(0 .. 255)
    BY <2>2, <2>3
  <2>5. b = Append(e, 0)
    BY <1>8, <2>1
  <2> QED BY <2>2, <2>4, <2>5
<1>10. PICK v, w : v = Moved(m, d, s, l) /\ w = [v EXCEPT ![d + l] = 0]
  OBVIOUS
<1>11. DOMAIN v = 1 .. size /\ DOMAIN w = 1 .. size
  BY <1>1, <1>10 DEF Moved
<1>12. ASSUME NEW x \in 1 .. size
       PROVE  w[x] = IF x \in d .. d + Len(b) - 1 THEN b[x - d + 1] ELSE m[x]
  <2>0. v[x] = IF x \in d .. d + l - 1 THEN m[s + x - d] ELSE m[x]
    BY <1>1, <1>10 DEF Moved
  <2>1. CASE x = d + l
    <3>1. w[x] = 0 /\ x - d + 1 = l + 1 /\ x \in d .. d + Len(b) - 1
      BY <1>9, <1>10, <1>11, <2>1
    <3> QED BY <1>9, <3>1
  <2>2. CASE x \in d .. d + l - 1
    <3>1. x - d + 1 \in 1 .. l /\ s + (x - d + 1) - 1 = s + x - d /\ x \in d .. d + Len(b) - 1
      BY <1>9, <2>2
    <3>2. b[x - d + 1] = m[s + x - d]
      BY <1>9, <3>1
    <3>3. w[x] = v[x]
      BY <1>10, <1>11, <2>2
    <3> QED BY <2>0, <2>2, <3>1, <3>2, <3>3
  <2>3. CASE x \notin d .. d + l
    <3>1. x \notin d .. d + Len(b) - 1 /\ x \notin d .. d + l - 1 /\ x # d + l
      BY <1>9, <2>3
    <3>2. w[x] = v[x]
      BY <1>10, <1>11, <3>1
    <3> QED BY <2>0, <3>1, <3>2
  <2> QED BY <2>1, <2>2, <2>3
<1>13. w = [x \in 1 .. size |-> IF x \in d .. d + Len(b) - 1 THEN b[x - d + 1] ELSE m[x]]
  <2>1. w = [x \in 1 .. size |-> w[x]]
    BY <1>10, <1>11
  <2> QED BY <1>12, <2>1
<1> QED BY <1>1, <1>7, <1>8, <1>10, <1>13 DEF Put

(* strncpy fills with zeros what the text leaves of n bytes.               *)
LEMMA StrncpyIs ==
  ASSUME NEW size \in Nat, NEW m \in Memory(size), NEW d \in Nat \ {0}, NEW s \in Nat \ {0},
         NEW l \in Nat, TextEnds(m, s, l), NEW n \in Nat, Apart(d, s, n), d + n - 1 <= size
  PROVE  strncpy(m, d, s, n) =
           Put(m, d, [k \in 1 .. n |-> IF k <= l THEN Bytes(m, s, l)[k] ELSE 0])
<1>1. DOMAIN m = 1 .. size /\ s + l <= size /\ m[s + l] = 0 /\ \A j \in 0 .. l - 1 : m[s + j] # 0
  BY DEF TextEnds, Memory
<1>2. PICK w \in Nat : w = IF l < n THEN l ELSE n
  OBVIOUS
<1>3. ASSUME NEW j \in 0 .. l, j < n
      PROVE  Ascending(m, d, s, j)[s + j] = m[s + j]
  <2>1. j \in Nat /\ s + j <= size /\ Apart(d, s, j + 1)
    BY <1>1, <1>3 DEF Apart
  <2> QED BY <2>1, SourceKept
<1>4. /\ w \in 0 .. n /\ (w >= n \/ Ascending(m, d, s, w)[s + w] = 0)
      /\ \A j \in 0 .. w - 1 : ~(j >= n \/ Ascending(m, d, s, j)[s + j] = 0)
  <2>1. w < n => w = l /\ l \in 0 .. l
    BY <1>2
  <2>2. ASSUME NEW j \in 0 .. w - 1 PROVE ~(j >= n \/ Ascending(m, d, s, j)[s + j] = 0)
    <3>1. j \in 0 .. l /\ j < n /\ j \in 0 .. l - 1
      BY <1>2
    <3> QED BY <1>1, <1>3, <3>1
  <2>3. w \in 0 .. n
    BY <1>2
  <2> QED BY <1>1, <1>3, <2>1, <2>2, <2>3
<1>5. PICK i \in 0 .. n : i = First(n, LAMBDA j : j >= n \/ Ascending(m, d, s, j)[s + j] = 0)
  BY <1>4 DEF First
<1>6. /\ i >= n \/ Ascending(m, d, s, i)[s + i] = 0
      /\ \A j \in 0 .. i - 1 : ~(j >= n \/ Ascending(m, d, s, j)[s + j] = 0)
  BY <1>4, <1>5 DEF First
<1>7. i = w
  <2>1. ~(i < w)
    <3> SUFFICES ASSUME i < w PROVE FALSE
      OBVIOUS
    <3>1. i \in 0 .. w - 1
      OBVIOUS
    <3> QED BY <1>4, <1>6, <3>1
  <2>2. ~(w < i)
    <3> SUFFICES ASSUME w < i PROVE FALSE
      OBVIOUS
    <3>1. w \in 0 .. i - 1
      OBVIOUS
    <3> QED BY <1>4, <1>6, <3>1
  <2> QED BY <2>1, <2>2
<1>8. strncpy(m, d, s, n) = Fill(Ascending(m, d, s, w), d + w, 0, n - w)
  BY <1>5, <1>7 DEF strncpy
<1>9. PICK v : v = Moved(m, d, s, w)
  OBVIOUS
<1>10. Ascending(m, d, s, w) = v /\ v \in Memory(size)
  <2>1. s + w - 1 <= size /\ (s >= d \/ s + w <= d)
    BY <1>1, <1>2 DEF Apart
  <2> QED BY <1>9, <2>1, AscendingMoves, MovedIsMemory
<1>11. PICK e \in Nat \ {0}, r \in Nat : e = d + w /\ r = n - w
  <2>1. d + w \in Nat \ {0} /\ n - w \in Nat
    BY <1>2
  <2> QED BY <2>1
<1>12. strncpy(m, d, s, n) = Painted(v, e, 0, r)
  BY <1>8, <1>10, <1>11, FillPaints
<1>13. PICK b : b = [k \in 1 .. n |-> IF k <= l THEN Bytes(m, s, l)[k] ELSE 0]
  OBVIOUS
<1>14. Len(b) = n /\ \A k \in 1 .. n : b[k] = IF k <= l THEN m[s + k - 1] ELSE 0
  <2>1. Len(b) = n
    BY <1>13
  <2>2. ASSUME NEW k \in 1 .. n PROVE b[k] = IF k <= l THEN m[s + k - 1] ELSE 0
    <3>1. k <= l => k \in 1 .. l
      OBVIOUS
    <3>2. k <= l => Bytes(m, s, l)[k] = m[s + k - 1]
      BY <3>1, BytesFacts
    <3> QED BY <1>13, <3>2
  <2> QED BY <2>1, <2>2
<1>15. DOMAIN v = 1 .. size
  BY <1>1, <1>9 DEF Moved
<1>16. ASSUME NEW x \in 1 .. size
       PROVE  (IF x \in e .. e + r - 1 THEN 0 ELSE v[x]) =
                IF x \in d .. d + n - 1 THEN b[x - d + 1] ELSE m[x]
  <2>0. v[x] = IF x \in d .. d + w - 1 THEN m[s + x - d] ELSE m[x]
    BY <1>1, <1>9 DEF Moved
  <2>1. CASE x \in e .. e + r - 1
    <3>1. x - d + 1 \in 1 .. n /\ ~(x - d + 1 <= l) /\ x \in d .. d + n - 1
      BY <1>2, <1>11, <2>1
    <3>2. b[x - d + 1] = 0
      BY <1>14, <3>1
    <3> QED BY <2>1, <3>1, <3>2
  <2>2. CASE x \in d .. d + w - 1
    <3>1. /\ x - d + 1 \in 1 .. n /\ x - d + 1 <= l /\ x \in d .. d + n - 1
          /\ x \notin e .. e + r - 1 /\ s + (x - d + 1) - 1 = s + x - d
      BY <1>2, <1>11, <2>2
    <3>2. b[x - d + 1] = m[s + x - d]
      BY <1>14, <3>1
    <3> QED BY <2>0, <2>2, <3>1, <3>2
  <2>3. CASE x \notin d .. d + n - 1
    <3>1. x \notin e .. e + r - 1 /\ x \notin d .. d + w - 1
      BY <1>2, <1>11, <2>3
    <3> QED BY <2>0, <2>3, <3>1
  <2>4. x \in e .. e + r - 1 \/ x \in d .. d + w - 1 \/ x \notin d .. d + n - 1
    BY <1>2, <1>11
  <2> QED BY <2>1, <2>2, <2>3, <2>4
<1>17. Painted(v, e, 0, r) = [x \in 1 .. size |-> IF x \in e .. e + r - 1 THEN 0 ELSE v[x]]
  BY <1>15 DEF Painted
<1>18. Put(m, d, b) = [x \in 1 .. size |-> IF x \in d .. d + n - 1 THEN b[x - d + 1] ELSE m[x]]
  BY <1>1, <1>14 DEF Put
<1> QED BY <1>12, <1>13, <1>16, <1>17, <1>18

(* A text put behind another is both put where the first begins.           *)
LEMMA PutBehind ==
  ASSUME NEW size \in Nat, NEW m \in Memory(size), NEW d \in Nat \ {0}, NEW e \in Nat,
         d + e <= size, NEW y \in Seq(0 .. 255)
  PROVE  Put(m, d + e, Append(y, 0)) = Put(m, d, Append(Bytes(m, d, e) \o y, 0))
<1>1. DOMAIN m = 1 .. size /\ \A x \in 1 .. size : m[x] \in 0 .. 255
  BY DEF Memory
<1>2. PICK l \in Nat : l = Len(y)
  OBVIOUS
<1>3. PICK p : p = Append(y, 0)
  OBVIOUS
<1>4. Len(p) = l + 1 /\ p[l + 1] = 0 /\ \A k \in 1 .. l : p[k] = y[k]
  BY <1>2, <1>3
<1>5. PICK q : q = Bytes(m, d, e)
  OBVIOUS
<1>6. q = [k \in 1 .. e |-> m[d + k - 1]] /\ Len(q) = e /\ q \in Seq(0 .. 255)
  <2>1. q = [k \in 1 .. e |-> m[d + k - 1]] /\ Len(q) = e
    BY <1>5, BytesFacts
  <2>2. \A k \in 1 .. e : d + k - 1 \in 1 .. size
    OBVIOUS
  <2>3. \A k \in 1 .. e : m[d + k - 1] \in 0 .. 255
    BY <1>1, <2>2
  <2> QED BY <2>1, <2>3
<1>7. PICK c : c = q \o y
  OBVIOUS
<1>8. /\ c \in Seq(0 .. 255) /\ Len(c) = e + l
      /\ \A k \in 1 .. e : c[k] = m[d + k - 1]
      /\ \A k \in e + 1 .. e + l : c[k] = y[k - e]
  BY <1>2, <1>6, <1>7
<1>9. PICK b : b = Append(c, 0)
  OBVIOUS
<1>10. /\ Len(b) = e + l + 1 /\ b[e + l + 1] = 0
       /\ \A k \in 1 .. e + l : b[k] = c[k]
  BY <1>8, <1>9
<1>11. ASSUME NEW x \in 1 .. size
       PROVE  (IF x \in d + e .. d + e + l THEN p[x - (d + e) + 1] ELSE m[x]) =
                IF x \in d .. d + e + l THEN b[x - d + 1] ELSE m[x]
  <2>1. CASE x \in d .. d + e - 1
    <3>1. PICK k \in 1 .. e : k = x - d + 1 /\ d + k - 1 = x /\ k \in 1 .. e + l
      BY <2>1
    <3>2. b[k] = m[x]
      BY <1>8, <1>10, <3>1
    <3>3. x \notin d + e .. d + e + l /\ x \in d .. d + e + l
      BY <2>1
    <3> QED BY <3>1, <3>2, <3>3
  <2>2. CASE x \in d + e .. d + e + l - 1
    <3>1. PICK k \in e + 1 .. e + l : k = x - d + 1 /\ x - (d + e) + 1 = k - e
      BY <2>2
    <3>2. k \in 1 .. e + l /\ k - e \in 1 .. l
      OBVIOUS
    <3>3. b[k] = y[k - e] /\ p[k - e] = y[k - e]
      BY <1>4, <1>8, <1>10, <3>2
    <3>4. x \in d + e .. d + e + l /\ x \in d .. d + e + l
      BY <2>2
    <3> QED BY <3>1, <3>3, <3>4
  <2>3. CASE x = d + e + l
    <3>1. x - (d + e) + 1 = l + 1 /\ x - d + 1 = e + l + 1 /\ x \in d + e .. d + e + l /\ x \in d .. d + e + l
      BY <2>3
    <3> QED BY <1>4, <1>10, <3>1
  <2>4. CASE x \notin d .. d + e + l
    <3>1. x \notin d + e .. d + e + l
      BY <2>4
    <3> QED BY <2>4, <3>1
  <2> QED BY <2>1, <2>2, <2>3, <2>4
<1>12. Put(m, d + e, p) = [x \in 1 .. size |-> IF x \in d + e .. d + e + l THEN p[x - (d + e) + 1] ELSE m[x]]
  <2>1. d + e + Len(p) - 1 = d + e + l
    BY <1>4
  <2> QED BY <1>1, <2>1 DEF Put
<1>13. Put(m, d, b) = [x \in 1 .. size |-> IF x \in d .. d + e + l THEN b[x - d + 1] ELSE m[x]]
  <2>1. d + Len(b) - 1 = d + e + l
    BY <1>10
  <2> QED BY <1>1, <2>1 DEF Put
<1>14. Put(m, d + e, p) = Put(m, d, b)
  BY <1>11, <1>12, <1>13
<1> QED BY <1>3, <1>5, <1>7, <1>9, <1>14

(* The text functions do what they are for.                                *)
LEMMA TextsAreCopied == TextsCopied
<1> DEFINE padded(t, n) == [k \in 1 .. n |-> IF k <= Len(t) THEN t[k] ELSE 0]
<1> SUFFICES ASSUME NEW m \in Texts, NEW d \in DOMAIN m, NEW s \in DOMAIN m, Ended(m, s),
                    NEW t, t = Text(m, s)
             PROVE  /\ Apart(d, s, Len(t) + 1) /\ d + Len(t) <= Size(m) =>
                         strcpy(m, d, s) = Put(m, d, Append(t, 0))
                    /\ \A n \in 0 .. Size(m) :
                         Apart(d, s, n) /\ d + n - 1 <= Size(m) =>
                           strncpy(m, d, s, n) = Put(m, d, padded(t, n))
                    /\ Ended(m, d) /\ (s + Len(t) < d \/ d + Len(Text(m, d) \o t) < s)
                         /\ d + Len(Text(m, d) \o t) <= Size(m)
                       => strcat(m, d, s) = Put(m, d, Append(Text(m, d) \o t, 0))
  BY DEF TextsCopied
<1>1. PICK size \in Nat : size = Size(m) /\ DOMAIN m = 1 .. size /\ m \in Memory(size)
  <2>1. m \in Seq(0 .. 255)
    BY StringsAssumption
  <2> QED BY <2>1, MemoryFacts
<1>2. d \in Nat \ {0} /\ s \in Nat \ {0} /\ d <= size
  BY <1>1
<1>3. PICK l \in Nat : TextEnds(m, s, l)
  BY <1>1, <1>2, TextEndsSomewhere
<1>4. t = Bytes(m, s, l)
  BY <1>1, <1>2, <1>3, TextIs
<1>5. Len(t) = l
  BY <1>4, BytesFacts
<1>6. ASSUME Apart(d, s, Len(t) + 1), d + Len(t) <= Size(m)
      PROVE  strcpy(m, d, s) = Put(m, d, Append(t, 0))
  <2>1. CopyText(m, d, s) = Put(m, d, Append(t, 0))
    BY <1>1, <1>2, <1>3, <1>4, <1>5, <1>6, CopyTextIs
  <2> QED BY <1>2, <2>1 DEF strcpy
<1>7. ASSUME NEW n \in 0 .. Size(m), Apart(d, s, n), d + n - 1 <= Size(m)
      PROVE  strncpy(m, d, s, n) = Put(m, d, padded(t, n))
  <2>1. n \in Nat /\ d + n - 1 <= size
    BY <1>1, <1>7
  <2>2. strncpy(m, d, s, n) = Put(m, d, [k \in 1 .. n |-> IF k <= l THEN Bytes(m, s, l)[k] ELSE 0])
    BY <1>1, <1>2, <1>3, <1>7, <2>1, StrncpyIs
  <2> QED BY <1>4, <1>5, <2>2
<1>8. ASSUME Ended(m, d), s + Len(t) < d \/ d + Len(Text(m, d) \o t) < s,
             d + Len(Text(m, d) \o t) <= Size(m)
      PROVE  strcat(m, d, s) = Put(m, d, Append(Text(m, d) \o t, 0))
  <2>1. PICK e \in Nat : TextEnds(m, d, e)
    BY <1>1, <1>2, <1>8, TextEndsSomewhere
  <2>2. Text(m, d) = Bytes(m, d, e) /\ strlen(m, d) = e
    BY <1>1, <1>2, <2>1, TextIs, StrlenIs
  <2>3. t \in Seq(0 .. 255) /\ Bytes(m, d, e) \in Seq(0 .. 255)
    <3>1. \A x \in 1 .. size : m[x] \in 0 .. 255
      BY <1>1 DEF Memory
    <3>2. s + l \in 1 .. size /\ d + e \in 1 .. size
      BY <1>1, <1>3, <2>1 DEF TextEnds
    <3>3. \A k \in 1 .. l : m[s + k - 1] \in 0 .. 255
      <4>1. \A k \in 1 .. l : s + k - 1 \in 1 .. size
        BY <1>2, <3>2
      <4> QED BY <3>1, <4>1
    <3>4. \A k \in 1 .. e : m[d + k - 1] \in 0 .. 255
      <4>1. \A k \in 1 .. e : d + k - 1 \in 1 .. size
        BY <1>2, <3>2
      <4> QED BY <3>1, <4>1
    <3>5. t = [k \in 1 .. l |-> m[s + k - 1]] /\ Bytes(m, d, e) = [k \in 1 .. e |-> m[d + k - 1]]
      BY <1>4, BytesFacts
    <3> QED BY <3>3, <3>4, <3>5
  <2>4. PICK q \in Seq(0 .. 255) : q = Bytes(m, d, e) /\ Len(q) = e
    BY <2>3, BytesFacts
  <2>5. Len(q \o t) = e + l
    BY <1>5, <2>3, <2>4
  <2>6. (s + l < d \/ d + (e + l) < s) /\ d + (e + l) <= size
    BY <1>1, <1>5, <1>8, <2>2, <2>4, <2>5
  <2>7. PICK g \in Nat \ {0} : g = d + e
    BY <1>2
  <2>8. Apart(g, s, l + 1) /\ g + l <= size
    BY <1>2, <2>6, <2>7 DEF Apart
  <2>9. CopyText(m, g, s) = Put(m, g, Append(t, 0))
    BY <1>1, <1>2, <1>3, <1>4, <2>7, <2>8, CopyTextIs
  <2>10. strcat(m, d, s) = CopyText(m, g, s)
    BY <2>2, <2>7 DEF strcat
  <2>11. Put(m, d + e, Append(t, 0)) = Put(m, d, Append(Bytes(m, d, e) \o t, 0))
    <3>1. d + e <= size
      BY <1>2, <2>6
    <3> QED BY <1>1, <1>2, <2>3, <3>1, PutBehind
  <2> QED BY <2>2, <2>7, <2>9, <2>10, <2>11
<1> QED BY <1>6, <1>7, <1>8

-----------------------------------------------------------------------------
(* The brand string.                                                       *)

(* One round of the loop, and its rounds.                                  *)
SqueezeRound(w, brand, k) ==
  LET c == w.mem[brand + k - 1]
  IN  IF c = Space /\ (w.prev_space \/ w.dst = brand)
      THEN [w EXCEPT !.prev_space = TRUE]
      ELSE [mem |-> [w.mem EXCEPT ![w.dst] = c],
            dst |-> w.dst + 1,
            prev_space |-> (c = Space)]
SqueezeStart(m, brand) == [mem |-> m, dst |-> brand, prev_space |-> FALSE]
SqueezedUpto(m, brand, n, h) ==
  h = [k \in 0 .. n |-> IF k = 0 THEN SqueezeStart(m, brand)
                        ELSE SqueezeRound(h[k - 1], brand, k)]

(* There are such rounds, however many.                                    *)
LEMMA SqueezesExist ==
  ASSUME NEW m, NEW brand, NEW n \in Nat
  PROVE  \E h : SqueezedUpto(m, brand, n, h)
<1> DEFINE S == {i \in Nat : \E h : SqueezedUpto(m, brand, i, h)}
<1>1. 0 \in S
  <2>1. PICK h : h = [k \in 0 .. 0 |-> SqueezeStart(m, brand)]
    OBVIOUS
  <2>2. SqueezedUpto(m, brand, 0, h)
    BY <2>1 DEF SqueezedUpto
  <2> QED BY <2>2
<1>2. ASSUME NEW i \in Nat, i \in S PROVE i + 1 \in S
  <2>1. PICK h : SqueezedUpto(m, brand, i, h)
    BY <1>2
  <2>2. PICK g : g = [k \in 0 .. i + 1 |-> IF k = i + 1 THEN SqueezeRound(h[i], brand, k) ELSE h[k]]
    OBVIOUS
  <2>3. ASSUME NEW k \in 0 .. i + 1
        PROVE  g[k] = IF k = 0 THEN SqueezeStart(m, brand) ELSE SqueezeRound(g[k - 1], brand, k)
    <3>1. CASE k = i + 1
      <4>1. k - 1 = i /\ i \in 0 .. i + 1 /\ i # i + 1 /\ k # 0
        BY <3>1
      <4>2. g[k - 1] = h[i]
        BY <2>2, <4>1
      <4> QED BY <2>2, <3>1, <4>1, <4>2
    <3>2. CASE k # i + 1
      <4>1. k \in 0 .. i /\ g[k] = h[k]
        BY <2>2, <3>2
      <4>2. k # 0 => g[k - 1] = h[k - 1]
        BY <2>2, <4>1
      <4>3. h[k] = IF k = 0 THEN SqueezeStart(m, brand) ELSE SqueezeRound(h[k - 1], brand, k)
        BY <2>1, <4>1 DEF SqueezedUpto
      <4> QED BY <4>1, <4>2, <4>3
    <3> QED BY <3>1, <3>2
  <2>4. SqueezedUpto(m, brand, i + 1, g)
    BY <2>2, <2>3 DEF SqueezedUpto
  <2> QED BY <2>4
<1> HIDE DEF S
<1>3. n \in S
  BY <1>1, <1>2, SetInduction
<1> QED BY <1>3 DEF S

(* How many of some numbers there are up to a place.                       *)
CountOf(K, k) == Cardinality(K \cap (1 .. k))

(* The count goes up by one at each of the numbers, and at no other place. *)
LEMMA CountFacts ==
  ASSUME NEW l \in Nat, NEW K \in SUBSET (1 .. l)
  PROVE  /\ CountOf(K, 0) = 0 /\ CountOf(K, l) = Cardinality(K)
         /\ \A k \in 0 .. l : CountOf(K, k) \in 0 .. k
         /\ \A k \in 1 .. l :
              CountOf(K, k) = IF k \in K THEN CountOf(K, k - 1) + 1 ELSE CountOf(K, k - 1)
         /\ \A k \in 0 .. l : \A j \in 0 .. k : CountOf(K, j) <= CountOf(K, k)
<1>1. ASSUME NEW k \in 0 .. l
      PROVE  /\ IsFiniteSet(1 .. k) /\ Cardinality(1 .. k) = k
             /\ IsFiniteSet(K \cap (1 .. k)) /\ CountOf(K, k) \in Nat /\ CountOf(K, k) <= k
  <2>1. IsFiniteSet(1 .. k) /\ Cardinality(1 .. k) = k
    BY FS_Interval
  <2>2. K \cap (1 .. k) \in SUBSET (1 .. k)
    OBVIOUS
  <2>3. /\ IsFiniteSet(K \cap (1 .. k))
        /\ Cardinality(K \cap (1 .. k)) <= Cardinality(1 .. k)
    BY <2>1, <2>2, FS_Subset
  <2>4. Cardinality(K \cap (1 .. k)) \in Nat
    BY <2>3, FS_CardinalityType
  <2> QED BY <2>1, <2>3, <2>4 DEF CountOf
<1>2. CountOf(K, 0) = 0
  <2>1. K \cap (1 .. 0) = {}
    OBVIOUS
  <2> QED BY <2>1, FS_EmptySet DEF CountOf
<1>3. CountOf(K, l) = Cardinality(K)
  <2>1. K \cap (1 .. l) = K
    OBVIOUS
  <2> QED BY <2>1 DEF CountOf
<1>4. ASSUME NEW k \in 1 .. l
      PROVE  CountOf(K, k) = IF k \in K THEN CountOf(K, k - 1) + 1 ELSE CountOf(K, k - 1)
  <2>1. k - 1 \in 0 .. l /\ k \notin K \cap (1 .. (k - 1))
    OBVIOUS
  <2>2. IsFiniteSet(K \cap (1 .. (k - 1)))
    BY <1>1, <2>1
  <2>3. CASE k \in K
    <3>1. K \cap (1 .. k) = (K \cap (1 .. (k - 1))) \cup {k}
      BY <2>3
    <3>2. Cardinality((K \cap (1 .. (k - 1))) \cup {k}) = Cardinality(K \cap (1 .. (k - 1))) + 1
      BY <2>1, <2>2, FS_AddElement
    <3> QED BY <2>3, <3>1, <3>2 DEF CountOf
  <2>4. CASE k \notin K
    <3>1. K \cap (1 .. k) = K \cap (1 .. (k - 1))
      BY <2>4
    <3> QED BY <2>4, <3>1 DEF CountOf
  <2> QED BY <2>3, <2>4
<1>5. ASSUME NEW k \in 0 .. l, NEW j \in 0 .. k PROVE CountOf(K, j) <= CountOf(K, k)
  <2>1. K \cap (1 .. j) \in SUBSET (K \cap (1 .. k))
    OBVIOUS
  <2> QED BY <1>1, <2>1, FS_Subset DEF CountOf
<1>6. ASSUME NEW k \in 0 .. l PROVE CountOf(K, k) \in 0 .. k
  <2>1. PICK n \in Nat : n = CountOf(K, k) /\ n <= k
    BY <1>1
  <2> QED BY <2>1
<1> QED BY <1>2, <1>3, <1>4, <1>5, <1>6

(* The characters that are kept.                                           *)
KeptOf(t) == {k \in DOMAIN t : t[k] # Space \/ (k > 1 /\ t[k - 1] # Space)}

(* After k characters: what is kept of them is in its place, and the rest  *)
(* of the text is where it was.                                            *)
SqueezeInv(size, m, p, t, w, k) ==
  /\ w \in [mem : Memory(size), dst : Nat, prev_space : BOOLEAN]
  /\ w.dst = p + CountOf(KeptOf(t), k)
  /\ w.prev_space <=> k > 0 /\ t[k] = Space
  /\ \A x \in p + k .. size : w.mem[x] = m[x]
  /\ \A x \in p .. w.dst - 1 : w.mem[x] # 0
  /\ \A j \in KeptOf(t) : j <= k => w.mem[p + CountOf(KeptOf(t), j) - 1] = t[j]

(* A round keeps a character if it is one of them, and else drops it.      *)
LEMMA SqueezeStep ==
  ASSUME NEW size \in Nat, NEW m \in Memory(size), NEW p \in Nat \ {0}, NEW l \in Nat,
         TextEnds(m, p, l), NEW t, t = Bytes(m, p, l), NEW k \in 1 .. l,
         NEW w, SqueezeInv(size, m, p, t, w, k - 1)
  PROVE  SqueezeInv(size, m, p, t, SqueezeRound(w, p, k), k)
<1>1. PICK K : K = KeptOf(t)
  OBVIOUS
<1>2. DOMAIN t = 1 .. l /\ \A j \in 1 .. l : t[j] = m[p + j - 1]
  BY BytesFacts
<1>3. K = {j \in 1 .. l : t[j] # Space \/ (j > 1 /\ t[j - 1] # Space)} /\ K \in SUBSET (1 .. l)
  BY <1>1, <1>2 DEF KeptOf
<1>4. /\ \A j \in 0 .. l : CountOf(K, j) \in 0 .. j
      /\ \A j \in 1 .. l : CountOf(K, j) = IF j \in K THEN CountOf(K, j - 1) + 1 ELSE CountOf(K, j - 1)
      /\ \A i \in 0 .. l : \A j \in 0 .. i : CountOf(K, j) <= CountOf(K, i)
      /\ CountOf(K, 0) = 0
  <2>1. /\ \A j \in 0 .. l : CountOf(K, j) \in 0 .. j
        /\ CountOf(K, 0) = 0
    BY <1>3, CountFacts
  <2>2. \A j \in 1 .. l :
          CountOf(K, j) = IF j \in K THEN CountOf(K, j - 1) + 1 ELSE CountOf(K, j - 1)
    BY <1>3, CountFacts
  <2>3. \A i \in 0 .. l : \A j \in 0 .. i : CountOf(K, j) <= CountOf(K, i)
    BY <1>3, CountFacts
  <2> QED BY <2>1, <2>2, <2>3
<1>5. PICK i \in 0 .. l : i = k - 1 /\ k = i + 1
  OBVIOUS
<1>6. PICK b \in 0 .. i : b = CountOf(K, i)
  BY <1>4
<1>7. PICK mem \in Memory(size), dst \in Nat : mem = w.mem /\ dst = w.dst
  <2>1. w.mem \in Memory(size) /\ w.dst \in Nat
    BY DEF SqueezeInv
  <2> QED BY <2>1
<1>8. /\ w \in [mem : Memory(size), dst : Nat, prev_space : BOOLEAN]
      /\ mem \in [1 .. size -> 0 .. 255] /\ dst = p + b
      /\ w.prev_space <=> i > 0 /\ t[i] = Space
      /\ \A x \in p + i .. size : mem[x] = m[x]
      /\ \A x \in p .. dst - 1 : mem[x] # 0
      /\ \A j \in K : j <= i => mem[p + CountOf(K, j) - 1] = t[j]
  BY <1>1, <1>5, <1>6, <1>7 DEF SqueezeInv, Memory
<1>9. DOMAIN m = 1 .. size /\ p + l <= size /\ \A j \in 0 .. l - 1 : m[p + j] # 0
  BY DEF TextEnds, Memory
<1>10. PICK e \in 1 .. size : e = p + k - 1 /\ e = p + i
  BY <1>5, <1>9
<1>11. PICK c : c = w.mem[p + k - 1]
  OBVIOUS
<1>12. c = mem[e] /\ c = m[e] /\ c = t[k] /\ c \in 0 .. 255 /\ c # 0
  <2>1. c = mem[e]
    BY <1>7, <1>10, <1>11
  <2>2. mem[e] = m[e]
    BY <1>8, <1>10
  <2>3. t[k] = m[e]
    BY <1>2, <1>10
  <2>4. m[p + i] # 0
    <3>1. i \in 0 .. l - 1
      BY <1>5
    <3> QED BY <1>9, <3>1
  <2>5. m[e] \in 0 .. 255
    BY DEF Memory
  <2> QED BY <1>10, <2>1, <2>2, <2>3, <2>4, <2>5
<1>13. dst \in p .. e /\ dst \in 1 .. size
  BY <1>8, <1>9, <1>10
<1>14. k \in K <=> ~(c = Space /\ (w.prev_space \/ dst = p))
  <2>1. k \in K <=> c # Space \/ (k > 1 /\ t[k - 1] # Space)
    BY <1>3, <1>12
  <2>2. i = 0 => dst = p
    BY <1>4, <1>6, <1>8
  <2>3. i > 0 /\ t[i] # Space => dst # p
    <3> SUFFICES ASSUME i > 0, t[i] # Space PROVE dst # p
      OBVIOUS
    <3>1. i \in K /\ i \in 1 .. l /\ i - 1 \in 0 .. l
      BY <1>3
    <3>2. b = CountOf(K, i - 1) + 1 /\ CountOf(K, i - 1) \in 0 .. i - 1
      BY <1>4, <1>6, <3>1
    <3> QED BY <1>8, <3>2
  <2>4. k > 1 <=> i > 0
    BY <1>5
  <2>5. CASE i = 0
    BY <1>5, <2>1, <2>2, <2>4, <2>5
  <2>6. CASE i > 0 /\ t[i] # Space
    <3>1. ~w.prev_space
      BY <1>8, <2>6
    <3> QED BY <1>5, <2>1, <2>3, <2>4, <2>6, <3>1
  <2>7. CASE i > 0 /\ t[i] = Space
    <3>1. w.prev_space
      BY <1>8, <2>7
    <3> QED BY <1>5, <2>1, <2>4, <2>7, <3>1
  <2> QED BY <2>5, <2>6, <2>7
<1>15. PICK z : z = SqueezeRound(w, p, k)
  OBVIOUS
<1>16. CASE k \notin K
  <2>1. c = Space /\ (w.prev_space \/ w.dst = p)
    BY <1>7, <1>14, <1>16
  <2>2. z = [w EXCEPT !.prev_space = TRUE]
    BY <1>11, <1>15, <2>1 DEF SqueezeRound
  <2>3. /\ z \in [mem : Memory(size), dst : Nat, prev_space : BOOLEAN]
        /\ z.mem = mem /\ z.dst = dst /\ z.prev_space
    BY <1>7, <1>8, <2>2
  <2>4. CountOf(K, k) = b
    BY <1>4, <1>5, <1>6, <1>16
  <2>5. k > 0 /\ t[k] = Space
    BY <1>12, <2>1
  <2>6. \A x \in p + k .. size : mem[x] = m[x]
    <3>1. \A x \in p + k .. size : x \in p + i .. size
      BY <1>5
    <3> QED BY <1>8, <3>1
  <2>7. \A j \in K : j <= k => mem[p + CountOf(K, j) - 1] = t[j]
    <3>1. \A j \in K : j <= k => j <= i
      BY <1>3, <1>5, <1>16
    <3> QED BY <1>8, <3>1
  <2>8. z.prev_space <=> k > 0 /\ t[k] = Space
    BY <2>3, <2>5
  <2>9. z.dst = p + CountOf(K, k)
    BY <1>8, <2>3, <2>4
  <2>10. \A x \in p .. z.dst - 1 : z.mem[x] # 0
    BY <1>8, <2>3
  <2> QED BY <1>1, <1>15, <2>3, <2>6, <2>7, <2>8, <2>9, <2>10 DEF SqueezeInv
<1>17. CASE k \in K
  <2>1. ~(c = Space /\ (w.prev_space \/ w.dst = p))
    BY <1>7, <1>14, <1>17
  <2>2. z = [mem |-> [mem EXCEPT ![dst] = c], dst |-> dst + 1, prev_space |-> (c = Space)]
    BY <1>7, <1>11, <1>15, <2>1 DEF SqueezeRound
  <2>3. PICK v : v = [mem EXCEPT ![dst] = c]
    OBVIOUS
  <2>4. /\ v \in [1 .. size -> 0 .. 255] /\ v[dst] = c
        /\ \A x \in 1 .. size : x # dst => v[x] = mem[x]
    BY <1>8, <1>12, <1>13, <2>3
  <2>5. z.mem = v /\ z.dst = dst + 1 /\ (z.prev_space <=> c = Space)
    BY <2>2, <2>3
  <2>6. z \in [mem : Memory(size), dst : Nat, prev_space : BOOLEAN]
    <3>1. v \in Memory(size) /\ dst + 1 \in Nat /\ (c = Space) \in BOOLEAN
      BY <2>4 DEF Memory
    <3> QED BY <2>2, <2>3, <3>1
  <2>7. CountOf(K, k) = b + 1
    BY <1>4, <1>5, <1>6, <1>17
  <2>8. \A x \in p + k .. size : v[x] = m[x]
    <3>1. ASSUME NEW x \in p + k .. size PROVE v[x] = m[x]
      <4>1. x \in p + i .. size /\ x \in 1 .. size /\ x # dst
        BY <1>5, <1>10, <1>13
      <4> QED BY <1>8, <2>4, <4>1
    <3> QED BY <3>1
  <2>9. \A x \in p .. (dst + 1) - 1 : v[x] # 0
    <3>1. ASSUME NEW x \in p .. (dst + 1) - 1 PROVE v[x] # 0
      <4>1. CASE x = dst
        BY <1>12, <2>4, <4>1
      <4>2. CASE x # dst
        <5>1. x \in p .. dst - 1 /\ x \in 1 .. size
          BY <1>13, <4>2
        <5> QED BY <1>8, <2>4, <4>2, <5>1
      <4> QED BY <4>1, <4>2
    <3> QED BY <3>1
  <2>10. \A j \in K : j <= k => v[p + CountOf(K, j) - 1] = t[j]
    <3>1. ASSUME NEW j \in K, j <= k PROVE v[p + CountOf(K, j) - 1] = t[j]
      <4>1. CASE j = k
        <5>1. p + CountOf(K, j) - 1 = dst
          BY <1>8, <2>7, <4>1
        <5> QED BY <1>12, <2>4, <4>1, <5>1
      <4>2. CASE j # k
        <5>1. j \in 1 .. l /\ j \in 0 .. i /\ j <= i /\ i \in 0 .. l /\ j - 1 \in 0 .. l
          BY <1>3, <1>5, <3>1, <4>2
        <5>2. PICK cj \in Nat : cj = CountOf(K, j) /\ cj <= b /\ cj >= 1
          <6>1. CountOf(K, j) <= b
            BY <1>4, <1>6, <5>1
          <6>2. CountOf(K, j) = CountOf(K, j - 1) + 1 /\ CountOf(K, j - 1) \in 0 .. j - 1
            BY <1>4, <5>1
          <6> QED BY <6>1, <6>2
        <5>3. p + cj - 1 \in 1 .. size /\ p + cj - 1 # dst
          BY <1>8, <1>13, <5>2
        <5>4. mem[p + cj - 1] = t[j]
          BY <1>8, <5>1, <5>2
        <5> QED BY <2>4, <5>2, <5>3, <5>4
      <4> QED BY <4>1, <4>2
    <3> QED BY <3>1
  <2>11. z.prev_space <=> k > 0 /\ t[k] = Space
    BY <1>12, <2>5
  <2>12. z.dst = p + CountOf(K, k)
    BY <1>8, <2>5, <2>7
  <2> QED BY <1>1, <1>15, <2>5, <2>6, <2>8, <2>9, <2>10, <2>11, <2>12 DEF SqueezeInv
<1> QED BY <1>16, <1>17

(* At the end of the text, what is kept is what there should be.           *)
LEMMA BrandIsSqueezed == BrandSqueezed
<1> SUFFICES ASSUME NEW m \in Texts, NEW p \in DOMAIN m, Ended(m, p), NEW t, t = Text(m, p)
             PROVE  LET left == Text(Squeezed(m, p), p)
                    IN  /\ Len(left) = Cardinality(KeptOf(t))
                        /\ \A k \in KeptOf(t) :
                             left[Cardinality(KeptOf(t) \cap (1 .. k))] = t[k]
  BY DEF BrandSqueezed, KeptOf
<1>1. PICK size \in Nat : size = Size(m) /\ DOMAIN m = 1 .. size /\ m \in Memory(size)
  <2>1. m \in Seq(0 .. 255)
    BY StringsAssumption
  <2> QED BY <2>1, MemoryFacts
<1>2. p \in Nat \ {0}
  BY <1>1
<1>3. PICK l \in Nat : TextEnds(m, p, l)
  BY <1>1, <1>2, TextEndsSomewhere
<1>4. t = Bytes(m, p, l)
  BY <1>1, <1>2, <1>3, TextIs
<1>5. DOMAIN t = 1 .. l
  BY <1>4, BytesFacts
<1>6. PICK K : K = KeptOf(t) /\ K \in SUBSET (1 .. l)
  BY <1>5 DEF KeptOf
<1>7. p + l \in 1 .. size /\ m[p + l] = 0 /\ \A j \in 0 .. l - 1 : m[p + j] # 0
  BY <1>1, <1>3 DEF TextEnds
<1>8. PICK h : h = CHOOSE g : SqueezedUpto(m, p, size, g)
  OBVIOUS
<1>9. SqueezedUpto(m, p, size, h)
  BY <1>8, SqueezesExist
<1>10. Squeezed(m, p) =
         LET end == h[First(size, LAMBDA j : h[j].mem[p + j] = 0)]
         IN  [end.mem EXCEPT ![end.dst] = 0]
  BY <1>1, <1>8 DEF Squeezed, SqueezedUpto, SqueezeStart, SqueezeRound
<1> DEFINE S == {k \in Nat : k <= l => SqueezeInv(size, m, p, t, h[k], k)}
<1>11. 0 \in S
  <2>1. h[0] = [mem |-> m, dst |-> p, prev_space |-> FALSE]
    BY <1>9 DEF SqueezedUpto, SqueezeStart
  <2>2. CountOf(K, 0) = 0
    BY <1>6, CountFacts
  <2>3. PICK w : w = h[0]
    OBVIOUS
  <2>4. /\ w \in [mem : Memory(size), dst : Nat, prev_space : BOOLEAN]
        /\ w.mem = m /\ w.dst = p /\ ~w.prev_space
    BY <1>1, <1>2, <2>1, <2>3
  <2>5. w.dst = p + CountOf(K, 0) /\ ~(0 > 0)
    BY <1>2, <2>2, <2>4
  <2>6. \A x \in p .. w.dst - 1 : w.mem[x] # 0
    BY <1>2, <2>4
  <2>7. \A j \in K : ~(j <= 0)
    BY <1>6
  <2>8. SqueezeInv(size, m, p, t, w, 0)
    BY <1>6, <2>4, <2>5, <2>6, <2>7 DEF SqueezeInv
  <2> QED BY <2>3, <2>8
<1>12. ASSUME NEW i \in Nat, i \in S PROVE i + 1 \in S
  <2> SUFFICES ASSUME i + 1 <= l PROVE SqueezeInv(size, m, p, t, h[i + 1], i + 1)
    OBVIOUS
  <2>1. PICK k \in 1 .. l : k = i + 1 /\ k - 1 = i
    OBVIOUS
  <2>2. SqueezeInv(size, m, p, t, h[i], i)
    BY <1>12
  <2>3. h[k] = SqueezeRound(h[k - 1], p, k)
    <3>1. k \in 0 .. size /\ k # 0
      BY <1>2, <1>7
    <3> QED BY <1>9, <3>1 DEF SqueezedUpto
  <2>4. SqueezeInv(size, m, p, t, h[k - 1], k - 1)
    BY <2>1, <2>2
  <2>5. SqueezeInv(size, m, p, t, SqueezeRound(h[k - 1], p, k), k)
    BY <1>1, <1>2, <1>3, <1>4, <2>4, SqueezeStep
  <2> QED BY <2>1, <2>3, <2>5
<1> HIDE DEF S
<1>13. ASSUME NEW k \in 0 .. l PROVE SqueezeInv(size, m, p, t, h[k], k)
  <2>1. \A j \in Nat : j \in S
    BY <1>11, <1>12, SetInduction
  <2> QED BY <2>1 DEF S
<1>14. ASSUME NEW k \in 0 .. l PROVE h[k].mem[p + k] = m[p + k]
  <2>1. p + k \in p + k .. size
    BY <1>2, <1>7
  <2> QED BY <1>13, <2>1 DEF SqueezeInv
<1>15. /\ l \in 0 .. size /\ h[l].mem[p + l] = 0
       /\ \A j \in 0 .. l - 1 : ~(h[j].mem[p + j] = 0)
  <2>1. l \in 0 .. size /\ l \in 0 .. l
    BY <1>2, <1>7
  <2>2. ASSUME NEW j \in 0 .. l - 1 PROVE ~(h[j].mem[p + j] = 0)
    <3>1. j \in 0 .. l
      OBVIOUS
    <3> QED BY <1>7, <1>14, <3>1
  <2> QED BY <1>7, <1>14, <2>1, <2>2
<1>16. PICK n \in 0 .. size : n = First(size, LAMBDA j : h[j].mem[p + j] = 0)
  BY <1>15 DEF First
<1>17. h[n].mem[p + n] = 0 /\ \A j \in 0 .. n - 1 : ~(h[j].mem[p + j] = 0)
  BY <1>15, <1>16 DEF First
<1>18. n = l
  <2>1. ~(n < l)
    <3> SUFFICES ASSUME n < l PROVE FALSE
      OBVIOUS
    <3>1. n \in 0 .. l - 1
      OBVIOUS
    <3> QED BY <1>15, <1>17, <3>1
  <2>2. ~(l < n)
    <3> SUFFICES ASSUME l < n PROVE FALSE
      OBVIOUS
    <3>1. l \in 0 .. n - 1
      OBVIOUS
    <3> QED BY <1>15, <1>17, <3>1
  <2> QED BY <2>1, <2>2
<1>19. PICK w : w = h[l]
  OBVIOUS
<1>20. SqueezeInv(size, m, p, t, w, l)
  <2>1. l \in 0 .. l
    OBVIOUS
  <2> QED BY <1>13, <1>19, <2>1
<1>21. PICK c \in 0 .. l : c = CountOf(K, l) /\ c = Cardinality(K)
  <2>1. CountOf(K, l) = Cardinality(K)
    BY <1>6, CountFacts
  <2>2. CountOf(K, l) \in 0 .. l
    <3>1. l \in 0 .. l
      OBVIOUS
    <3> QED BY <1>6, <3>1, CountFacts
  <2> QED BY <2>1, <2>2
<1>22. PICK mem \in Memory(size) : mem = w.mem
  BY <1>20 DEF SqueezeInv
<1>23. /\ w.dst = p + c /\ p + c \in 1 .. size
       /\ \A x \in p .. p + c - 1 : mem[x] # 0
       /\ \A j \in K : j <= l => mem[p + CountOf(K, j) - 1] = t[j]
  <2>1. w.dst = p + c
    BY <1>6, <1>20, <1>21 DEF SqueezeInv
  <2>2. p + c \in 1 .. size
    BY <1>2, <1>7
  <2>3. \A x \in p .. p + c - 1 : mem[x] # 0
    BY <1>2, <1>20, <1>22, <2>1 DEF SqueezeInv
  <2>4. \A j \in K : j <= l => mem[p + CountOf(K, j) - 1] = t[j]
    BY <1>6, <1>20, <1>22 DEF SqueezeInv
  <2> QED BY <2>1, <2>2, <2>3, <2>4
<1>24. PICK v : v = [mem EXCEPT ![p + c] = 0]
  OBVIOUS
<1>25. Squeezed(m, p) = v
  BY <1>10, <1>16, <1>18, <1>19, <1>22, <1>23, <1>24
<1>26. /\ v \in Memory(size) /\ v[p + c] = 0
       /\ \A x \in 1 .. size : x # p + c => v[x] = mem[x]
  BY <1>23, <1>24 DEF Memory
<1>27. TextEnds(v, p, c)
  <2>1. DOMAIN v = 1 .. size
    BY <1>26 DEF Memory
  <2>2. ASSUME NEW j \in 0 .. c - 1 PROVE v[p + j] # 0
    <3>1. p + j \in p .. p + c - 1 /\ p + j \in 1 .. size /\ p + j # p + c
      BY <1>2, <1>23
    <3> QED BY <1>23, <1>26, <3>1
  <2> QED BY <1>23, <1>26, <2>1, <2>2 DEF TextEnds
<1>28. PICK left : left = Bytes(v, p, c)
  OBVIOUS
<1>29. Text(Squeezed(m, p), p) = left
  BY <1>2, <1>25, <1>26, <1>27, <1>28, TextIs
<1>30. Len(left) = c /\ \A k \in 1 .. c : left[k] = v[p + k - 1]
  BY <1>28, BytesFacts
<1>31. ASSUME NEW k \in K PROVE left[CountOf(K, k)] = t[k]
  <2>1. k \in 1 .. l /\ k \in 0 .. l /\ l \in 0 .. l /\ k - 1 \in 0 .. l
    BY <1>6
  <2>2. CountOf(K, k) <= c
    <3>1. CountOf(K, k) <= CountOf(K, l)
      BY <1>6, <2>1, CountFacts
    <3> QED BY <1>21, <3>1
  <2>3. CountOf(K, k) = CountOf(K, k - 1) + 1
    BY <1>6, <2>1, CountFacts
  <2>4. CountOf(K, k - 1) \in 0 .. k - 1
    BY <1>6, <2>1, CountFacts
  <2>5. PICK q \in 1 .. c : q = CountOf(K, k)
    BY <2>2, <2>3, <2>4
  <2>6. p + q - 1 \in 1 .. size /\ p + q - 1 # p + c
    BY <1>2, <1>23
  <2>7. mem[p + q - 1] = t[k]
    BY <1>23, <2>1, <2>5
  <2>8. v[p + q - 1] = t[k]
    BY <1>26, <2>6, <2>7
  <2> QED BY <1>30, <2>5, <2>8
<1> QED BY <1>6, <1>21, <1>29, <1>30, <1>31 DEF CountOf

(* Whatever the memories are, the functions do what they are for:          *)
LEMMA StringsAreExact == StringsExact
BY CopiesAreExact, ComparisonsAreOrdered, TextsAreCopied, BrandIsSqueezed DEF StringsExact

(* StringsAsDefined: the copies of libc/string/ and of simd.c move what    *)
(* they are asked to and nothing else, for every overlap and alignment;    *)
(* the comparisons order texts as a dictionary does; and                   *)
(* get_cpu_brand_string squeezes the spaces and keeps the rest.            *)
THEOREM StringFunctionsAreRight == Spec => []StringsAsDefined
<1>1. StringsAsDefined
  BY StringsAreExact DEF StringsAsDefined
<1>2. Spec => []StringsAsDefined
  BY <1>1, PTL
<1> QED BY <1>2
=============================================================================
