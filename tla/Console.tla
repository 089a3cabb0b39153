------------------------------- MODULE Console -------------------------------
(***************************************************************************)
(* FramebufferConsole of graphics/framebuffer.cpp, and in::getLine as far  *)
(* as it draws: characters of different widths side by side on rows of     *)
(* pixels, with wrapping, scrolling, tabs and a blinking cursor.           *)
(*                                                                         *)
(* Modelled are the calls the kernel makes: print, clear, the echo of a    *)
(* line being typed and its backspaces, and updateCursor while it waits for*)
(* a key.  Nothing calls setCursor, or prints '\r' or '\b' to a screen.    *)
(***************************************************************************)
EXTENDS Framebuffer

CONSTANTS
  Glyphs,      (* the characters with ink                                   *)
  Ink,         (* glyph -> the columns its ink takes, from the left         *)
  SpaceChar,   (* the space character                                       *)
  Unknown,     (* the glyph '?' of a character the font does not have       *)
  SpaceWidth,  (* 5 in the code                                             *)
  TabSize,     (* 4 in the code                                             *)
  CursorColor,
  NoLine,
  MaxLine      (* bound: characters in a line                               *)

rows == Height \div FontHeight

ASSUME ConsoleAssumption ==
  /\ rows > 0 /\ FontWidth < Width
  /\ Ink \in [Glyphs -> 1 .. FontWidth] /\ Unknown \in Glyphs /\ SpaceChar \notin Glyphs
  /\ SpaceWidth \in 1 .. FontWidth - 1 /\ TabSize \in Nat \ {0} /\ MaxLine \in Nat
  /\ CursorColor \notin Glyphs \cup {Background, SpaceChar}

VARIABLES
  console,     (* [pixels, x, y, drawn] of the FramebufferConsole, and the  *)
               (* ghost shown: row -> the characters it should show, and    *)
               (* where each starts                                         *)
  tabTo,       (* the nextTab of a putChar('\t') in progress, or 0          *)
  spaces,      (* ghost: spaces it has printed, up to TooMany               *)
  typed,       (* the line getLine is reading, or NoLine                    *)
  straight     (* ghost: no tab and no new row since getLine began          *)

consoleVars == <<console, tabTo, spaces, typed, straight>>

(* Spaces that no tab that ends prints. *)
TooMany == TabSize + Width + 1

Chars == Glyphs \cup {SpaceChar}

(* Mutant: a glyph without ink does not advance. *)
glyphAdvanceInk(c) ==
  IF c \in Glyphs THEN Least(Ink[c] + 2, FontWidth + 1) ELSE 0

(* Two columns between glyphs; at most the cell and one. *)
glyphAdvance(c) ==
  IF c = SpaceChar THEN SpaceWidth
  ELSE LET g == IF c \in Glyphs THEN c ELSE Unknown
       IN  Least(Ink[g] + 2, FontWidth + 1)

Cursor(k, color) ==
  paintRectangle(k.pixels, k.x, k.y * FontHeight, k.x + 1, (k.y + 1) * FontHeight, color)

drawCursor(k) == [k EXCEPT !.pixels = Cursor(k, CursorColor), !.drawn = TRUE]

(* Mutant: the cursor is only forgotten. *)
eraseCursorNot(k) == [k EXCEPT !.drawn = FALSE]

eraseCursor(k) ==
  IF k.drawn THEN [k EXCEPT !.pixels = Cursor(k, Background), !.drawn = FALSE] ELSE k

(* The rows move up by one.  The rectangle that is then painted to clear the*)
(* last one ends at {width, charHeight}, above where it starts, unless the  *)
(* screen is lower than two rows.                                           *)
scroll(k) ==
  LET up == copyRect(k.pixels, [x |-> 0, y |-> FontHeight], [x |-> 0, y |-> 0],
                     [x |-> Width, y |-> Height - FontHeight])
  IN  [k EXCEPT
        !.pixels = paintRectangle(up, 0, Height - FontHeight, Width, FontHeight, Background),
        !.shown = [y \in DOMAIN @ |-> IF y + 1 \in DOMAIN @ THEN @[y + 1] ELSE <<>>]]

newline(k) ==
  LET down == [k EXCEPT !.x = 0, !.y = @ + 1]
  IN  IF down.y >= rows THEN [scroll(down) EXCEPT !.y = rows - 1] ELSE down

ink(c) == IF c = SpaceChar THEN 0 ELSE Ink[c]

drawCell(k, c) ==
  [k EXCEPT !.pixels = drawCharacter(@, k.x, k.y * FontHeight, ink(c), c)]

(* The default of putChar: a new row if the cell does not fit, or if the    *)
(* next character would start off the screen.                               *)
Placed(k, c) ==
  LET at == IF k.x + FontWidth > Width THEN newline(k) ELSE k
      next == [drawCell(at, c) EXCEPT
                 !.x = @ + glyphAdvance(c),
                 !.shown[at.y] = Append(@, [char |-> c, x |-> at.x])]
  IN  IF next.x >= Width THEN newline(next) ELSE next

putChar(k, c) == drawCursor(Placed(eraseCursor(k), c))
putNewline(k) == drawCursor(newline(eraseCursor(k)))

nextTab(k) == LET tabWidth == SpaceWidth * TabSize IN (k.x \div tabWidth + 1) * tabWidth

(* Mutant: back by the width of a cell. *)
backspaceCell(k, c) ==
  LET back == eraseCursor(k)
      at == [back EXCEPT
               !.x = IF @ >= FontWidth THEN @ - FontWidth ELSE 0,
               !.shown[k.y] = IF straight THEN Front(@) ELSE <<>>]
  IN  drawCursor(drawCell(at, SpaceChar))

(* backspace(c) goes back by the width of c, not beyond the start of the    *)
(* row.  Where it cannot know where c was drawn, nothing more is promised   *)
(* of the row.                                                              *)
backspace(k, c) ==
  LET back == eraseCursor(k)
      at == [back EXCEPT
               !.x = IF @ >= glyphAdvance(c) THEN @ - glyphAdvance(c) ELSE 0,
               !.shown[k.y] = IF straight THEN Front(@) ELSE <<>>]
  IN  drawCursor(drawCell(at, SpaceChar))

(* clear, also by the constructor. *)
Cleared ==
  drawCursor([pixels |-> BlankScreen, x |-> 0, y |-> 0, drawn |-> FALSE,
              shown |-> [y \in 0 .. rows - 1 |-> <<>>]])

ConsoleInit ==
  /\ console = Cleared
  /\ tabTo = 0 /\ spaces = 0
  /\ typed = NoLine
  /\ straight = TRUE

-----------------------------------------------------------------------------

NoTab == tabTo = 0

(* A character printed, or echoed; straight follows whether it stayed on    *)
(* its row.                                                                 *)
Echo(c) ==
  /\ console' = putChar(console, c)
  /\ straight' = (straight /\ console'.x = console.x + glyphAdvance(c))

print(c) == NoTab /\ typed = NoLine /\ Echo(c) /\ UNCHANGED <<tabTo, spaces, typed>>

printNewline ==
  /\ NoTab /\ typed = NoLine
  /\ console' = putNewline(console)
  /\ UNCHANGED <<tabTo, spaces, typed, straight>>

(* putChar('\t'): spaces until the next stop. *)
Tab ==
  /\ console' = eraseCursor(console)
  /\ tabTo' = nextTab(console)
  /\ spaces' = 0

printTab == NoTab /\ typed = NoLine /\ Tab /\ UNCHANGED <<typed, straight>>

tabSpace ==
  /\ ~NoTab /\ console.x < tabTo
  /\ console' = putChar(console, SpaceChar)
  /\ spaces' = Least(spaces + 1, TooMany)
  /\ UNCHANGED <<tabTo, typed, straight>>

tabReached ==
  /\ ~NoTab /\ console.x >= tabTo
  /\ console' = drawCursor(console)
  /\ tabTo' = 0 /\ spaces' = 0
  /\ UNCHANGED <<typed, straight>>

clearConsole ==
  /\ NoTab /\ typed = NoLine
  /\ console' = Cleared
  /\ UNCHANGED <<tabTo, spaces, typed, straight>>

(* getLine, its prompt printed. *)
getLine ==
  /\ NoTab /\ typed = NoLine
  /\ typed' = <<>>
  /\ straight' = TRUE
  /\ UNCHANGED <<console, tabTo, spaces>>

typeChar(c) ==
  /\ NoTab /\ typed # NoLine /\ Len(typed) < MaxLine
  /\ typed' = Append(typed, c)
  /\ Echo(c)
  /\ UNCHANGED <<tabTo, spaces>>

typeTab ==
  /\ NoTab /\ typed # NoLine /\ Len(typed) < MaxLine
  /\ typed' = Append(typed, "tab")
  /\ Tab
  /\ straight' = FALSE

typeBackspace ==
  /\ NoTab /\ typed # NoLine /\ typed # <<>>
  /\ console' = backspace(console, Last(typed))
  /\ typed' = Front(typed)
  /\ UNCHANGED <<tabTo, spaces, straight>>

typeEnter ==
  /\ NoTab /\ typed # NoLine
  /\ console' = putNewline(console)
  /\ typed' = NoLine
  /\ straight' = TRUE
  /\ UNCHANGED <<tabTo, spaces>>

(* The cursor blinks while getChar waits. *)
updateCursor ==
  /\ NoTab /\ typed # NoLine
  /\ console' = IF console.drawn THEN eraseCursor(console) ELSE drawCursor(console)
  /\ UNCHANGED <<tabTo, spaces, typed, straight>>

ConsoleNext ==
  \/ \E c \in Chars : print(c) \/ typeChar(c)
  \/ printNewline \/ printTab \/ tabSpace \/ tabReached \/ clearConsole
  \/ getLine \/ typeTab \/ typeBackspace \/ typeEnter \/ updateCursor

ConsoleSpec == ConsoleInit /\ [][ConsoleNext]_consoleVars

-----------------------------------------------------------------------------
(* Properties *)

NextX(g) == g.x + glyphAdvance(g.char)

(* The ink of every glyph that was neither backspaced nor scrolled away is  *)
(* on the screen, though cells overlap the glyphs beside them, rows are     *)
(* moved, and a cursor is drawn over them.                                  *)
GlyphsVisible ==
  \A y \in 0 .. rows - 1 : \A i \in DOMAIN console.shown[y] :
    LET g == console.shown[y][i]
    IN  \A x \in g.x .. g.x + ink(g.char) - 1, h \in 0 .. FontHeight - 1 :
          console.pixels[y * FontHeight + h][x] = g.char

(* No cursor is left behind where it was. *)
OneCursor ==
  /\ console.x \in Xs /\ console.y \in 0 .. rows - 1
  /\ \A y \in Ys, x \in Xs :
       console.pixels[y][x] = CursorColor =>
         /\ console.drawn /\ x = console.x
         /\ y - console.y * FontHeight \in 0 .. FontHeight - 1

(* While a line being read has stayed on its row, what stands before the    *)
(* cursor is that line, without a gap: backspaces take back what was drawn. *)
LineVisible ==
  typed # NoLine /\ straight =>
    LET row == console.shown[console.y]
        start == Len(row) - Len(typed)
    IN  /\ start >= 0
        /\ \A i \in DOMAIN typed :
             /\ row[start + i].char = typed[i]
             /\ NextX(row[start + i]) =
                  IF i = Len(typed) THEN console.x ELSE row[start + i + 1].x

(* A tab whose stop can be reached on a row ends, after its own spaces or,  *)
(* if they wrap, those of the next row up to the stop as well.  (A stop     *)
(* further right is never reached: the spaces wrap again and again, and     *)
(* putChar does not return.)                                                *)
TabsEnd ==
  tabTo <= Width - FontWidth + SpaceWidth =>
    (spaces - TabSize) * SpaceWidth <= tabTo

(* What was printed and what is being typed can be read on the screen, and  *)
(* printing it ends.                                                        *)
ScreenShowsText == GlyphsVisible /\ OneCursor /\ LineVisible /\ TabsEnd
=============================================================================
