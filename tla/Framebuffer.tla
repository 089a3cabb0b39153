----------------------------- MODULE Framebuffer -----------------------------
(***************************************************************************)
(* class Framebuffer of graphics/framebuffer.cpp: pixels as rows of        *)
(* values, and what the drawing operations make of them.  Pixel values are *)
(* abstract, except where copyRect takes a colour apart and packs it again.*)
(***************************************************************************)
EXTENDS Integers, Sequences, SequencesExt

CONSTANTS
  Width, Height,          (* of the screen, in pixels                       *)
  FontWidth, FontHeight,  (* of the cell a character is drawn in: 8, 16     *)
  Background

ASSUME FramebufferAssumption ==
  /\ Width \in Nat \ {0} /\ Height \in Nat \ {0}
  /\ FontWidth \in Nat \ {0} /\ FontHeight \in Nat \ {0}

Xs == 0 .. Width - 1
Ys == 0 .. Height - 1

BlankScreen == [y \in Ys |-> [x \in Xs |-> Background]]

(* From (x0, y0) to before (x1, y1), clipped to the screen. *)
paintRectangle(pixels, x0, y0, x1, y1, color) ==
  [y \in Ys |-> [x \in Xs |->
     IF x0 <= x /\ x < x1 /\ y0 <= y /\ y < y1 THEN color ELSE pixels[y][x]]]

(* The whole cell is drawn, ink (here its first columns) and background. *)
drawCharacter(pixels, x0, y0, ink, color) ==
  LET cell == paintRectangle(pixels, x0, y0, x0 + FontWidth, y0 + FontHeight, Background)
  IN  paintRectangle(cell, x0, y0, x0 + ink, y0 + FontHeight, color)

-----------------------------------------------------------------------------
(* copyRect *)

Least(a, b) == IF a < b THEN a ELSE b

(* What is left of an extent, from src and to dst, on a screen of that size.*)
Clipped(size, src, dst, limit) ==
  IF src >= limit \/ dst >= limit THEN 0
  ELSE Least(size, Least(limit - src, limit - dst))

(* Mutant: the rows and columns in the same order whichever way they move.  *)
ForwardsOnly(src, dst, n) == [i \in 1 .. n |-> i - 1]

(* Away from where the copy goes: the last first if it goes up in value.    *)
Order(src, dst, n) == [i \in 1 .. n |-> IF dst > src THEN n - i ELSE i - 1]

copyPixel(pixels, src, dst, row, col) ==
  [pixels EXCEPT ![dst.y + row][dst.x + col] = pixels[src.y + row][src.x + col]]

(* One row, pixel by pixel: done[n] is the picture after n of them. *)
copyRow(pixels, src, dst, w, row) ==
  LET done[n \in 0 .. w] ==
        IF n = 0 THEN pixels
        ELSE copyPixel(done[n - 1], src, dst, row, Order(src.x, dst.x, w)[n])
  IN  done[w]

(* h rows of w pixels, one row after the other. *)
copyRows(pixels, src, dst, w, h) ==
  LET done[n \in 0 .. h] ==
        IF n = 0 THEN pixels
        ELSE copyRow(done[n - 1], src, dst, w, Order(src.y, dst.y, h)[n])
  IN  done[h]

copyRect(pixels, src, dst, size) ==
  LET w == Clipped(size.x, src.x, dst.x, Width)
      h == Clipped(size.y, src.y, dst.y, Height)
  IN  IF w = 0 \/ h = 0 THEN pixels ELSE copyRows(pixels, src, dst, w, h)

(* The same by its meaning: all pixels at once, those off the screen left   *)
(* out.                                                                     *)
MovedAtOnce(pixels, src, dst, size) ==
  [y \in Ys |-> [x \in Xs |->
     LET fromX == src.x + x - dst.x
         fromY == src.y + y - dst.y
     IN  IF /\ x - dst.x \in 0 .. size.x - 1 /\ y - dst.y \in 0 .. size.y - 1
            /\ fromX \in Xs /\ fromY \in Ys
         THEN pixels[fromY][fromX] ELSE pixels[y][x]]]

(* One channel of a pixel with that many bits: getColor widens it to eight, *)
(* setColor drops the low bits again.                                       *)
expandTo8Bit(val, bits) ==
  IF bits = 0 THEN 0 ELSE IF bits >= 8 THEN val % 256 ELSE (val * 255) \div (2^bits - 1)

packed(color, bits) == color \div 2^(8 - bits)
=============================================================================
