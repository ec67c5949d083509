------------------------------- MODULE Console -------------------------------
(***************************************************************************)
(* The screen of nacl/src/font/mod.rs: FrameBufferManager keeps a grid of  *)
(* characters, new text enters its bottom line and older lines scroll up.  *)
(* A character is drawn as a glyph of the PSF font, found through the      *)
(* font's unicode table.                                                   *)
(*                                                                         *)
(* A character is its code point.  A pixel is identified by the offset of  *)
(* its first byte in the frame buffer, and shows a place of a glyph: what  *)
(* colour the font has there is left out.                                  *)
(***************************************************************************)
EXTENDS Integers, Sequences, SequencesExt

CONSTANTS WIDTH, HEIGHT, STRIDE,    \* the frame buffer: pixels, and bytes per line
          FONT_WIDTH, FONT_HEIGHT,
          GLYPHS,                   \* PsfHeader::glyphs
          Fonts,                    \* unicode tables to choose from, or NoTable (flags = 0)
          NoTable

BPP == 4            \* bytes_per_pixel, which putc asserts

NL == 10
SP == 32
END == 255          \* ends a glyph's entry in the unicode table

\* new: the characters that fit.
horiz_chars == WIDTH \div FONT_WIDTH
vert_chars == HEIGHT \div FONT_HEIGHT

\* ... and the bytes of the frame buffer.
fb_len == HEIGHT * STRIDE

\* The screen has room for a character, and its lines for its pixels.
ASSUME ConsoleAssumption ==
  /\ {WIDTH, HEIGHT, STRIDE, GLYPHS} \subseteq Nat
  /\ {FONT_WIDTH, FONT_HEIGHT} \subseteq Nat \ {0}
  /\ FONT_WIDTH <= WIDTH /\ FONT_HEIGHT <= HEIGHT
  /\ BPP * WIDTH <= STRIDE

VARIABLES
  table,    \* the font's unicode table
  mapping,  \* character to glyph; <<>> without a table
  chars,    \* the grid, line after line
  idx,      \* where in the bottom line the next character goes
  fb        \* the pixels drawn so far

consoleVars == <<table, mapping, chars, idx, fb>>

Cells == 0..(horiz_chars * vert_chars - 1)

last_line == horiz_chars * vert_chars - horiz_chars
-----------------------------------------------------------------------------
(* PsfHeader::unicode_mapping *)

\* One position of the scan: an entry's characters are inserted when it ends.
Scan(acc, x) ==
  IF x = END
  THEN [entry |-> {}, glyph |-> acc.glyph + 1,
        map |-> [c \in acc.entry |-> acc.glyph] @@ acc.map]
  ELSE [acc EXCEPT !.entry = @ \cup {x}]

unicode_mapping(t) == FoldLeft(Scan, [entry |-> {}, glyph |-> 0, map |-> <<>>], t).map

\* The glyph putc takes for c.
GlyphIndex(c) ==
  LET g == IF table = NoTable THEN c ELSE IF c \in DOMAIN mapping THEN mapping[c] ELSE 0 IN
    IF g >= GLYPHS THEN 0 ELSE g
-----------------------------------------------------------------------------
(* Drawing *)

\* Where pixel x, y of the character at cx, cy is.
Offset(cx, cy, x, y) ==
  (cy * FONT_HEIGHT * STRIDE) + (cx * FONT_WIDTH * BPP) + y * STRIDE + x * BPP

Box == (0..(FONT_WIDTH - 1)) \X (0..(FONT_HEIGHT - 1))

\* The pixels after putc for every character of t, a function of places <<cx, cy>>.
Draw(f, t) ==
  LET spots == (DOMAIN t) \X Box
      At(s) == Offset(s[1][1], s[1][2], s[2][1], s[2][2])
      Of(o) == CHOOSE s \in spots : At(s) = o IN
    [o \in {At(s) : s \in spots} |-> <<GlyphIndex(t[Of(o)[1]]), Of(o)[2]>>] @@ f

Putc(f, c, cx, cy) == Draw(f, [p \in {<<cx, cy>>} |-> c])

Grid == (0..(horiz_chars - 1)) \X (0..(vert_chars - 1))

\* redraw: the grid from the top left, every horiz_chars characters a new line.
Redraw(cs) == Draw(fb, [p \in Grid |-> cs[p[2] * horiz_chars + p[1]]])

\* Mutant: the old top line reappears at the bottom.
NewlineKept == [i \in Cells |-> chars[(i + horiz_chars) % (horiz_chars * vert_chars)]]

\* newline: rotate_left, then fill.
Newline == [i \in Cells |-> IF i < last_line THEN chars[i + horiz_chars] ELSE SP]

Put(c) ==
  /\ \/ /\ c = NL
        /\ idx' = 0
        /\ chars' = Newline
        /\ fb' = Redraw(chars')
     \/ /\ c # NL /\ idx = horiz_chars
        /\ idx' = 1
        /\ chars' = [Newline EXCEPT ![last_line] = c]
        /\ fb' = Redraw(chars')
     \/ /\ c # NL /\ idx # horiz_chars
        /\ idx' = idx + 1
        /\ chars' = [chars EXCEPT ![last_line + idx] = c]
        /\ fb' = Putc(fb, c, idx, vert_chars - 1)
  /\ UNCHANGED <<table, mapping>>
-----------------------------------------------------------------------------
\* new, and the 'F' that main.rs's init draws without putting it in the grid.
ConsoleInit ==
  /\ table \in Fonts
  /\ mapping = IF table = NoTable THEN <<>> ELSE unicode_mapping(table)
  /\ chars = [i \in Cells |-> SP]
  /\ idx = 0
  /\ fb = Putc(<<>>, 70, 0, 0)
=============================================================================
