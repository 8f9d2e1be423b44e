-------------------------------- MODULE Display --------------------------------
(***************************************************************************)
(* Text and shapes on the screen: io/video.cpp, and graphics.cpp and       *)
(* fonts.cpp of shared/graphics.                                           *)
(*                                                                         *)
(* A font is an index of characters followed by their pixels.  The kernel  *)
(* prints characters one behind the other and starts a new row where one   *)
(* does not fit; it never scrolls, so a full screen has no bound below.    *)
(* Colours, and the second buffer that gets the same pixels, are left out. *)
(***************************************************************************)
EXTENDS Integers, Sequences, FiniteSets

CONSTANTS
    ScreenWidth,    \* resolution_width
    FontSize,       \* characters in the font, 128
    GlyphWidth(_),  \* the width of each of them; 0 if it is empty
    GlyphHeight,    \* the height of all, 14
    Chars,          \* characters that are printed
    NewLine,
    MaxRows,        \* bound on the rows of text
    ShapeSizes,     \* coordinates and sizes of shapes
    Scales          \* scales of drawn text, which are whole

ASSUME DisplayAssumption ==
    /\ ScreenWidth \in Nat /\ GlyphHeight = 14
    /\ FontSize \in Nat \ {0}
    /\ \A c \in 0 .. FontSize - 1 : GlyphWidth(c) \in 0 .. ScreenWidth
    /\ GlyphWidth(0) > 0
    /\ Chars \subseteq Nat \ {FontSize}
    /\ ShapeSizes \subseteq Nat /\ Scales \subseteq Nat \ {0}

VARIABLES
    x_offset, y_offset,     \* where the next character goes
    glyphs,                 \* the boxes of the characters on the screen
    shape                   \* the last shape: what was asked, and its pixels

displayVars == <<x_offset, y_offset, glyphs, shape>>

NoShape == [kind |-> "none", x |-> 0, y |-> 0, w |-> 0, h |-> 0, pixels |-> {}]
Box(x, y, w, h) == (x .. x + w - 1) \X (y .. y + h - 1)

DisplayInit == x_offset = 0 /\ y_offset = 0 /\ glyphs = {} /\ shape = NoShape
-----------------------------------------------------------------------------
(***************************************************************************)
(* Text.                                                                   *)
(***************************************************************************)

\* load_char: the default glyph for what the font lacks.  The index has one
\* entry less than the test lets pass: for the character FontSize the font's
\* pixels are taken for its place (Chars does not have it).
LoadChar(c) ==
    LET index == IF c > FontSize THEN 0 ELSE c
    IN  IF GlyphWidth(index) = 0 THEN GlyphWidth(0) ELSE GlyphWidth(index)

\* Faulty variant: a character goes to a new row when it starts past the end.
WrapsLate(width) == x_offset > ScreenWidth

\* Does a character go to a new row?
Wraps(width) == width + x_offset > ScreenWidth

Printnl ==
    /\ y_offset' = y_offset + 15 /\ x_offset' = 0
    /\ UNCHANGED <<glyphs, shape>>

\* One character of printf.
Printf(c) ==
    LET width == LoadChar(c)
        x == IF Wraps(width) THEN 0 ELSE x_offset
        y == IF Wraps(width) THEN y_offset + GlyphHeight + 1 ELSE y_offset
    IN  /\ glyphs' = glyphs \cup {[x |-> x, y |-> y, w |-> width]}
        /\ x_offset' = x + width + 2 /\ y_offset' = y
        /\ UNCHANGED shape

PrintChar(c) ==
    /\ y_offset < 15 * MaxRows
    /\ \/ c = NewLine /\ Printnl
       \/ c # NewLine /\ Printf(c)

\* clearscr fills the screen; a panic starts with it.
Clearscr ==
    /\ x_offset' = 0 /\ y_offset' = 0 /\ glyphs' = {}
    /\ UNCHANGED shape
-----------------------------------------------------------------------------
(***************************************************************************)
(* Shapes.                                                                 *)
(***************************************************************************)

Border(x, y, w, h) ==
    {<<x + i, b>> : i \in 0 .. w - 1, b \in {y, y + h - 1}} \cup
    {<<a, y + i>> : i \in 0 .. h - 1, a \in {x, x + w - 1}}

Inside(x, y, w, h) == {<<x + j, y + i>> : j \in 1 .. w - 2, i \in 1 .. h - 2}

\* draw_rectangle.  Its sizes are unsigned: with a size of 0 it would begin one
\* pixel before the corner and hardly end, so nobody may ask for that.
DrawRectangle(x, y, w, h, fill) ==
    /\ w > 0 /\ h > 0
    /\ shape' = [kind |-> IF fill THEN "area" ELSE "border", x |-> x, y |-> y, w |-> w, h |-> h,
                 pixels |-> Border(x, y, w, h) \cup IF fill THEN Inside(x, y, w, h) ELSE {}]
    /\ UNCHANGED <<x_offset, y_offset, glyphs>>

DrawRectangleNoBorder(x, y, w, h) ==
    /\ shape' = [kind |-> "area", x |-> x, y |-> y, w |-> w, h |-> h,
                 pixels |-> {<<x + j, y + i>> : j \in 0 .. w - 1, i \in 0 .. h - 1}]
    /\ UNCHANGED <<x_offset, y_offset, glyphs>>

\* draw_line with its outline width of 1: "vertical" lines lie.
DrawLine(x, y, length, vertical) ==
    /\ shape' = [kind |-> "area", x |-> x, y |-> y,
                 w |-> IF vertical THEN length ELSE 1, h |-> IF vertical THEN 1 ELSE length,
                 pixels |-> {IF vertical THEN <<x + i, y>> ELSE <<x, y + i>> : i \in 0 .. length - 1}]
    /\ UNCHANGED <<x_offset, y_offset, glyphs>>

Step(from, to) == IF to < from THEN -1 ELSE 1
Distance(a, b) == IF a < b THEN b - a ELSE a - b

\* The loop of draw_line_bresenham: the error and the row of the next column.
NextColumn(p, dx, dy, up) ==
    LET e == p.error + dy
    IN  [error |-> IF e > dx THEN e - dx ELSE e, y |-> p.y + IF e > dx THEN up ELSE 0]

\* draw_line_bresenham: one pixel in each column, and at most one row further
\* from column to column; at[i] is the row of the ith, and the error before it.
DrawLineBresenham(x1, y1, x2, y2) ==
    LET dx == Distance(x1, x2)
        at[i \in 0 .. dx] ==
            IF i = 0 THEN [error |-> 0, y |-> y1]
            ELSE NextColumn(at[i - 1], dx, Distance(y1, y2), Step(y1, y2))
    IN  /\ shape' = [kind |-> "line", x |-> x1, y |-> y1, w |-> x2, h |-> y2,
                     pixels |-> {<<x1 + i * Step(x1, x2), at[i].y>> : i \in 0 .. dx}]
        /\ UNCHANGED <<x_offset, y_offset, glyphs>>

\* resize_char_nn: which pixels of a glyph a resized one shows.
ResizeChar(c, width, height) ==
    LET w == LoadChar(c)
    IN  /\ shape' = [kind |-> "sample", x |-> 0, y |-> 0, w |-> w, h |-> GlyphHeight,
                     pixels |-> {<<(j * w) \div width, (i * GlyphHeight) \div height>> :
                                    j \in 0 .. width - 1, i \in 0 .. height - 1}]
        /\ UNCHANGED <<x_offset, y_offset, glyphs>>

\* compute_text_width takes a new line for a character.
ComputeTextWidth(text, scale) ==
    LET sum[i \in 0 .. Len(text)] ==
            IF i = 0 THEN 0 ELSE sum[i - 1] + 2 + scale * LoadChar(text[i])
    IN  sum[Len(text)]

\* draw_text and draw_text_mod: where character i leaves the pen.
Pen(text, scale, p, i) ==
    IF text[i] = NewLine
    THEN [x |-> 0, y |-> p.y + scale * GlyphHeight + 1]
    ELSE [x |-> p.x + 2 + scale * LoadChar(text[i]), y |-> p.y]

\* The boxes of the characters of a text; its width is what programs compute.
DrawText(x, y, text, scale) ==
    LET pen[i \in 0 .. Len(text)] ==
            IF i = 0 THEN [x |-> 0, y |-> 0] ELSE Pen(text, scale, pen[i - 1], i)
        Place(i) == Box(x + pen[i - 1].x, y + pen[i - 1].y,
                        scale * LoadChar(text[i]), scale * GlyphHeight)
    IN  /\ shape' = [kind |-> "text", x |-> x, y |-> y, w |-> ComputeTextWidth(text, scale) - 2,
                     h |-> pen[Len(text)].y + scale * GlyphHeight,
                     pixels |-> UNION {Place(i) : i \in {j \in DOMAIN text : text[j] # NewLine}}]
        /\ UNCHANGED <<x_offset, y_offset, glyphs>>

\* Text and shapes share the pixels only.
TextNext == Clearscr \/ \E c \in Chars : PrintChar(c)

ShapeNext ==
    \/ \E x, y, w, h \in ShapeSizes :
        \/ \E fill \in BOOLEAN : DrawRectangle(x, y, w, h, fill)
        \/ DrawRectangleNoBorder(x, y, w, h)
        \/ DrawLineBresenham(x, y, w, h)
    \/ \E x, y, length \in ShapeSizes, vertical \in BOOLEAN : DrawLine(x, y, length, vertical)
    \/ \E x \in ShapeSizes, scale \in Scales, text \in [1 .. 2 -> Chars] :
            DrawText(x, x, text, scale)
    \/ \E c \in Chars \ {NewLine}, width, height \in ShapeSizes : ResizeChar(c, width, height)

DisplaySpec == DisplayInit /\ [][TextNext \/ ShapeNext]_displayVars
-----------------------------------------------------------------------------
\* Every variable has a value of its type.
DisplayTypeOK ==
    /\ x_offset \in Nat /\ y_offset \in Nat
    /\ glyphs \subseteq [x : Nat, y : Nat, w : Nat]

\* Characters lie within the width of the screen, so that none goes on at the
\* left end of the row below, and no two cover the same pixel: not after a new
\* line, a row that was too short, or the default glyph for an unknown one.
GlyphsKeepApart ==
    \A g \in glyphs :
        /\ g.x + g.w <= ScreenWidth
        /\ \A k \in glyphs \ {g} :
            Box(g.x, g.y, g.w, GlyphHeight) \cap Box(k.x, k.y, k.w, GlyphHeight) = {}

\* A filled shape covers its area and nothing else; a border lies on the edge of
\* it; a resized glyph shows pixels of the glyph only; a line has one pixel in
\* each column between its ends; a text stays in the width computed for it, and
\* one without a new line takes all of it.
ShapesCoverTheirAreas ==
    LET area == Box(shape.x, shape.y, shape.w, shape.h)
    IN  CASE shape.kind = "area" -> shape.pixels = area
          [] shape.kind = "border" ->
                shape.pixels = area \ Inside(shape.x, shape.y, shape.w, shape.h)
          [] shape.kind = "sample" -> shape.pixels \subseteq area
          [] shape.kind = "line" ->
                /\ Cardinality(shape.pixels) = Distance(shape.x, shape.w) + 1
                /\ \A p \in shape.pixels :
                    Distance(p[2], shape.y) <= Distance(p[1], shape.x)
          [] shape.kind = "text" ->
                /\ shape.pixels \subseteq area
                /\ shape.h \in {s * GlyphHeight : s \in Scales} =>
                        <<shape.x + shape.w - 1, shape.y>> \in shape.pixels
          [] OTHER -> shape.pixels = {}

\* What is drawn lies where it was asked for.
DrawsInPlace == GlyphsKeepApart /\ ShapesCoverTheirAreas
=============================================================================
