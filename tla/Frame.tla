-------------------------------- MODULE Frame --------------------------------
(***************************************************************************)
(* The drawing operations of SH1106. The frame buffer holds one word per   *)
(* column and one bit per row; it is modelled by the set of lit pixels     *)
(* <<column, row>>. Every operation is given by the pixels it stores to,   *)
(* columns beyond the buffer included.                                     *)
(***************************************************************************)
EXTENDS FixedPoint, FiniteSets

CONSTANTS
  WIDTH, HEIGHT,
  Places, Extents   \* of what a run draws

VARIABLES
  shape,   \* the last call
  lit      \* the pixels it stored to, in a frame that was clear

frameVars == <<shape, lit>>

\* Bound: an endless store loop is followed this far out of the buffer.
Columns == -WIDTH..2 * WIDTH
Rows    == 0..HEIGHT - 1
Inside  == (0..WIDTH - 1) \X Rows

-----------------------------------------------------------------------------
DrawPixel(p) == {p} \cap Inside

\* The pixels of drawLine in the order of its loop.
RECURSIVE LineFrom(_, _, _, _)
LineFrom(p, q, d, err) ==
  LET sx == IF p[1] < q[1] THEN 1 ELSE -1
      sy == IF p[2] < q[2] THEN 1 ELSE -1
      stepX == err > -d[1]
      stepY == err < d[2]
      next == <<IF stepX THEN p[1] + sx ELSE p[1], IF stepY THEN p[2] + sy ELSE p[2]>>
  IN  <<p>> \o
        IF p = q THEN <<>>
        ELSE LineFrom(next, q, d, err - (IF stepX THEN d[2] ELSE 0)
                                      + (IF stepY THEN d[1] ELSE 0))

Line(p, q) ==
  LET d == <<Magnitude(q[1] - p[1]), Magnitude(q[2] - p[2])>>
  IN  LineFrom(p, q, d, Quot(IF d[1] > d[2] THEN d[1] ELSE -d[2], 2))

DrawLine(p, q) ==
  LET line == Line(p, q) IN UNION {DrawPixel(line[i]) : i \in DOMAIN line}

-----------------------------------------------------------------------------
\* Variant: the near end is cut off the place, not off the size.
ClipNothing(at, size) == size

\* Both ends are clipped; the far ones by what is left, not to what is left.
ClipNear(at, size) == size + (IF at < 0 THEN at ELSE 0)
ClipFar(at, size, limit) == IF at + size > limit THEN size - (limit - at) ELSE size

DrawFastRect(xy, wh, fill) ==
  LET x == IF xy[1] < 0 THEN 0 ELSE xy[1]
      y == IF xy[2] < 0 THEN 0 ELSE xy[2]
      w == ClipFar(x, ClipNear(xy[1], wh[1]), WIDTH)
      h == ClipFar(y, ClipNear(xy[2], wh[2]), HEIGHT)
      side == y..y + h - 1
      middle == IF fill \/ h <= 2 THEN side ELSE {y, y + h - 1}
      between == IF w > 0 THEN x + 1..x + w - 2 ELSE {c \in Columns : c < x - 1}
  IN  IF \/ wh[1] + xy[1] <= 0 \/ xy[1] >= WIDTH
         \/ wh[2] + xy[2] <= 0 \/ xy[2] >= HEIGHT
      THEN {}
      ELSE ({x, x + w - 1} \X (side \cap Rows)) \cup (between \X (middle \cap Rows))

DrawFastVLine(v, l) == DrawFastRect(v, <<1, l>>, FALSE)
DrawFastHLine(v, l) == DrawFastRect(v, <<l, 1>>, FALSE)

-----------------------------------------------------------------------------
(***************************************************************************)
(* drawTriangle: three lines, or for each column the span between the two  *)
(* edges that cross the middle of the column. An edge that is parallel to  *)
(* the columns, or that the column does not meet, gives nothing.           *)
(***************************************************************************)
Half == One \div 2

Crosses(p, q, fx) == (p[1] <= fx /\ q[1] > fx) \/ (q[1] <= fx /\ p[1] > fx)
Meets(p, q, fx) ==
  Plus(p[2], Times(Minus(q[2], p[2]), Over(Minus(fx, p[1]), Minus(q[1], p[1]))))

Span(t, x) ==
  LET fx == Plus(FromInt(x), Half)
      met == {Meets(t[i], t[(i % 3) + 1], fx) :
                i \in {i \in 1..3 : Crosses(t[i], t[(i % 3) + 1], fx)}}
      low == CHOOSE v \in met : \A u \in met : v <= u
      high == CHOOSE v \in met : \A u \in met : v >= u
  IN  IF Cardinality(met) < 2 THEN {}
      ELSE LET sy == ToInt(Plus(low, Half)) IN
           DrawFastVLine(<<x, sy>>, ToInt(Plus(high, Half)) - sy)

FillTriangle(t) ==
  LET xs == {t[i][1] : i \in 1..3}
      low == CHOOSE v \in xs : \A u \in xs : v <= u
      high == CHOOSE v \in xs : \A u \in xs : v >= u
  IN  UNION {Span(t, x) : x \in ToInt(low)..ToInt(Plus(high, One))}

Pixel(v) == <<ToInt(v[1]), ToInt(v[2])>>
DrawTriangle(t, fill) ==
  IF fill THEN FillTriangle(t)
  ELSE UNION {DrawLine(Pixel(t[i]), Pixel(t[(i % 3) + 1])) : i \in 1..3}

-----------------------------------------------------------------------------
(***************************************************************************)
(* drawText: a glyph takes five columns and one of space, a line eight     *)
(* rows, seven of them lit. A glyph that does not fit is left out.         *)
(***************************************************************************)
Fits(at) == at[1] >= 0 /\ at[2] >= 0 /\ at[1] < WIDTH - 5 /\ at[2] < HEIGHT - 7

RECURSIVE Glyphs(_, _, _)
Glyphs(v, at, s) ==
  IF s = <<>> THEN {}
  ELSE IF Head(s) = "newline" THEN Glyphs(v, <<v[1], at[2] + 8>>, Tail(s))
  ELSE (IF Fits(at) THEN {at} ELSE {}) \cup Glyphs(v, <<at[1] + 6, at[2]>>, Tail(s))

DrawText(v, s) ==
  UNION {(at[1]..at[1] + 4) \X (at[2]..at[2] + 7) : at \in Glyphs(v, v, s)}

DrawCenteredText(xy, wh, s) ==
  DrawText(<<xy[1] + Quot(wh[1], 2) - (Len(s) \div 2), xy[2] + Quot(wh[2], 2) - 2>>, s)

-----------------------------------------------------------------------------
FrameInit == shape = [kind |-> "none"] /\ lit = {}

Corners == Places \X Places

Call ==
  \/ \E p, q \in Corners :
       /\ shape' = [kind |-> "line", from |-> p, to |-> q]
       /\ lit' = DrawLine(p, q)
  \/ \E p \in Corners, wh \in Extents \X Extents, fill \in BOOLEAN :
       /\ shape' = [kind |-> "rect", xy |-> p, wh |-> wh, fill |-> fill]
       /\ lit' = DrawFastRect(p, wh, fill)
  \/ \E p \in Corners, l \in Extents :
       \/ shape' = [kind |-> "rect", xy |-> p, wh |-> <<1, l>>, fill |-> FALSE] /\ lit' = DrawFastVLine(p, l)
       \/ shape' = [kind |-> "rect", xy |-> p, wh |-> <<l, 1>>, fill |-> FALSE] /\ lit' = DrawFastHLine(p, l)
  \/ \E t \in [1..3 -> Corners], fill \in BOOLEAN :
       /\ shape' = [kind |-> "triangle", t |-> t, fill |-> fill]
       /\ lit' = DrawTriangle([i \in 1..3 |-> <<FromInt(t[i][1]), FromInt(t[i][2])>>], fill)
  \/ \E p \in Corners, s \in {<<"a">>, <<"a", "newline", "b">>}, centered \in BOOLEAN :
       /\ shape' = [kind |-> "text", v |-> p, s |-> s]
       /\ lit' = IF centered THEN DrawCenteredText(p, <<WIDTH, HEIGHT>>, s) ELSE DrawText(p, s)

\* One call, on a clear frame.
FrameNext == shape.kind = "none" /\ Call

(***************************************************************************)
(* Properties                                                              *)
(***************************************************************************)
\* drawLine: a pixel for every column or every row between the ends, whichever
\* are more, and none further than half a pixel from the line.
LineDrawn ==
  shape.kind = "line" /\ {shape.from, shape.to} \subseteq Inside =>
    LET p == shape.from
        dx == shape.to[1] - p[1]
        dy == shape.to[2] - p[2]
        longer == IF Magnitude(dx) > Magnitude(dy) THEN Magnitude(dx) ELSE Magnitude(dy)
    IN /\ Cardinality(lit) = longer + 1
       /\ \A c \in lit : 2 * Magnitude((c[1] - p[1]) * dy - (c[2] - p[2]) * dx) <= longer

\* drawFastRect: the border, or all, of a rectangle whose far corner is on the
\* panel; a near corner off the panel is clipped. Of one that reaches past the
\* far edges pixels are lost, but none lit outside of it.
RectDrawn ==
  shape.kind = "rect" =>
    LET near(v) == IF v < 0 THEN 0 ELSE v
        x == near(shape.xy[1])
        y == near(shape.xy[2])
        x2 == shape.xy[1] + shape.wh[1] - 1
        y2 == shape.xy[2] + shape.wh[2] - 1
    IN /\ lit \subseteq (x..x2) \X (y..y2)
       /\ x2 < WIDTH /\ y2 < HEIGHT =>
            lit = {c \in (x..x2) \X (y..y2) : shape.fill \/ c[1] \in {x, x2} \/ c[2] \in {y, y2}}

\* A filled drawTriangle lights no pixel whose centre is outside, and all whose
\* centre is inside, but for those so near to an edge that rounding decides.
\* One that reaches below the panel may lose rows that are on it.
TriangleFilled ==
  shape.kind = "triangle" /\ shape.fill =>
    LET side(i, c) == LET p == shape.t[i]
                          q == shape.t[(i % 3) + 1]
                      IN (q[1] - p[1]) * (2 * c[2] + 1 - 2 * p[2])
                           - (q[2] - p[2]) * (2 * c[1] + 1 - 2 * p[1])
        inside(c, e) == \/ \A i \in 1..3 : side(i, c) >= e
                        \/ \A i \in 1..3 : side(i, c) <= -e
    IN /\ lit \subseteq Inside /\ \A c \in lit : inside(c, -1)
       /\ (\A i \in 1..3 : shape.t[i][2] <= HEIGHT) => \A c \in Inside : inside(c, 1) => c \in lit

\* What is drawn: lines, rectangles and filled triangles are the figures asked
\* for, as far as they do not cross the far edges, and drawText never leaves
\* the panel.
ShapesDrawn ==
  /\ LineDrawn /\ RectDrawn /\ TriangleFilled
  /\ shape.kind = "text" => lit \subseteq Inside
=============================================================================
