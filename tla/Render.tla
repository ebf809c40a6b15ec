------------------------------- MODULE Render --------------------------------
(***************************************************************************)
(* The display task: Trig, Math3D and the loop of test3 that turns an      *)
(* icosahedron by two angles per frame and draws the faces that look at    *)
(* the viewer.                                                             *)
(***************************************************************************)
EXTENDS Frame

CONSTANT MaxFrames    \* bound of the run

VARIABLES
  angle, angle2,
  faces,       \* the faces the last frame drew
  frames

renderVars == <<angle, angle2, faces, frames, shape, lit>>

-----------------------------------------------------------------------------
(***************************************************************************)
(* Trig::cos: the angle is brought into [-PI, PI], folded onto [-PI_2,     *)
(* PI_2], and put into a polynomial in its square.                         *)
(***************************************************************************)
Reduced == LET f[x \in Int] ==
                 IF x > PI THEN f[Minus(x, TWOPI)]
                 ELSE IF x < -PI THEN f[Plus(x, TWOPI)] ELSE x
           IN  f

Folded(x) == IF x > PI_2 THEN PI - x ELSE IF x < -PI_2 THEN -PI - x ELSE x

Series(x2, x4) ==
  One + Times(x2, Scaled(-32768)) + Times(x4, Scaled(2730)) + Times(Times(x4, x2), Scaled(-90))

Cos(v) ==
  LET even(x2)  == Series(x2, Times(x2, x2))
      square(f) == even(Times(f, f))
      at(x)     == IF Magnitude(x) > PI_2 THEN -square(Folded(x)) ELSE square(Folded(x))
  IN  at(Reduced[v])

Sin(v) == Cos(Minus(v, PI_2))

-----------------------------------------------------------------------------
\* Math3D::rotate, about z, y and x in this order.
Rotate(v, s, c) ==
  LET aboutX(x, y, z) == <<x, Minus(Times(c[1], y), Times(s[1], z)), Plus(Times(s[1], y), Times(c[1], z))>>
      aboutY(x, y) == aboutX(Plus(Times(c[2], x), Times(s[2], v[3])), y,
                             Plus(Times(Negate(s[2]), x), Times(c[2], v[3])))
  IN  aboutY(Minus(Times(c[3], v[1]), Times(s[3], v[2])), Plus(Times(s[3], v[1]), Times(c[3], v[2])))

DIST == FromInt(128)
Visible(v) == Plus(v[3], DIST) > 0
Project(v) ==
  LET scaled(scale) == <<PlusInt(Times(v[1], scale), WIDTH \div 2),
                         PlusInt(Times(v[2], scale), HEIGHT \div 2)>>
  IN  scaled(Over(DIST, Plus(v[3], DIST)))

-----------------------------------------------------------------------------
RADIUS == FromInt(15)
LONG   == Times(PHI, RADIUS)

vtxs == <<<<-RADIUS,  LONG, 0>>, <<RADIUS,  LONG, 0>>,
          <<-RADIUS, -LONG, 0>>, <<RADIUS, -LONG, 0>>,
          <<0, -RADIUS,  LONG>>, <<0, RADIUS,  LONG>>,
          <<0, -RADIUS, -LONG>>, <<0, RADIUS, -LONG>>,
          <<LONG, 0, -RADIUS>>, <<LONG, 0, RADIUS>>,
          <<-LONG, 0, -RADIUS>>, <<-LONG, 0, RADIUS>>>>

tris == <<<<0, 11, 5>>, <<0, 5, 1>>, <<0, 1, 7>>, <<0, 7, 10>>, <<0, 10, 11>>,
          <<1, 5, 9>>, <<5, 11, 4>>, <<11, 10, 2>>, <<10, 7, 6>>, <<7, 1, 8>>,
          <<3, 9, 4>>, <<3, 4, 2>>, <<3, 2, 6>>, <<3, 6, 8>>, <<3, 8, 9>>,
          <<4, 9, 5>>, <<2, 4, 11>>, <<6, 2, 10>>, <<8, 6, 7>>, <<9, 8, 1>>>>

\* The vertices of this frame, turned.
Turned(a, a2) ==
  LET s == <<Sin(a), Sin(a2), Sin(0)>>
      c == <<Cos(a), Cos(a2), Cos(0)>>
  IN  [i \in DOMAIN vtxs |-> Rotate(vtxs[i], s, c)]

\* The faces test3 hands to drawTriangle, of vertices and their projections.
Facing(turned, corner) ==
  {f \in DOMAIN tris :
    LET t == [i \in 1..3 |-> tris[f][i] + 1]
    IN  /\ \A i \in 1..3 : Visible(turned[t[i]])
        /\ Area([i \in 1..3 |-> corner[t[i]]]) < 0}

RAD_CONV == Over(FromInt(180), PI)
INCR1 == Over(PHI, RAD_CONV)
INCR2 == Over(One, RAD_CONV)

\* Variant: the angle is never brought back.
TurnOn(a, incr) == Plus(a, incr)

Turn(a, incr) == IF a > TWOPI THEN Mod(Plus(a, incr), TWOPI) ELSE Plus(a, incr)

RenderInit == FrameInit /\ angle = 0 /\ angle2 = 0 /\ faces = {} /\ frames = 0

\* One round of the loop of test3: clear, and a drawTriangle for each face.
RenderNext ==
  /\ frames < MaxFrames
  /\ \E turned \in {Turned(angle, angle2)} :
     \E corner \in {[i \in DOMAIN turned |-> Project(turned[i])]} :
       /\ faces' = Facing(turned, corner)
       /\ lit' = UNION {DrawTriangle([i \in 1..3 |-> corner[tris[f][i] + 1]], FALSE) : f \in faces'}
  /\ shape' = [kind |-> "frame"]
  /\ angle' = Turn(angle, INCR1)
  /\ angle2' = Turn(angle2, INCR2)
  /\ frames' = frames + 1

(***************************************************************************)
(* Properties                                                              *)
(***************************************************************************)
Near(a, b, e) == Magnitude(a - b) <= e
Square(v) == v[1] * v[1] + v[2] * v[2] + v[3] * v[3]
Opposite(f, g) ==
  {vtxs[tris[f][i] + 1] : i \in 1..3} =
  {[k \in 1..3 |-> -vtxs[tris[g][i] + 1][k]] : i \in 1..3}

\* The body that test3 turns stays one however long it runs, the rounding of
\* the angles, the polynomial and the products notwithstanding: the angles stay
\* within a turn, no vertex leaves its sphere by more than a tenth, the faces
\* drawn are on one side, and a frame is never empty.
BodyWhole ==
  /\ \A a \in {angle, angle2} :
       /\ a \in 0..Plus(TWOPI, INCR1)
       /\ Near(Square(<<Sin(a), Cos(a), 0>>), One * One, (One * One) \div 30)
  /\ \A turned \in {Turned(angle, angle2)}, i \in DOMAIN vtxs :
       Near(Square(turned[i]), Square(vtxs[i]), Square(vtxs[i]) \div 10)
  /\ \A f, g \in faces : ~Opposite(f, g)
  /\ frames > 0 => Cardinality(faces) \in 4..10 /\ lit # {}
=============================================================================
