------------------------------ MODULE Regions ------------------------------
(***************************************************************************)
(* Regions (Region.c, PolyReg.c): sets of points kept as a sequence of     *)
(* boxes in bands.  The boxes of a band share their y1 and y2 and do not   *)
(* touch, bands are ordered downwards, and two bands that could be one are *)
(* one; the functions that read a region rely on all of that.              *)
(*                                                                         *)
(* An application makes regions from polygons and rectangles and combines  *)
(* them.  `points' is the set of points that it has then described, by the *)
(* meaning of each call.  Left out: the sizes of the arrays of boxes,      *)
(* failing memory, and the 16 bits of a coordinate.                        *)
(***************************************************************************)
EXTENDS PolygonRegions

CONSTANTS
    Width, Height,  \* the application's points have 0 <= x < Width, 0 <= y < Height
    Operands,       \* sets of points that are combined with the region
    Polygons,       \* sequences of corners
    MostSteps       \* the number of calls after a polygon

VARIABLES
    region,         \* [rects, extents]
    points,         \* the points that the calls have described
    polygon,        \* whether the region stems from XPolygonRegion
    steps           \* calls since

vars == <<region, points, polygon, steps>>

(***************************************************************************)
(* The band that begins at box i ends before box BandEnd(rects, i).        *)
(***************************************************************************)
BandEnd(rects, i) ==
    Min({k \in i .. Len(rects) : rects[k].y1 # rects[i].y1} \cup {Len(rects) + 1})
Band(rects, i) == SubSeq(rects, i, BandEnd(rects, i) - 1)
LastBand(rects) == Min({k \in DOMAIN rects : rects[k].y1 = Last(rects).y1})

miSetExtents(rects) ==
    IF rects = <<>> THEN Empty
    ELSE [rects |-> rects,
          extents |-> Box(Min({rects[i].x1 : i \in DOMAIN rects}), Head(rects).y1,
                          Max({rects[i].x2 : i \in DOMAIN rects}), Last(rects).y2)]

EXTENTCHECK(e, f) == e.x2 > f.x1 /\ e.x1 < f.x2 /\ e.y2 > f.y1 /\ e.y1 < f.y2
Subsumes(r, s) ==
    /\ Len(r.rects) = 1
    /\ r.extents.x1 <= s.extents.x1 /\ r.extents.y1 <= s.extents.y1
    /\ r.extents.x2 >= s.extents.x2 /\ r.extents.y2 >= s.extents.y2

(***************************************************************************)
(* What is added for a band that both regions have, from y1 to y2.         *)
(***************************************************************************)
RECURSIVE miIntersectO(_, _, _, _)
miIntersectO(r1, r2, y1, y2) ==
    IF r1 = <<>> \/ r2 = <<>> THEN <<>>
    ELSE LET x1 == Max2(r1[1].x1, r2[1].x1)
             x2 == Min2(r1[1].x2, r2[1].x2)
         IN  (IF x1 < x2 THEN <<Box(x1, y1, x2, y2)>> ELSE <<>>)
             \o miIntersectO(IF r1[1].x2 <= r2[1].x2 THEN Tail(r1) ELSE r1,
                             IF r2[1].x2 <= r1[1].x2 THEN Tail(r2) ELSE r2, y1, y2)

\* A mutant: boxes that only touch are not merged.
MutOverlapOnly(rects, r, y1, y2) ==
    IF rects # <<>> /\ Last(rects).x2 > r.x1
    THEN [rects EXCEPT ![Len(rects)].x2 = Max2(@, r.x2)]
    ELSE Append(rects, Box(r.x1, y1, r.x2, y2))

\* MERGERECT
Merge(rects, r, y1, y2) ==
    IF rects # <<>> /\ Last(rects).x2 >= r.x1
    THEN [rects EXCEPT ![Len(rects)].x2 = Max2(@, r.x2)]
    ELSE Append(rects, Box(r.x1, y1, r.x2, y2))

RECURSIVE FromLeft(_, _)
FromLeft(r1, r2) ==
    IF r1 = <<>> \/ r2 = <<>> THEN r1 \o r2
    ELSE IF r1[1].x1 < r2[1].x1 THEN <<r1[1]>> \o FromLeft(Tail(r1), r2)
    ELSE <<r2[1]>> \o FromLeft(r1, Tail(r2))

miUnionO(r1, r2, y1, y2) ==
    FoldLeft(LAMBDA rects, r : Merge(rects, r, y1, y2), <<>>, FromLeft(r1, r2))

\* x1: the left-most point of the minuend not yet checked
RECURSIVE SubtractFrom(_, _, _, _, _)
SubtractFrom(x1, r1, r2, y1, y2) ==
    LET Piece(x2) == IF x1 < x2 THEN <<Box(x1, y1, x2, y2)>> ELSE <<>>
        NextMinuend ==
            IF Len(r1) = 1 THEN <<>> ELSE SubtractFrom(r1[2].x1, Tail(r1), r2, y1, y2)
    IN  IF r1 = <<>> THEN <<>>
        ELSE IF r2 = <<>> THEN Piece(r1[1].x2) \o NextMinuend
        ELSE IF r2[1].x2 <= x1 THEN SubtractFrom(x1, r1, Tail(r2), y1, y2)
        ELSE IF r2[1].x1 < r1[1].x2
        THEN Piece(r2[1].x1)
             \o (IF r2[1].x2 >= r1[1].x2 THEN NextMinuend
                 ELSE SubtractFrom(r2[1].x2, r1, Tail(r2), y1, y2))
        ELSE Piece(r1[1].x2) \o NextMinuend

miSubtractO(r1, r2, y1, y2) == SubtractFrom(r1[1].x1, r1, r2, y1, y2)

\* miUnionNonO, miSubtractNonO1
NonO(r, y1, y2) == [i \in DOMAIN r |-> Box(r[i].x1, y1, r[i].x2, y2)]

(***************************************************************************)
(* The band from `cur' on joins the one from `prev' on if it continues it. *)
(* The result is the boxes, and the begin of the band that the next one    *)
(* may join.                                                               *)
(***************************************************************************)
\* A mutant: the bands need not touch.
MutApartToo(rects, prev, cur) ==
    LET n == BandEnd(rects, cur) - cur
    IN  /\ n = cur - prev
        /\ \A k \in 0 .. n - 1 : /\ rects[prev + k].x1 = rects[cur + k].x1
                                 /\ rects[prev + k].x2 = rects[cur + k].x2

Joins(rects, prev, cur) ==
    LET n == BandEnd(rects, cur) - cur
    IN  /\ n = cur - prev
        /\ rects[prev].y2 = rects[cur].y1
        /\ \A k \in 0 .. n - 1 : /\ rects[prev + k].x1 = rects[cur + k].x1
                                 /\ rects[prev + k].x2 = rects[cur + k].x2

miCoalesce(rects, prev, cur) ==
    IF cur > Len(rects) THEN [rects |-> rects, prev |-> prev]
    ELSE IF ~Joins(rects, prev, cur) THEN [rects |-> rects, prev |-> LastBand(rects)]
    ELSE [rects |-> [i \in 1 .. cur - 1 |->
                        IF i >= prev THEN [rects[i] EXCEPT !.y2 = rects[cur].y2]
                        ELSE rects[i]]
                    \o SubSeq(rects, BandEnd(rects, cur), Len(rects)),
          prev |-> prev]

(***************************************************************************)
(* miRegionOp goes down both regions by bands: what only one of them has   *)
(* is kept or not, what both have is left to one of the functions above.   *)
(* Sweep is its loop, at box i of the first and box j of the second.       *)
(***************************************************************************)
Keeps(op) == CASE op = "union" -> {1, 2} [] op = "subtract" -> {1} [] op = "intersect" -> {}

Overlap(op, r1, r2, y1, y2) ==
    CASE op = "union" -> miUnionO(r1, r2, y1, y2)
      [] op = "subtract" -> miSubtractO(r1, r2, y1, y2)
      [] op = "intersect" -> miIntersectO(r1, r2, y1, y2)

\* The part of the band at r[i] that is above the other region's box o.
Alone(r, i, o, ybot) ==
    LET top == Max2(r[i].y1, ybot)
        bot == Min2(r[i].y2, o.y1)
    IN  IF r[i].y1 < o.y1 /\ top # bot THEN NonO(Band(r, i), top, bot) ELSE <<>>

Rest(r, i, ybot) ==
    LET starts == {k \in i .. Len(r) : k = i \/ r[k].y1 # r[k - 1].y1}
        band(k) == NonO(Band(r, k), Max2(r[k].y1, ybot), r[k].y2)
    IN  FlattenSeq([n \in 1 .. Cardinality(starts) |-> band(SetToSortSeq(starts, <)[n])])

RECURSIVE Sweep(_, _, _, _, _, _, _)
Sweep(op, r1, r2, i, j, ybot, new) ==
    LET Kept(n, boxes) == IF n \in Keeps(op) THEN boxes ELSE <<>>
        Added(to, boxes) == miCoalesce(to.rects \o boxes, to.prev, Len(to.rects) + 1)
    IN  IF i > Len(r1) \/ j > Len(r2)
        THEN Added(new, Kept(1, Rest(r1, i, ybot)) \o Kept(2, Rest(r2, j, ybot))).rects
        ELSE LET ytop == Max2(r1[i].y1, r2[j].y1)
                 bottom == Min2(r1[i].y2, r2[j].y2)
                 one == Added(new, Kept(1, Alone(r1, i, r2[j], ybot))
                                   \o Kept(2, Alone(r2, j, r1[i], ybot)))
                 two == IF bottom > ytop
                        THEN Added(one, Overlap(op, Band(r1, i), Band(r2, j), ytop, bottom))
                        ELSE one
             IN  Sweep(op, r1, r2,
                       IF r1[i].y2 = bottom THEN BandEnd(r1, i) ELSE i,
                       IF r2[j].y2 = bottom THEN BandEnd(r2, j) ELSE j, bottom, two)

miRegionOp(op, r, s) ==
    Sweep(op, r.rects, s.rects, 1, 1, Min2(r.extents.y1, s.extents.y1),
          [rects |-> <<>>, prev |-> 1])

(***************************************************************************)
(* The calls.                                                              *)
(***************************************************************************)
XUnionRegion(r, s) ==
    IF r.rects = <<>> THEN s
    ELSE IF s.rects = <<>> \/ Subsumes(r, s) THEN r
    ELSE IF Subsumes(s, r) THEN s
    ELSE [rects |-> miRegionOp("union", r, s),
          extents |-> Box(Min2(r.extents.x1, s.extents.x1), Min2(r.extents.y1, s.extents.y1),
                          Max2(r.extents.x2, s.extents.x2), Max2(r.extents.y2, s.extents.y2))]

Apart(r, s) == r.rects = <<>> \/ s.rects = <<>> \/ ~EXTENTCHECK(r.extents, s.extents)

XIntersectRegion(r, s) ==
    IF Apart(r, s) THEN Empty ELSE miSetExtents(miRegionOp("intersect", r, s))

XSubtractRegion(r, s) ==
    IF Apart(r, s) THEN r ELSE miSetExtents(miRegionOp("subtract", r, s))

XXorRegion(r, s) == XUnionRegion(XSubtractRegion(r, s), XSubtractRegion(s, r))

Moved(box, x, y) == Box(box.x1 + x, box.y1 + y, box.x2 + x, box.y2 + y)

XOffsetRegion(r, x, y) ==
    [rects |-> [i \in DOMAIN r.rects |-> Moved(r.rects[i], x, y)],
     extents |-> Moved(r.extents, x, y)]

XUnionRectWithRegion(box, r) ==
    IF PointsOf(box) = {} THEN r ELSE XUnionRegion([rects |-> <<box>>, extents |-> box], r)

\* r: the runs of length 1 + the part of dx already seen; s: those of length `shift'
RECURSIVE Compressed(_, _, _, _, _, _)
Compressed(r, s, shift, dx, xdir, grow) ==
    LET Op(p, q) == IF grow THEN XUnionRegion(p, q) ELSE XIntersectRegion(p, q)
        Shift(p) == IF xdir THEN XOffsetRegion(p, 0 - shift, 0) ELSE XOffsetRegion(p, 0, 0 - shift)
        odd == (dx \div shift) % 2
        longer == IF odd = 1 THEN Op(Shift(r), s) ELSE r
    IN  IF dx = odd * shift THEN longer
        ELSE Compressed(longer, Op(Shift(s), s), 2 * shift, dx - odd * shift, xdir, grow)

Compress(r, dx, xdir, grow) == Compressed(r, r, 1, dx, xdir, grow)

XShrinkRegion(r, dx, dy) ==
    LET wide == IF dx = 0 THEN r ELSE Compress(r, 2 * Max2(dx, 0 - dx), TRUE, dx < 0)
        both == IF dy = 0 THEN wide ELSE Compress(wide, 2 * Max2(dy, 0 - dy), FALSE, dy < 0)
    IN  XOffsetRegion(both, Max2(dx, 0 - dx), Max2(dy, 0 - dy))

XEqualRegion(r, s) == r.rects = s.rects /\ (r.rects = <<>> \/ r.extents = s.extents)

INBOX(box, x, y) == box.x1 <= x /\ x < box.x2 /\ box.y1 <= y /\ y < box.y2

XPointInRegion(r, x, y) ==
    /\ r.rects # <<>>
    /\ INBOX(r.extents, x, y)
    /\ \E i \in DOMAIN r.rects : INBOX(r.rects[i], x, y)

(***************************************************************************)
(* XRectInRegion goes through the boxes and keeps in `at' the place up to  *)
(* which the rectangle is decided, and whether a part of it was found in   *)
(* or out.                                                                 *)
(***************************************************************************)
Decided(rect, at, box) ==
    LET above == box.y1 > at.y
        out1 == at.out \/ above
        stop1 == above /\ (at.in \/ box.y1 >= rect.y2)
        y == IF above THEN box.y1 ELSE at.y
        out == out1 \/ box.x1 > at.x
        in == at.in \/ box.x1 < rect.x2
        past == [at EXCEPT !.out = out, !.in = in, !.y = y]
    IN  IF at.done \/ box.y2 <= at.y THEN at
        ELSE IF stop1 THEN [at EXCEPT !.out = TRUE, !.done = TRUE]
        ELSE IF box.x2 <= at.x THEN [at EXCEPT !.out = out1, !.y = y]
        ELSE IF box.x1 > at.x /\ at.in THEN [at EXCEPT !.out = TRUE, !.y = y, !.done = TRUE]
        ELSE IF in /\ out /\ box.x1 < rect.x2 THEN [past EXCEPT !.done = TRUE]
        ELSE IF box.x2 >= rect.x2
        THEN [past EXCEPT !.y = box.y2, !.done = box.y2 >= rect.y2, !.x = rect.x1]
        ELSE [past EXCEPT !.done = TRUE]

XRectInRegion(r, rect) ==
    LET start == [x |-> rect.x1, y |-> rect.y1, in |-> FALSE, out |-> FALSE, done |-> FALSE]
        end == FoldLeft(LAMBDA at, box : Decided(rect, at, box), start, r.rects)
    IN  IF r.rects = <<>> \/ ~EXTENTCHECK(r.extents, rect) \/ ~end.in THEN "RectangleOut"
        ELSE IF end.y < rect.y2 THEN "RectanglePart" ELSE "RectangleIn"

(***************************************************************************)
(* An application at work.                                                 *)
(***************************************************************************)
Init ==
    /\ region = Empty
    /\ points = {}
    /\ polygon = FALSE
    /\ steps = 0

Made(r, p) == region' = r /\ points' = p

Counted == steps < MostSteps /\ steps' = steps + 1

\* A region of the set p: its points are united one by one.
RegionOf(p) ==
    FoldSet(LAMBDA q, r : XUnionRectWithRegion(Box(q[1], q[2], q[1] + 1, q[2] + 1), r), Empty, p)

Combine ==
    /\ Counted
    /\ UNCHANGED polygon
    /\ \E p \in Operands :
        \/ Made(XUnionRegion(region, RegionOf(p)), points \cup p)
        \/ Made(XUnionRegion(RegionOf(p), region), points \cup p)
        \/ Made(XIntersectRegion(region, RegionOf(p)), points \cap p)
        \/ Made(XSubtractRegion(region, RegionOf(p)), points \ p)
        \/ Made(XSubtractRegion(RegionOf(p), region), p \ points)
        \/ Made(XXorRegion(region, RegionOf(p)), (points \cup p) \ (points \cap p))

UnionRect ==
    /\ Counted
    /\ UNCHANGED polygon
    /\ \E x1 \in 0 .. Width - 1, y1 \in 0 .. Height - 1 :
       \E x2 \in x1 .. Width, y2 \in y1 .. Height :
           Made(XUnionRectWithRegion(Box(x1, y1, x2, y2), region),
                points \cup PointsOf(Box(x1, y1, x2, y2)))

Offset ==
    /\ Counted
    /\ UNCHANGED polygon
    /\ \E v \in {<<-1, 2>>, <<2, 0>>, <<0, -1>>} :
        Made(XOffsetRegion(region, v[1], v[2]), {<<p[1] + v[1], p[2] + v[2]>> : p \in points})

\* Around(dx, dy): where the points that decide about a point are
Around(p, dx, dy) == {<<p[1] + x, p[2] + y>> : x \in 0 - dx .. dx, y \in 0 - dy .. dy}

Shrink ==
    /\ Counted
    /\ UNCHANGED polygon
    /\ \E d \in {<<1, 0>>, <<0, 1>>, <<1, 1>>, <<3, 1>>} :
        /\ \/ Made(XShrinkRegion(region, d[1], d[2]),
                  {p \in points : Around(p, d[1], d[2]) \subseteq points})
           \/ Made(XShrinkRegion(region, 0 - d[1], 0 - d[2]),
                  UNION {Around(p, d[1], d[2]) : p \in points})

Polygon ==
    /\ steps = 0
    /\ \E pts \in Polygons, rule \in {"EvenOddRule", "WindingRule"} :
        Made(XPolygonRegion(pts, rule), Inside(pts, rule))
    /\ polygon' = TRUE
    /\ steps' = 1

Destroy ==
    /\ Made(Empty, {})
    /\ polygon' = FALSE
    /\ steps' = 0

Next == Combine \/ UnionRect \/ Offset \/ Shrink \/ Polygon \/ Destroy

Spec == Init /\ [][Next]_vars

-----------------------------------------------------------------------------
\* The boxes are in bands as the other functions expect them.
Banded ==
    LET rects == region.rects
    IN  /\ \A i \in DOMAIN rects : rects[i].x1 < rects[i].x2 /\ rects[i].y1 < rects[i].y2
        /\ \A i \in 2 .. Len(rects) :
              \/ /\ rects[i - 1].y1 = rects[i].y1 /\ rects[i - 1].y2 = rects[i].y2
                 /\ rects[i - 1].x2 < rects[i].x1
              \/ rects[i - 1].y2 <= rects[i].y1
        /\ \A i, j \in DOMAIN rects :
              (j = BandEnd(rects, i) /\ (i = 1 \/ rects[i - 1].y1 # rects[i].y1))
              => ~Joins(rects, i, j)

\* The extents are the least box around a region that is not empty.
Bounded == region.rects = <<>> \/ region.extents = miSetExtents(region.rects).extents

TrueAnswer(rect) ==
    IF PointsOf(rect) \subseteq points THEN "RectangleIn"
    ELSE IF PointsOf(rect) \cap points = {} THEN "RectangleOut" ELSE "RectanglePart"

Rectangles ==
    {Box(x, y, x + w, y + h) : x \in -1 .. Width, y \in -1 .. Height, w \in 1 .. Width, h \in 1 .. Height}

(***************************************************************************)
(* Whatever was combined, grown, shrunk and moved, the boxes cover exactly *)
(* the points that the calls described, each once, and the extents are     *)
(* those of the boxes, on which the trivial rejects of the next call rely. *)
(***************************************************************************)
RegionsTrue ==
    /\ Covered(region) = points
    /\ \A i, j \in DOMAIN region.rects :
          i # j => PointsOf(region.rects[i]) \cap PointsOf(region.rects[j]) = {}
    /\ Bounded

(***************************************************************************)
(* A region that stems from rectangles has one form only, so that          *)
(* XEqualRegion, which compares boxes, compares sets; and XRectInRegion,   *)
(* which stops at the first box that does not reach far enough, is right.  *)
(***************************************************************************)
AnswersRight ==
    ~polygon =>
        /\ Banded
        /\ XEqualRegion(region, RegionOf(points))
        /\ \A rect \in Rectangles : XRectInRegion(region, rect) = TrueAnswer(rect)
        /\ \A x \in -1 .. Width, y \in -1 .. Height :
              XPointInRegion(region, x, y) <=> <<x, y>> \in points

(***************************************************************************)
(* XRectInRegion is right about every region, those of polygons included.  *)
(***************************************************************************)
RectInRegionTrue ==
    \A rect \in Rectangles : XRectInRegion(region, rect) = TrueAnswer(rect)
=============================================================================
