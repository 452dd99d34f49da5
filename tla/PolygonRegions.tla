--------------------------- MODULE PolygonRegions ---------------------------
(***************************************************************************)
(* The region of a polygon (PolyReg.c, poly.h): the lines of points are    *)
(* scanned downwards with the edges that cross them kept in order of x,    *)
(* and the spans of each line become boxes.                                *)
(***************************************************************************)
EXTENDS Integers, Sequences, FiniteSetsExt, SequencesExt

CONSTANT NUMPTSTOBUFFER  \* ends of spans in a block; even

Box(x1, y1, x2, y2) == [x1 |-> x1, y1 |-> y1, x2 |-> x2, y2 |-> y2]
Min2(m, n) == IF m < n THEN m ELSE n
Max2(m, n) == IF m > n THEN m ELSE n

PointsOf(box) == (box.x1 .. box.x2 - 1) \X (box.y1 .. box.y2 - 1)
Covered(r) == UNION {PointsOf(r.rects[i]) : i \in DOMAIN r.rects}

Empty == [rects |-> <<>>, extents |-> Box(0, 0, 0, 0)]

(***************************************************************************)
(* An edge: the last line that it crosses, where it crosses the present    *)
(* line, the state of its Bresenham algorithm, and its direction.          *)
(***************************************************************************)
Truncated(n, d) == IF n < 0 THEN 0 - ((0 - n) \div d) ELSE n \div d

BRESINITPGON(dy, x1, x2) ==
    LET dx == x2 - x1
        m == Truncated(dx, dy)
    IN  IF dx < 0
        THEN [x |-> x1, m |-> m, m1 |-> m - 1, d |-> 2 * m * dy - 2 * dx - 2 * dy,
              incr1 |-> 2 * dy * (m - 1) - 2 * dx, incr2 |-> 2 * dy * m - 2 * dx]
        ELSE [x |-> x1, m |-> m, m1 |-> m + 1, d |-> 2 * dx - 2 * m * dy,
              incr1 |-> 2 * dx - 2 * dy * (m + 1), incr2 |-> 2 * dx - 2 * dy * m]

BRESINCRPGON(b) ==
    IF (b.m1 > 0 /\ b.d > 0) \/ (b.m1 <= 0 /\ b.d >= 0)
    THEN [b EXCEPT !.x = @ + b.m1, !.d = @ + b.incr1]
    ELSE [b EXCEPT !.x = @ + b.m, !.d = @ + b.incr2]

Edge(prev, curr) ==
    LET up == prev[2] > curr[2]
        top == IF up THEN curr ELSE prev
        bottom == IF up THEN prev ELSE curr
    IN  [first |-> top[2], ymax |-> bottom[2] - 1, clockwise |-> ~up,
         bres |-> BRESINITPGON(bottom[2] - top[2], top[1], bottom[1])]

\* CreateETandAET: no horizontal edges
Edges(pts) ==
    LET Prev(i) == IF i = 1 THEN Last(pts) ELSE pts[i - 1]
        Slanted(i) == Prev(i)[2] # pts[i][2]
        chosen == SetToSortSeq({i \in DOMAIN pts : Slanted(i)}, <)
    IN  [k \in DOMAIN chosen |-> Edge(Prev(chosen[k]), pts[chosen[k]])]

\* InsertEdgeInET, loadAET: before the edges that are not to its left
Inserted(list, edge) ==
    LET k == Cardinality({i \in DOMAIN list : list[i].bres.x < edge.bres.x})
    IN  SubSeq(list, 1, k) \o <<edge>> \o SubSeq(list, k + 1, Len(list))

Loaded(aet, edges, y) ==
    LET new == FoldLeft(Inserted, <<>>, SelectSeq(edges, LAMBDA e : e.first = y))
    IN  FoldLeft(Inserted, aet, Reverse(new))

\* InsertionSort: behind the edges that are not to its right
Sorted(aet) ==
    FoldLeft(LAMBDA list, e :
                 LET k == Cardinality({i \in DOMAIN list : list[i].bres.x <= e.bres.x})
                 IN  SubSeq(list, 1, k) \o <<e>> \o SubSeq(list, k + 1, Len(list)),
             <<>>, aet)

(***************************************************************************)
(* computeWAET: the edges at which the number of turns becomes or ceases   *)
(* to be zero.  The sequence is computed when edges come, go or change     *)
(* places; edges are told by their number in the active table.             *)
(***************************************************************************)
Turns(aet, k) ==
    Cardinality({i \in 1 .. k : aet[i].clockwise}) - Cardinality({i \in 1 .. k : ~aet[i].clockwise})

Winding(aet) == {k \in DOMAIN aet : (Turns(aet, k) = 0) # (Turns(aet, k - 1) = 0)}

Spans(aet, rule) ==
    LET ends == IF rule = "EvenOddRule" THEN DOMAIN aet ELSE Winding(aet)
        order == SetToSortSeq(ends, <)
    IN  [k \in DOMAIN order |-> aet[order[k]].bres.x]

\* EVALUATEEDGEEVENODD, EVALUATEEDGEWINDING
Continued(aet, y) ==
    LET left == SelectSeq(aet, LAMBDA e : e.ymax # y)
    IN  [k \in DOMAIN left |-> [left[k] EXCEPT !.bres = BRESINCRPGON(@)]]

\* The ends of the spans of all lines, as <<x, y>>.
RECURSIVE Scanned(_, _, _, _, _)
Scanned(edges, aet, y, ymax, rule) ==
    IF y >= ymax THEN <<>>
    ELSE LET active == Loaded(aet, edges, y)
             xs == Spans(active, rule)
         IN  [k \in DOMAIN xs |-> <<xs[k], y>>]
             \o Scanned(edges, Sorted(Continued(active, y)), y + 1, ymax, rule)

(***************************************************************************)
(* PtsToRegion: a span continues the box above if there is only one on     *)
(* each line and the span is the last neither of the polygon nor of its    *)
(* block.                                                                  *)
(***************************************************************************)
AddSpan(rects, pts, k) ==
    LET x1 == pts[k][1]  x2 == pts[k + 1][1]  y == pts[k][2]
        last == Len(rects)
        lastOfBlock == (k + 1) % NUMPTSTOBUFFER = 0 \/ k + 1 = Len(pts)
    IN  IF x1 = x2 THEN rects
        ELSE IF /\ last > 0
                /\ rects[last].x1 = x1 /\ rects[last].x2 = x2 /\ rects[last].y2 = y
                /\ last = 1 \/ rects[last - 1].y1 # rects[last].y1
                /\ ~lastOfBlock /\ pts[k + 2][2] > y
        THEN [rects EXCEPT ![last].y2 = y + 1]
        ELSE Append(rects, Box(x1, y, x2, y + 1))

PtsToRegion(pts) ==
    LET rects == FoldLeft(LAMBDA r, k : AddSpan(r, pts, 2 * k - 1), <<>>,
                          [k \in 1 .. Len(pts) \div 2 |-> k])
    IN  IF rects = <<>> THEN Empty
        ELSE [rects |-> rects,
              extents |-> Box(Min({rects[i].x1 : i \in DOMAIN rects}), Head(rects).y1,
                              Max({rects[i].x2 : i \in DOMAIN rects}), Last(rects).y2)]

IsRectangle(pts) ==
    /\ Len(pts) = 4 \/ (Len(pts) = 5 /\ pts[5] = pts[1])
    /\ \E a \in {1, 2} :
          LET b == 3 - a
          IN  /\ pts[1][b] = pts[2][b] /\ pts[2][a] = pts[3][a]
              /\ pts[3][b] = pts[4][b] /\ pts[4][a] = pts[1][a]

XPolygonRegion(pts, rule) ==
    IF IsRectangle(pts)
    THEN LET box == Box(Min2(pts[1][1], pts[3][1]), Min2(pts[1][2], pts[3][2]),
                        Max2(pts[1][1], pts[3][1]), Max2(pts[1][2], pts[3][2]))
         IN  [rects |-> IF PointsOf(box) = {} THEN <<>> ELSE <<box>>, extents |-> box]
    ELSE IF Edges(pts) = <<>> THEN Empty
    ELSE LET ys == {pts[i][2] : i \in DOMAIN pts}
         IN  PtsToRegion(Scanned(Edges(pts), <<>>, Min(ys), Max(ys), rule))

(***************************************************************************)
(* What a polygon covers: the points from which a ray to the left crosses  *)
(* an odd number of edges, or edges whose directions do not cancel.        *)
(***************************************************************************)
ToTheRight(e, top, bottom, p) ==
    /\ top[2] <= p[2] /\ p[2] < bottom[2]
    /\ (p[1] - top[1]) * (bottom[2] - top[2]) >= (bottom[1] - top[1]) * (p[2] - top[2])

Inside(pts, rule) ==
    LET n == Len(pts)
        Prev(i) == IF i = 1 THEN n ELSE i - 1
        down(p) == {i \in 1 .. n : ToTheRight(i, pts[Prev(i)], pts[i], p)}
        up(p) == {i \in 1 .. n : ToTheRight(i, pts[i], pts[Prev(i)], p)}
        xs == {pts[i][1] : i \in 1 .. n}
        ys == {pts[i][2] : i \in 1 .. n}
    IN  {p \in (Min(xs) .. Max(xs)) \X (Min(ys) .. Max(ys)) :
            IF rule = "EvenOddRule"
            THEN (Cardinality(down(p)) + Cardinality(up(p))) % 2 = 1
            ELSE Cardinality(down(p)) # Cardinality(up(p))}
=============================================================================
