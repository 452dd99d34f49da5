------------------------------ MODULE Drawing ------------------------------
(***************************************************************************)
(* Graphics contexts and drawing requests.  Setting a value of a GC only   *)
(* changes a copy in the library; a dirty bit remembers that the server    *)
(* has an older one until a request uses the GC (CrGC.c, Set*.c).  A call  *)
(* that draws one item may add it to the last request in the buffer        *)
(* (DrLine.c, DrPoint.c, ...), a call that draws many may need several     *)
(* requests.  The server draws what was called for nevertheless.           *)
(*                                                                         *)
(* One call is one action.  A session says which calls come next: it is a  *)
(* sequence of sets of calls, and one of each set is made.                 *)
(***************************************************************************)
EXTENDS Integers, Sequences, SequencesExt, FiniteSets, FiniteSetsExt, Functions, TLC

CONSTANTS
    GCs,            \* graphics contexts
    Drawables,      \* windows and pixmaps
    Values,         \* the values a field may have; 0 is the default
    Sessions,       \* sequences of sets of names of calls
    BufferSize,     \* words in the output buffer
    MaxRequest,     \* items in one request (max_request_size)
    WideBatch,      \* items merged while lines are wide (WLNSPERBATCH, ...)
    ThinBatch       \* and otherwise (ZLNSPERBATCH, PTSPERBATCH, ...)

VARIABLES
    gcs,        \* the library's GCs
    server,     \* the server's GCs and what it has drawn
    requests,   \* the requests in the output buffer
    last_req,   \* the one at dpy->last_req, or 0 for the dummy request
    used,       \* words of the buffer in use
    session,    \* the calls still to be made
    calls,      \* the number of calls made, which names what they draw
    wanted,     \* the GCs as the application has set them
    called      \* the items the application has drawn, with their GC values

bufferVars == <<server, requests, last_req, used>>
callVars == <<session, calls>>
vars == <<gcs, bufferVars, callVars, wanted, called>>

Resources == {"tile", "stipple", "font"}
Plain == {"function", "plane_mask", "foreground", "background", "line_width",
          "line_style", "cap_style", "join_style", "fill_style", "fill_rule", "arc_mode",
          "ts_x_origin", "ts_y_origin", "subwindow_mode", "graphics_exposures",
          "clip_x_origin", "clip_y_origin", "dash_offset"}
Fields == Resources \cup Plain \cup {"clip_mask", "dashes"}

\* Marks of what has no value of the field's type: a list of rectangles in
\* clip_mask, a list in dashes.
Rectangles(v) == <<"rectangles", v>>
List(v) == <<"list", v>>

initial_GC == [f \in Fields |-> <<"value", IF f \in Resources THEN -1 ELSE 0>>]
Value(v) == <<"value", v>>
NoGC == [exists |-> FALSE]

(***************************************************************************)
(* The server.                                                             *)
(***************************************************************************)
\* What the server makes of a request, and where it draws its items.
Sum(s) == FoldLeft(+, 0, s)
Items(r) ==
    IF r.mode = "Origin" THEN r.items
    ELSE [i \in DOMAIN r.items |-> Sum(SubSeq(r.items, 1, i))]

Execute(s, r) ==
    CASE r.type = "CreateGC" ->
            [s EXCEPT !.gcs[r.gc] = r.values @@ initial_GC]
      [] r.type = "ChangeGC" ->
            [s EXCEPT !.gcs[r.gc] = r.values @@ @]
      [] r.type = "CopyGC" ->
            [s EXCEPT !.gcs[r.gc] = Restrict(s.gcs[r.src], r.mask) @@ @]
      [] r.type = "FreeGC" -> s
      [] OTHER ->
            LET values == IF "font" \in DOMAIN r THEN ("font" :> r.font) @@ s.gcs[r.gc]
                          ELSE s.gcs[r.gc] IN
            [gcs |-> [s.gcs EXCEPT ![r.gc] = values],
             drawn |-> s.drawn \o [i \in DOMAIN r.items |->
                 [drawable |-> r.drawable, item |-> Items(r)[i], values |-> values]]]

(***************************************************************************)
(* The buffer, as a record of its variables, with the server at its end.   *)
(***************************************************************************)
Buffer == [server |-> server, requests |-> requests, last_req |-> last_req, used |-> used]
BufferIs(b) ==
    /\ server' = b.server
    /\ requests' = b.requests
    /\ last_req' = b.last_req
    /\ used' = b.used

\* What the server makes of the requests in the buffer.
Executed(b) == FoldLeft(Execute, b.server, b.requests)

\* _XSend: the requests have gone, and the dummy request is the last.
Flushed(b) == [server |-> Executed(b), requests |-> <<>>, last_req |-> 0, used |-> 0]

\* _XGetRequest, which makes room for the fixed part of a request; and Data,
\* which sends all there is when the rest does not fit.
Emitted(b, request, data) ==
    LET room == IF b.used + request.size > BufferSize THEN Flushed(b) ELSE b
        placed == [room EXCEPT !.requests = Append(@, request),
                               !.last_req = Len(room.requests) + 1,
                               !.used = @ + request.size]
    IN IF placed.used + data > BufferSize THEN Flushed(placed)
       ELSE [placed EXCEPT !.used = @ + data]

\* The same for data made in the buffer with BufAlloc, which flushes first.
Built(b, request, data) ==
    LET after == Emitted(b, request, data) IN
    IF after.last_req = 0 THEN [after EXCEPT !.used = data] ELSE after

(***************************************************************************)
(* GCs: what a call makes of the library's copy.                           *)
(***************************************************************************)
\* The setters: a field is dirty when its value changes.
SetIn(gc, new) ==
    [gc EXCEPT !.values = new @@ @,
               !.dirty = @ \cup {f \in DOMAIN new : gc.values[f] # new[f]}]

\* Written through whether or not it changes.
Written(gc, f, v) ==
    [gc EXCEPT !.values[f] = Value(v), !.dirty = @ \cup {f},
               !.rects = IF f = "clip_mask" THEN FALSE ELSE @]

\* _XUpdateGCCache
UpdateGCCache(gc, new) ==
    LET through == DOMAIN new \cap {"tile", "stipple", "clip_mask"}
        list == IF "dashes" \in DOMAIN new /\ gc.dashes THEN {"dashes"} ELSE {}
        set == SetIn(gc, new)
    IN [set EXCEPT !.dirty = @ \cup through \cup list,
                   !.rects = IF "clip_mask" \in through THEN FALSE ELSE @,
                   !.dashes = IF "dashes" \in DOMAIN new THEN FALSE ELSE @]

\* _XGenerateGCList
GCList(gc) == Restrict(gc.values, gc.dirty)

\* _XFlushGCCache: the buffer and the GC after it.
FlushedInto(b, g, gc) ==
    IF gc.dirty = {} THEN b
    ELSE Emitted(b, [type |-> "ChangeGC", gc |-> g, values |-> GCList(gc), size |-> 1], 1)
Clean(gc) == [gc EXCEPT !.dirty = {}]

(***************************************************************************)
(* Calls on GCs.                                                           *)
(***************************************************************************)
Call(name) ==
    /\ session # <<>>
    /\ name \in Head(session)
    /\ session' = Tail(session)
    /\ calls' = calls + 1

Live == {g \in GCs : gcs[g].exists}

\* The application's view of a GC.
Wants(g, new) == wanted' = [wanted EXCEPT ![g] = new @@ @]

\* A GC is changed and, if need be, its values are sent.
ChangeTo(g, gc, flushes) ==
    /\ gcs' = [gcs EXCEPT ![g] = IF flushes THEN Clean(gc) ELSE gc]
    /\ BufferIs(IF flushes THEN FlushedInto(Buffer, g, gc) ELSE Buffer)
    /\ UNCHANGED called

\* The setters that compare, for one or several fields, given one value each.
Set(name, fields) ==
    /\ Call(name)
    /\ \E g \in Live, v \in Values :
          LET new == [f \in fields |-> Value(v)] IN
          /\ ChangeTo(g, SetIn(gcs[g], new), FALSE)
          /\ Wants(g, new)

SetFunction == Set("SetFunction", {"function"})
SetPlaneMask == Set("SetPlaneMask", {"plane_mask"})
SetForeground == Set("SetForeground", {"foreground"})
SetBackground == Set("SetBackground", {"background"})
SetState == Set("SetState", {"function", "plane_mask", "foreground", "background"})
SetLineAttributes ==
    Set("SetLineAttributes", {"line_width", "line_style", "cap_style", "join_style"})
SetFillStyle == Set("SetFillStyle", {"fill_style"})
SetFillRule == Set("SetFillRule", {"fill_rule"})
SetArcMode == Set("SetArcMode", {"arc_mode"})
SetTSOrigin == Set("SetTSOrigin", {"ts_x_origin", "ts_y_origin"})
SetSubwindowMode == Set("SetSubwindowMode", {"subwindow_mode"})
SetGraphicsExposures == Set("SetGraphicsExposures", {"graphics_exposures"})
SetClipOrigin == Set("SetClipOrigin", {"clip_x_origin", "clip_y_origin"})

\* XSetFont flushes a font that changes; the others write through.
SetFont ==
    /\ Call("SetFont")
    /\ \E g \in Live, v \in Values :
          LET new == ("font" :> Value(v)) IN
          /\ ChangeTo(g, SetIn(gcs[g], new), gcs[g].values.font # Value(v))
          /\ Wants(g, new)

SetThrough(name, f) ==
    /\ Call(name)
    /\ \E g \in Live, v \in Values :
          /\ ChangeTo(g, Written(gcs[g], f, v), TRUE)
          /\ Wants(g, f :> Value(v))

SetTile == SetThrough("SetTile", "tile")
SetStipple == SetThrough("SetStipple", "stipple")
SetClipMask == SetThrough("SetClipMask", "clip_mask")

\* XSetClipRectangles sends its own request; the dirty bits of the other fields
\* survive the extensions' look at the GC.
SetClipRectangles ==
    /\ Call("SetClipRectangles")
    /\ \E g \in Live, v \in Values :
          LET new == [f \in {"clip_x_origin", "clip_y_origin"} |-> Value(v)] IN
          /\ gcs' = [gcs EXCEPT
                 ![g].values = new @@ @, ![g].rects = TRUE,
                 ![g].dirty = @ \ {"clip_mask", "clip_x_origin", "clip_y_origin"}]
          /\ BufferIs(Emitted(Buffer, [type |-> "ChangeGC", gc |-> g, size |-> 1,
                 values |-> ("clip_mask" :> Rectangles(v)) @@ new], 1))
          /\ Wants(g, ("clip_mask" :> Rectangles(v)) @@ new)
    /\ UNCHANGED called

\* XSetDashes
SetDashes ==
    /\ Call("SetDashes")
    /\ \E g \in Live, v \in Values :
          LET new == ("dash_offset" :> Value(v)) IN
          /\ gcs' = [gcs EXCEPT ![g].values = new @@ @, ![g].dashes = TRUE,
                                ![g].dirty = @ \ {"dashes", "dash_offset"}]
          /\ BufferIs(Emitted(Buffer, [type |-> "ChangeGC", gc |-> g, size |-> 1,
                 values |-> ("dashes" :> List(v)) @@ new], 1))
          /\ Wants(g, ("dashes" :> List(v)) @@ new)
    /\ UNCHANGED called

\* XChangeGC; the application changes one or two fields.
ChangeGC ==
    /\ Call("ChangeGC")
    /\ \E g \in Live, v \in Values,
          mask \in {{"tile"}, {"stipple", "clip_mask"}, {"dashes", "line_width"}} :
          LET new == [f \in mask |-> Value(v)]
              gc == UpdateGCCache(gcs[g], new) IN
          /\ ChangeTo(g, gc, gc.dirty \cap Resources # {})
          /\ Wants(g, new)

\* XCopyGC
MutSourceNotFlushed(src, mask) == FALSE
SourceFlushed(src, mask) == gcs[src].dirty \cap mask # {}

CopyGC ==
    /\ Call("CopyGC")
    /\ \E src, dest \in Live, mask \in {{"font", "line_width"}, {"clip_mask", "dashes"}, Fields} :
          LET b == IF SourceFlushed(src, mask)
                   THEN FlushedInto(Buffer, src, gcs[src]) ELSE Buffer
              after == IF SourceFlushed(src, mask)
                       THEN [gcs EXCEPT ![src] = Clean(@)] ELSE gcs
              copied == Restrict(gcs[src].values, mask)
          IN
          /\ gcs' = [after EXCEPT
                 ![dest].values = copied @@ @, ![dest].dirty = @ \ mask,
                 ![dest].rects = IF "clip_mask" \in mask THEN gcs[src].rects ELSE @,
                 ![dest].dashes = IF "dashes" \in mask THEN gcs[src].dashes ELSE @]
          /\ BufferIs(Emitted(b, [type |-> "CopyGC", src |-> src, gc |-> dest,
                                  mask |-> mask, size |-> 1], 0))
          /\ Wants(dest, Restrict(wanted[src], mask))
    /\ UNCHANGED called

\* XCreateGC
CreateGC ==
    /\ Call("CreateGC")
    /\ Live # GCs
    /\ \E v \in Values \ {0}, mask \in {{"tile"}, {"font"}, {"clip_mask", "dashes"}} :
          LET g == CHOOSE free \in GCs \ Live : TRUE
              new == [f \in mask |-> Value(v)]
              gc == UpdateGCCache([exists |-> TRUE, values |-> initial_GC, dirty |-> {},
                                   rects |-> FALSE, dashes |-> FALSE], new) IN
          /\ gcs' = [gcs EXCEPT ![g] = Clean(gc)]
          /\ BufferIs(Emitted(Buffer, [type |-> "CreateGC", gc |-> g, size |-> 1,
                                       values |-> GCList(gc)], 1))
          /\ wanted' = [wanted EXCEPT ![g] = new @@ initial_GC]
    /\ UNCHANGED called

\* XFreeGC
FreeGC ==
    /\ Call("FreeGC")
    /\ \E g \in Live :
          /\ gcs' = [gcs EXCEPT ![g] = NoGC]
          /\ BufferIs(Emitted(Buffer, [type |-> "FreeGC", gc |-> g, size |-> 1], 0))
    /\ UNCHANGED <<wanted, called>>

\* XFlushGC
FlushGC ==
    /\ Call("FlushGC")
    /\ \E g \in Live : ChangeTo(g, gcs[g], TRUE)
    /\ UNCHANGED wanted

\* XFlush and any call that waits.
XFlush ==
    /\ Call("Flush")
    /\ BufferIs(Flushed(Buffer))
    /\ UNCHANGED <<gcs, wanted, called>>

(***************************************************************************)
(* Drawing.  An item is a number: its place on a line.                     *)
(***************************************************************************)
Poly(type, g, d, mode, items) ==
    [type |-> type, gc |-> g, drawable |-> d, mode |-> mode, items |-> items,
     size |-> 1]

\* A request that is written with its one item.
One(request) == [request EXCEPT !.size = 2]

\* How many items the calls that merge put into one request.
Batch(type, g) ==
    IF type \in {"PolySegment", "PolyRectangle"} /\ gcs[g].values.line_width # Value(0)
    THEN WideBatch ELSE ThinBatch

\* The item can go into the last request.
Mergeable(b, type, g, d) ==
    /\ b.last_req # 0
    /\ LET r == b.requests[b.last_req] IN
       /\ r.type = type
       /\ r.gc = g
       /\ r.drawable = d
       /\ r.mode = "Origin"
       /\ Len(r.items) < Batch(type, g)
    /\ b.used + 1 <= BufferSize

Merged(b, item) ==
    [b EXCEPT !.requests[b.last_req].items = Append(@, item),
              !.used = @ + 1]

\* The items are drawn with the GC as the application has set it.
Draws(g, d, items) ==
    called' = called \o [i \in DOMAIN items |->
        [drawable |-> d, item |-> items[i], values |-> wanted[g]]]

\* The GC is flushed, then the request written.
Draw(name, g, After(_)) ==
    /\ Call(name)
    /\ gcs' = [gcs EXCEPT ![g] = Clean(@)]
    /\ BufferIs(After(FlushedInto(Buffer, g, gcs[g])))
    /\ UNCHANGED wanted

\* One item, which may be merged.
DrawOne(name, type) ==
    \E g \in Live, d \in Drawables :
       /\ Draw(name, g, LAMBDA b :
              IF Mergeable(b, type, g, d) THEN Merged(b, calls)
              ELSE Emitted(b, One(Poly(type, g, d, "Origin", <<calls>>)), 0))
       /\ Draws(g, d, <<calls>>)

DrawPoint == DrawOne("DrawPoint", "PolyPoint")
DrawLine == DrawOne("DrawLine", "PolySegment")
DrawRectangle == DrawOne("DrawRectangle", "PolyRectangle")
FillRectangle == DrawOne("FillRectangle", "PolyFillRectangle")
FillArc == DrawOne("FillArc", "PolyFillArc")

\* A request for each call.
DrawAlone(name, type) ==
    \E g \in Live, d \in Drawables :
       /\ Draw(name, g, LAMBDA b : Emitted(b, Poly(type, g, d, "Origin", <<calls>>), 1))
       /\ Draws(g, d, <<calls>>)

DrawArc == DrawAlone("DrawArc", "PolyArc")
DrawArcs == DrawAlone("DrawArcs", "PolyArc")
DrawLines == DrawAlone("DrawLines", "PolyLine")
FillPolygon == DrawAlone("FillPolygon", "FillPoly")
CopyArea == DrawAlone("CopyArea", "CopyArea")
CopyPlane == DrawAlone("CopyPlane", "CopyPlane")
PutImage == DrawAlone("PutImage", "PutImage")

\* Its text is made in the buffer.
DrawText8or16(name, type) ==
    \E g \in Live, d \in Drawables :
       /\ Draw(name, g, LAMBDA b : Built(b, Poly(type, g, d, "Origin", <<calls>>), 1))
       /\ Draws(g, d, <<calls>>)

DrawString == DrawText8or16("DrawString", "PolyText8")
DrawString16 == DrawText8or16("DrawString16", "PolyText16")

\* Many items, in requests of at most MaxRequest.
Chunk(items, i) ==
    SubSeq(items, (i - 1) * MaxRequest + 1, Min({i * MaxRequest, Len(items)}))
Chunks(items) == [i \in 1..((Len(items) + MaxRequest - 1) \div MaxRequest) |-> Chunk(items, i)]

DrawMany(name, type) ==
    \E g \in Live, d \in Drawables, n \in 1..(2 * MaxRequest + 1) :
       LET items == [i \in 1..n |-> i] IN
       /\ Draw(name, g, LAMBDA b :
              FoldLeft(LAMBDA c, chunk : Emitted(c, Poly(type, g, d, "Origin", chunk), Len(chunk)),
                       b, Chunks(items)))
       /\ Draws(g, d, items)

DrawSegments == DrawMany("DrawSegments", "PolySegment")
DrawRectangles == DrawMany("DrawRectangles", "PolyRectangle")
FillRectangles == DrawMany("FillRectangles", "PolyFillRectangle")
FillArcs == DrawMany("FillArcs", "PolyFillArc")

\* Text in requests of MaxRequest characters, with a round trip before each but
\* the first to learn where it starts.  If the answer is an error the rest is
\* not drawn: `sent' requests are.
DrawImage(name, type) ==
    \E g \in Live, d \in Drawables, n \in 1..(2 * MaxRequest + 1), sent \in 1..3 :
       LET items == [i \in 1..n |-> i]
           AfterTrip(b, i) == IF i = 1 THEN b ELSE Flushed(b)
           Texts(b) ==
               FoldLeft(LAMBDA c, i : Emitted(AfterTrip(c, i),
                           Poly(type, g, d, "Origin", Chunk(items, i)), Len(Chunk(items, i))),
                        b, [i \in 1..sent |-> i])
           After(b) == IF sent * MaxRequest < n THEN Flushed(Texts(b)) ELSE Texts(b)
       IN
       /\ (sent - 1) * MaxRequest < n
       /\ Draw(name, g, After)
       /\ Draws(g, d, SubSeq(items, 1, Min({n, sent * MaxRequest})))

DrawImageString == DrawImage("DrawImageString", "ImageText8")
DrawImageString16 == DrawImage("DrawImageString16", "ImageText16")

\* XDrawPoints.  In the mode "Previous" the points are distances from the point
\* before; the first of each request counts from the origin, and xoff is what
\* the requests before have covered.
MutNoOffset(points, i) == Chunk(points, i)
PointsChunk(points, i) ==
    LET xoff == Sum(SubSeq(points, 1, (i - 1) * MaxRequest))
        chunk == Chunk(points, i)
    IN [chunk EXCEPT ![1] = xoff + @]

DrawPoints ==
    \E g \in Live, d \in Drawables, n \in 1..(2 * MaxRequest + 1),
       mode \in {"Origin", "Previous"} :
       LET points == [i \in 1..n |-> i]
           Sent(i) == IF mode = "Previous" THEN PointsChunk(points, i) ELSE Chunk(points, i)
       IN
       /\ Draw("DrawPoints", g, LAMBDA b :
              FoldLeft(LAMBDA c, i : Emitted(c, Poly("PolyPoint", g, d, mode, Sent(i)), Len(Sent(i))),
                       b, [i \in DOMAIN Chunks(points) |-> i]))
       /\ Draws(g, d, IF mode = "Origin" THEN points
                      ELSE [i \in 1..n |-> Sum(SubSeq(points, 1, i))])

\* XDrawText: an item with a font changes the GC's font, here and in the server.
TextWithFont(name, type) ==
    \E g \in Live, d \in Drawables, v \in Values :
       /\ Call(name)
       /\ gcs' = [gcs EXCEPT ![g] = Clean([@ EXCEPT !.values.font = Value(v)])]
       /\ BufferIs(Built(FlushedInto(Buffer, g, gcs[g]),
              [type |-> type, gc |-> g, drawable |-> d, mode |-> "Origin",
               font |-> Value(v), items |-> <<calls>>, size |-> 1], 2))
       /\ Wants(g, "font" :> Value(v))
       /\ called' = Append(called, [drawable |-> d, item |-> calls,
                                    values |-> ("font" :> Value(v)) @@ wanted[g]])

DrawText == TextWithFont("DrawText", "PolyText8")
DrawText16 == TextWithFont("DrawText16", "PolyText16")

Init ==
    /\ gcs = [g \in GCs |-> NoGC]
    /\ server = [gcs |-> [g \in GCs |-> initial_GC], drawn |-> <<>>]
    /\ requests = <<>> /\ last_req = 0 /\ used = 0
    /\ session \in Sessions /\ calls = 0
    /\ wanted = [g \in GCs |-> initial_GC]
    /\ called = <<>>

Next ==
    \/ SetFunction \/ SetPlaneMask \/ SetForeground \/ SetBackground \/ SetState
    \/ SetLineAttributes \/ SetFillStyle \/ SetFillRule \/ SetArcMode \/ SetTSOrigin
    \/ SetSubwindowMode \/ SetGraphicsExposures \/ SetClipOrigin \/ SetFont \/ SetTile
    \/ SetStipple \/ SetClipMask \/ SetClipRectangles \/ SetDashes
    \/ ChangeGC \/ CopyGC \/ CreateGC \/ FreeGC \/ FlushGC \/ XFlush
    \/ DrawPoint \/ DrawLine \/ DrawRectangle \/ FillRectangle \/ FillArc
    \/ DrawArc \/ DrawArcs \/ DrawLines \/ FillPolygon \/ CopyArea \/ CopyPlane \/ PutImage
    \/ DrawString \/ DrawString16 \/ DrawImageString \/ DrawImageString16
    \/ DrawSegments \/ DrawRectangles \/ FillRectangles \/ FillArcs \/ DrawPoints
    \/ DrawText \/ DrawText16

Spec == Init /\ [][Next]_vars

(***************************************************************************)
(* Properties.                                                             *)
(***************************************************************************)
TypeOK ==
    /\ \A g \in GCs : gcs[g] = NoGC \/
          (DOMAIN gcs[g].values = Fields /\ gcs[g].dirty \in SUBSET Fields)
    /\ last_req \in 0..Len(requests)
    /\ used \in 0..BufferSize
    /\ calls + Len(session) \in {Len(s) : s \in Sessions}

\* The server will have drawn, when it has seen the requests made so far, the
\* items that were called for, in their order, each with the values that its
\* GC had at the call: whatever was merged, split, written through, copied
\* from another GC or not sent because it seemed unchanged.
DrawnAsCalled == Executed(Buffer).drawn = called

\* A field that is not dirty has the value that the application has set, in the
\* server; so has the library's copy, unless the value is a list.
CopyTrue ==
    \A g \in Live, f \in Fields :
        /\ f \notin gcs[g].dirty => Executed(Buffer).gcs[g][f] = wanted[g][f]
        /\ \/ gcs[g].values[f] = wanted[g][f]
           \/ f = "clip_mask" /\ gcs[g].rects
           \/ f = "dashes" /\ gcs[g].dashes
=============================================================================
