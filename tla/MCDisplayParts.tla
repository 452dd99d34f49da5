--------------------------- MODULE MCDisplayParts ---------------------------
(***************************************************************************)
(* Instances of parts of a Display that share no variable: its sequence    *)
(* numbers and sync handlers (SeqSync) and its internal connections        *)
(* (ConnWatch), which this module extends, its graphics contexts with the  *)
(* requests that use them, its keyboard description, and the input method  *)
(* that it is used with.  One of them is in use in a behaviour.            *)
(***************************************************************************)
EXTENDS SeqSync, ConnWatch, TLC

CONSTANTS
    InUse,                          \* which of the parts
    t1, t2, t3,
    c1, c2, c3, w1, w2, w3,         \* connections, watchers
    g1, g2, d1, d2,                 \* GCs, drawables
    x1, x2,                         \* input contexts
    small, capital, num, pad, NoSymbol, Garbage,   \* symbols of keys
    InputModes

VARIABLES
    part,
    gcs, server, requests, last_req, used, session, calls, wanted, called,
    xim_events, on_the_way, hold_data, reader, sent, got,
    mode, event_queue, fabricated, need_sync_reply, ics, caller, to_server,
    im_server, focus, typed, calls_made, moves_made, received, looked_up, drawn,
    xkb, symbols, actions, core, widened, outgrown, edits

drawVars == <<gcs, server, requests, last_req, used, session, calls, wanted, called>>
transportVars == <<xim_events, on_the_way, hold_data, reader, sent, got>>
ximVars == <<mode, event_queue, fabricated, need_sync_reply, ics, caller, to_server,
             im_server, focus, typed, calls_made, moves_made, received, looked_up, drawn>>
keymapVars == <<xkb, symbols, actions, core, widened, outgrown, edits>>

(***************************************************************************)
(* Calls on internal connections.                                          *)
(***************************************************************************)
Register(x) == [op |-> "register", arg |-> x]
Unregister(x) == [op |-> "unregister", arg |-> x]
Watch(w) == [op |-> "watch", arg |-> w]
Unwatch(w) == [op |-> "unwatch", arg |-> w]
Check == [op |-> "check", arg |-> None]
ProcessOf(x) == [op |-> "process", arg |-> x]

MCConnScripts ==
    {t1 :> <<Register(c1), Register(c2), Register(c3), Unregister(c1)>>
     @@ t2 :> <<Watch(w1), Watch(w2), Watch(w3), Unwatch(w2), Unwatch(w3)>>
     @@ t3 :> <<Unregister(c2)>>,
     t1 :> <<Register(c1), Register(c2), Check, Check, Unregister(c1)>>
     @@ t2 :> <<Check, Unregister(c2), Check>>
     @@ t3 :> <<Watch(w1), ProcessOf(c1)>>}

(***************************************************************************)
(* Calls that draw.                                                        *)
(***************************************************************************)
Create == {"CreateGC"}
Setters ==
    {"SetFunction", "SetPlaneMask", "SetForeground", "SetBackground", "SetState",
     "SetLineAttributes", "SetFillStyle", "SetFillRule", "SetArcMode", "SetTSOrigin",
     "SetSubwindowMode", "SetGraphicsExposures", "SetClipOrigin", "SetFont", "SetTile",
     "SetStipple", "SetClipMask"}
Drawers ==
    {"DrawArc", "DrawArcs", "DrawLines", "FillPolygon", "CopyArea", "CopyPlane", "PutImage",
     "DrawString", "DrawString16", "DrawImageString", "DrawImageString16"}

MCSessions ==
    {<<Create, Setters, Drawers>>,
     <<Create, {"SetForeground", "SetState"}, {"DrawLine", "FlushGC"}, {"SetForeground"},
       {"DrawLine", "SetClipOrigin"}, {"DrawLine"}>>,
     <<Create, Create, {"SetClipRectangles"}, {"CopyGC"}, {"ChangeGC"},
       {"DrawString"}>>,
     <<Create, Create, {"SetDashes", "SetClipMask"}, {"CopyGC"}, {"SetDashes"}, {"DrawString"}>>,
     <<Create, Create, {"SetLineAttributes", "SetFont", "DrawText"}, {"CopyGC"},
       {"SetFont", "DrawText16", "FreeGC", "CreateGC"}>>,
     <<Create, {"DrawPoints"}, {"DrawPoint", "Flush"}, {"DrawPoint"}, {"DrawPoint"}>>,
     <<Create, {"DrawRectangles", "DrawSegments", "FillRectangles", "FillArcs"},
       {"SetLineAttributes"}, {"DrawRectangle", "FillRectangle", "FillArc", "DrawLine"},
       {"DrawRectangle", "DrawLine"}, {"DrawRectangle"}>>}

Draw == INSTANCE Drawing WITH
    Sessions <- MCSessions,
    GCs <- {g1, g2}, Drawables <- {d1, d2}, Values <- {0, 1},
    BufferSize <- 6, MaxRequest <- 2, WideBatch <- 2, ThinBatch <- 3

(***************************************************************************)
(* The input method.  A message may fill one event or several, or a        *)
(* property of up to the reader's buffer.  The ways to synchronize are     *)
(* those in which the answers to a key come one at a time.                 *)
(***************************************************************************)
Transport == INSTANCE XimTransport WITH
    Chunk <- 3, BufSize <- 10, MessageSizes <- {2, 3, 5, 7}, PropertySizes <- {4, 7, 10},
    MaxMessages <- 3

InputMode(sync, dynamic, answers, with_calls, moves) ==
    [sync |-> sync, dynamic |-> dynamic, answers |-> answers, calls |-> with_calls,
     moves |-> moves]

MCInputModes ==
    {InputMode("full", FALSE, 1, TRUE, TRUE), InputMode("full", TRUE, 1, TRUE, TRUE),
     InputMode("demand", FALSE, 2, TRUE, FALSE), InputMode("none", FALSE, 2, FALSE, FALSE)}

\* The server makes two texts of a key.
TwoTexts == {InputMode("full", FALSE, 2, FALSE, FALSE)}

Client == INSTANCE XimClient WITH
    ICs <- {x1, x2}, FirstIC <- x1, NoIC <- None, Modes <- InputModes,
    MaxKeys <- 3, MaxCalls <- 1, MaxMoves <- 1

(***************************************************************************)
(* A keyboard of three keys, one of them without symbols, with a type of   *)
(* three levels, and room for little more than its symbols; one key has an *)
(* explicit type for its third group.                                      *)
(***************************************************************************)
Described(types, syms, acts, outside) ==
    [types |-> types, syms |-> syms, acts |-> acts, outside |-> outside]

MCKeyboards ==
    {9 :> Described(<<>>, <<>>, <<>>, "wrap")
     @@ 10 :> Described(<<0, 1>>, <<<<num>>, <<small, num>>>>, <<<<num>>, <<NoSymbol, num>>>>, "clamp")
     @@ 11 :> Described(<<2, 2, 4>>,
                        <<<<small, capital>>, <<small, capital>>, <<num, num, pad>>>>,
                        <<<<>>, <<>>, <<num, num, NoSymbol>>>>, 1)}

MCTypeChanges ==
    {[nGroups |-> 0, groups |-> {0}, types |-> <<>>],
     [nGroups |-> 2, groups |-> {1}, types |-> (1 :> 4)],
     [nGroups |-> 3, groups |-> {0, 2}, types |-> (0 :> 1 @@ 2 :> 2)]}

CoreMap(ninth, tenth, eleventh) ==
    8 :> ninth @@ 9 :> ninth @@ 10 :> tenth @@ 11 :> eleventh

MCCoreMaps ==
    {CoreMap(<<capital, NoSymbol, num, NoSymbol>>, <<NoSymbol, num, NoSymbol, NoSymbol>>,
             <<num, small, small, num>>),
     CoreMap(<<num, NoSymbol, NoSymbol, NoSymbol, small, capital, pad>>,
             <<num, NoSymbol, pad, NoSymbol, NoSymbol, NoSymbol, NoSymbol>>,
             <<small, capital, NoSymbol, NoSymbol, pad, NoSymbol, num>>)}

Keyboard == INSTANCE KeyMap WITH
    Keycodes <- 8 .. 11, Keyboards <- MCKeyboards,
    ServerTypes <- (0 :> 1 @@ 1 :> 2 @@ 2 :> 2 @@ 3 :> 2 @@ 4 :> 3),
    Explicit <- [k \in 8 .. 11 |-> IF k = 11 THEN {2} ELSE {}],
    Interpreted <- {num}, ExplicitInterpret <- {9},
    TypeChanges <- MCTypeChanges, CoreMaps <- MCCoreMaps,
    SymsGrowth <- 4, SymsBlock <- 8, ActsSpare <- 2, MostEdits <- 3,
    UpperOf <- (small :> capital), KeypadSyms <- {pad}

(***************************************************************************)
(* All together.                                                           *)
(***************************************************************************)
First(set) == CHOOSE x \in set : TRUE

PartsInit ==
    /\ part \in InUse
    /\ Init /\ ConnInit /\ Draw!Init
    /\ Transport!TransportInit /\ Client!XimInit /\ Keyboard!Init
    /\ part # "numbers" => lock_fns = First(LockModes)
    /\ part # "connections" => conn_script = First(ConnScripts)
    /\ part # "drawing" => session = First(MCSessions)
    /\ part # "input" => mode = First(InputModes)
    /\ part # "keymap" => symbols[9] = <<>>

PartStopped ==
    /\ CASE part = "connections" -> ConnStopped
         [] part = "drawing" -> session = <<>>
         [] part = "messages" -> Transport!TransportStopped
         [] part = "input" -> Client!XimStopped
         [] part = "keymap" -> TRUE
         [] OTHER -> FALSE
    /\ UNCHANGED <<connVars, drawVars, transportVars, ximVars, keymapVars, vars>>

PartsNext ==
    /\ UNCHANGED part
    /\ \/ /\ part = "numbers" /\ Next
          /\ UNCHANGED <<connVars, drawVars, transportVars, ximVars, keymapVars>>
       \/ /\ part = "connections" /\ ConnNext
          /\ UNCHANGED <<vars, drawVars, transportVars, ximVars, keymapVars>>
       \/ /\ part = "drawing" /\ Draw!Next
          /\ UNCHANGED <<vars, connVars, transportVars, ximVars, keymapVars>>
       \/ /\ part = "messages" /\ Transport!TransportNext
          /\ UNCHANGED <<vars, connVars, drawVars, ximVars, keymapVars>>
       \/ /\ part = "input" /\ Client!XimNext
          /\ UNCHANGED <<vars, connVars, drawVars, transportVars, keymapVars>>
       \/ /\ part = "keymap" /\ Keyboard!KeymapNext
          /\ UNCHANGED <<vars, connVars, drawVars, transportVars, ximVars>>
       \/ PartStopped

PartsSpec ==
    PartsInit /\
    [][PartsNext]_<<part, vars, connVars, drawVars, transportVars, ximVars, keymapVars>>

-----------------------------------------------------------------------------
(***************************************************************************)
(* The properties of the parts, which their modules explain.               *)
(***************************************************************************)

\* The server draws what the calls asked for, with the GC values of that time,
\* however requests are merged and split; XCopyGC copies current values.
DrawnAsCalled == Draw!DrawnAsCalled /\ Draw!CopyTrue

\* _XimReadData gives the dispatcher every message, whole and in order.
MessagesRead == Transport!MessagesRead

\* Keys and texts reach the server and the application in the user's order.
InputInOrder == Client!InputInOrder

\* Who waits for XIM_SYNC_REPLY gets it, and nobody waits for nothing.
SyncReplied == Client!SyncReplied

\* Every key of a keyboard description has the symbols and actions it was
\* given, by the rules of the core protocol where these apply.
KeymapTrue == part = "keymap" => Keyboard!KeymapTrue
=============================================================================
