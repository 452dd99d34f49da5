------------------------------ MODULE Replies ------------------------------
(***************************************************************************)
(* The functions that make a request and use its reply: what each of them  *)
(* reads of the reply, what it allocates and frees on the way, and what it *)
(* does when memory is short or the server answers with an error.          *)
(*                                                                         *)
(* A call is the list of what it does with the display and with memory,    *)
(* and that list depends on the answers and on which allocations succeed.  *)
(* Lengths are in bytes, without the 32 that each reply has.               *)
(***************************************************************************)
EXTENDS Integers, Sequences, SequencesExt, FiniteSetsExt

VARIABLES
    todo,        \* what the call under way has still to do
    wire,        \* the answers to its requests that have not been taken
    unread,      \* reply_length - reply_consumed, or 0 if there is no reply_data
    locked,      \* the display is locked
    heap,        \* the blocks that the call has allocated
    freed,       \* the blocks that it has freed
    result,      \* the blocks that it gives to its caller
    reported,    \* the errors that the application's handler has been told of
    wrong,       \* "reply": an assertion has failed; "memory": it has been misused
    malformed    \* in what the answers contradict themselves

replyVars == <<todo, wire, unread, locked, heap, freed, result, reported, wrong, malformed>>

(***************************************************************************)
(* The answers of the server to the requests 1, 2, ... of a call.          *)
(***************************************************************************)
Reply(req, length) ==
    [req |-> req, type |-> "reply", length |-> length, request |-> "", code |-> ""]
Error(req, request, code) ==
    [req |-> req, type |-> "error", length |-> 0, request |-> request, code |-> code]

\* A request that has no errors of its own may still be answered with these.
Answers(length) ==
    {<<Reply(1, length)>>, <<Error(1, "any", "BadAlloc")>>, <<Error(1, "any", "BadValue")>>}

Failed(w) == Last(w).type = "error"
Padded(n) == ((n + 3) \div 4) * 4
Counts == 0 .. 2

(***************************************************************************)
(* What a call may do.                                                     *)
(***************************************************************************)
\* _XReply for request req; async handlers suppress the errors in handled.
Await(req, extra, discard, handled) ==
    <<[op |-> "XReply", req |-> req, extra |-> extra, discard |-> discard, handled |-> handled]>>
XReply(extra, discard) == Await(1, extra, discard, {})

\* _XRead into a block; into memory of the caller, or on the stack
XRead(block, n) == <<[op |-> "XRead", block |-> block, n |-> n]>>
Elsewhere == <<"elsewhere", 0>>
XEatData(n) == <<[op |-> "XEatData", n |-> n]>>
Malloc(block) == <<[op |-> "Malloc", block |-> block]>>
Free(block) == <<[op |-> "Free", block |-> block]>>
XError(error) == <<[op |-> "XError", error |-> error]>>
\* UnlockDisplay, and the blocks that the result refers to
Return(blocks) == <<[op |-> "Return", blocks |-> blocks]>>
\* The end of a function that returns without UnlockDisplay
Leave == <<[op |-> "Leave"]>>

\* The allocations that succeed, of those that are made in any case
Mallocs(blocks, got) ==
    FlattenSeq([i \in DOMAIN blocks |-> IF blocks[i] \in got THEN Malloc(blocks[i]) ELSE <<>>])
Frees(blocks) == FlattenSeq([i \in DOMAIN blocks |-> Free(blocks[i])])

Init ==
    /\ todo = <<>> /\ wire = <<>> /\ unread = 0 /\ locked = FALSE
    /\ heap = {} /\ freed = {} /\ result = {}
    /\ reported = {} /\ wrong = "no" /\ malformed = {}

\* No call begins that would wait for the display's lock.
Idle ==
    /\ todo = <<>> /\ wrong = "no" /\ ~locked
    /\ heap = {} /\ freed = {} /\ reported = {}
    /\ unread = 0 => malformed = {}

StartWith(w, ops, contradictions) ==
    /\ Idle
    /\ wire' = w
    /\ todo' = ops
    /\ locked' = TRUE
    /\ malformed' = malformed \cup contradictions
    /\ UNCHANGED <<unread, heap, freed, result, reported, wrong>>
Start(w, ops) == StartWith(w, ops, {})

\* One request; the call goes on only if there is a reply.
AskWith(w, extra, discard, ops, contradictions) ==
    StartWith(w, XReply(extra, discard) \o IF Failed(w) THEN Return({}) ELSE ops,
              contradictions)
Ask(w, extra, discard, ops) == AskWith(w, extra, discard, ops, {})

Do(op) == wrong = "no" /\ todo # <<>> /\ todo[1].op = op
Done == todo' = Tail(todo)

\* The errors that _XReply does not report
Quiet(error) ==
    \/ error.code = "BadAlloc"
    \/ error.code = "BadName" /\ error.request \in {"LookupColor", "AllocNamedColor"}
    \/ error.code = "BadFont" /\ error.request = "QueryFont"

\* "Extra reply data still left in queue": the process ends.
ReplyLeft ==
    /\ Do("XReply") /\ unread # 0
    /\ wrong' = "reply"
    /\ UNCHANGED <<todo, wire, unread, locked, heap, freed, result, reported, malformed>>

\* handle_response, for what comes before the answer that is waited for
EarlierAnswer ==
    /\ Do("XReply") /\ unread = 0 /\ wire # <<>> /\ wire[1].req < todo[1].req
    /\ wire' = Tail(wire)
    /\ reported' = IF wire[1].type = "error" /\ wire[1] \notin todo[1].handled
                   THEN reported \cup {wire[1]} ELSE reported
    /\ UNCHANGED <<todo, unread, locked, heap, freed, result, wrong, malformed>>

\* _XReply copies the extra words, as far as there are any.
AwaitedAnswer ==
    /\ Do("XReply") /\ unread = 0 /\ wire # <<>> /\ wire[1].req = todo[1].req
    /\ wire' = Tail(wire)
    /\ Done
    /\ unread' = IF todo[1].discard THEN 0
                 ELSE Max({wire[1].length - todo[1].extra, 0})
    /\ reported' = IF wire[1].type = "error" /\ wire[1] \notin todo[1].handled
                      /\ ~Quiet(wire[1])
                   THEN reported \cup {wire[1]} ELSE reported
    /\ UNCHANGED <<locked, heap, freed, result, wrong, malformed>>

\* _XRead, with the padding if there is any; "Too much data requested from
\* _XRead".
ReadData ==
    /\ Do("XRead")
    /\ Done
    /\ wrong' = IF todo[1].n > unread THEN "reply"
                ELSE IF todo[1].n > 0 /\ todo[1].block \notin heap \cup {Elsewhere}
                THEN "memory" ELSE "no"
    /\ unread' = Max({unread - Padded(todo[1].n), 0})
    /\ UNCHANGED <<wire, locked, heap, freed, result, reported, malformed>>

\* _XEatData, _XEatDataWords
EatData ==
    /\ Do("XEatData")
    /\ Done
    /\ unread' = Max({unread - todo[1].n, 0})
    /\ UNCHANGED <<wire, locked, heap, freed, result, reported, wrong, malformed>>

Allocate ==
    /\ Do("Malloc")
    /\ Done
    /\ heap' = heap \cup {todo[1].block}
    /\ UNCHANGED <<wire, unread, locked, freed, result, reported, wrong, malformed>>

\* Xfree; a block that was not allocated is NULL.
Release ==
    /\ Do("Free")
    /\ Done
    /\ heap' = heap \ {todo[1].block}
    /\ freed' = freed \cup (heap \cap {todo[1].block})
    /\ wrong' = IF todo[1].block \in freed THEN "memory" ELSE "no"
    /\ UNCHANGED <<wire, unread, locked, result, reported, malformed>>

ReportError ==
    /\ Do("XError")
    /\ Done
    /\ reported' = reported \cup {todo[1].error}
    /\ UNCHANGED <<wire, unread, locked, heap, freed, result, wrong, malformed>>

Returned ==
    /\ Do("Return")
    /\ Done
    /\ locked' = FALSE
    /\ result' = todo[1].blocks
    /\ UNCHANGED <<wire, unread, heap, freed, reported, wrong, malformed>>

LeftLocked ==
    /\ Do("Leave")
    /\ Done
    /\ UNCHANGED <<wire, unread, locked, heap, freed, result, reported, wrong, malformed>>

\* The application frees the result: XFree, XFreeFontNames, XFreeFontInfo, ...
\* What the call has lost is lost, and the next one begins anew, except that the
\* rest of a reply is still there.
FreeResult ==
    /\ todo = <<>> /\ wrong = "no" /\ ~locked
    /\ heap' = {} /\ freed' = {} /\ result' = {} /\ reported' = {}
    /\ malformed' = IF unread = 0 THEN {} ELSE malformed \cap {"length"}
    /\ <<heap, freed, reported, malformed>> # <<{}, {}, {}, malformed'>>
    /\ UNCHANGED <<todo, wire, unread, locked, wrong>>

-----------------------------------------------------------------------------
(***************************************************************************)
(* Calls that want no more than the fixed part of the reply, and discard   *)
(* what follows it.                                                        *)
(***************************************************************************)
Fixed(w) == Ask(w, 0, TRUE, Return({}))

XAllocColor == \E w \in Answers(0) : Fixed(w)
XGetGeometry == \E w \in Answers(0) : Fixed(w)
XGetInputFocus == \E w \in Answers(0) : Fixed(w)
XGetPointerControl == \E w \in Answers(0) : Fixed(w)
XGetSelectionOwner == \E w \in Answers(0) : Fixed(w)
XGetScreenSaver == \E w \in Answers(0) : Fixed(w)
XGrabKeyboard == \E w \in Answers(0) : Fixed(w)
XGrabPointer == \E w \in Answers(0) : Fixed(w)
XQueryBestSize == \E w \in Answers(0) : Fixed(w)
XQueryBestCursor == \E w \in Answers(0) : Fixed(w)
XQueryBestStipple == \E w \in Answers(0) : Fixed(w)
XQueryBestTile == \E w \in Answers(0) : Fixed(w)
XQueryExtension == \E w \in Answers(0) : Fixed(w)
XQueryPointer == \E w \in Answers(0) : Fixed(w)
XQueryTextExtents == \E w \in Answers(0) : Fixed(w)
XQueryTextExtents16 == \E w \in Answers(0) : Fixed(w)
XTranslateCoordinates == \E w \in Answers(0) : Fixed(w)
XSetModifierMapping == \E w \in Answers(0) : Fixed(w)
XGetKeyboardControl == \E w \in Answers(20) : Ask(w, 20, TRUE, Return({}))
XQueryKeymap == \E w \in Answers(8) : Ask(w, 8, TRUE, Return({}))
\* It does not discard, but the reply has nothing more.
XSetPointerMapping == \E w \in Answers(0) : Ask(w, 0, FALSE, Return({}))

\* Calls with a name that the server may not know
Named(request) == Answers(0) \cup {<<Error(1, request, "BadName")>>}

XAllocNamedColor == \E w \in Named("AllocNamedColor") : Fixed(w)
XLookupColor == \E w \in Named("LookupColor") : Fixed(w)
XParseColor == \E w \in Named("LookupColor") : Fixed(w)

\* ConfigureWindow, and the round trip of XSync in which its error comes
BadMatch == Error(1, "ConfigureWindow", "BadMatch")
XReconfigureWMWindow ==
    \E w \in {<<>>, <<BadMatch>>, <<Error(1, "ConfigureWindow", "BadWindow")>>} :
        Start(Append(w, Reply(2, 0)), Await(2, 0, TRUE, {BadMatch}) \o Return({}))

\* GetWindowAttributes, whose reply _XWAttrsHandler takes, and GetGeometry; the
\* handler swallows the second error of the two.
NoWindow == Error(1, "GetWindowAttributes", "BadWindow")
NoDrawable == Error(2, "GetGeometry", "BadDrawable")
MutBothTold(w) == {}
Swallowed(w) == IF w[1] = NoWindow THEN {NoDrawable} ELSE {}
XGetWindowAttributes ==
    \E w \in {<<Reply(1, 12), Reply(2, 0)>>, <<Reply(1, 12), NoDrawable>>,
              <<NoWindow, NoDrawable>>} :
        Start(w, Await(2, 0, TRUE, Swallowed(w)) \o Return({}))

(***************************************************************************)
(* Calls that read into memory of the caller or on the stack.              *)
(***************************************************************************)
XAllocColorCells ==
    \E ncolors, nplanes, nPixels, nMasks \in Counts :
        \E w \in Answers(4 * (nPixels + nMasks)) :
            Ask(w, 0, FALSE,
                (IF nPixels > ncolors \/ nMasks > nplanes THEN XEatData(w[1].length)
                 ELSE XRead(Elsewhere, 4 * nPixels) \o XRead(Elsewhere, 4 * nMasks))
                \o Return({}))

\* The server allocates as many colours as it was asked for, or none.
XAllocColorPlanes ==
    \E ncolors \in Counts : \E w \in Answers(4 * ncolors) :
        Ask(w, 0, FALSE, XRead(Elsewhere, 4 * ncolors) \o Return({}))

XQueryColor == \E w \in Answers(8) : Ask(w, 0, FALSE, XRead(Elsewhere, 8) \o Return({}))

\* The buffer has 256 bytes in the code; here it has 4.
Mapping == 4
XGetPointerMapping ==
    \E words \in Counts : \E w \in Answers(4 * words) :
        Ask(w, 0, FALSE, XRead(Elsewhere, Min({4 * words, Mapping}))
                         \o XEatData(Max({4 * words - Mapping, 0})) \o Return({}))

(***************************************************************************)
(* Calls that allocate a block for the data, and eat the data if they      *)
(* cannot.                                                                 *)
(***************************************************************************)
Data == <<"data", 0>>

Fetch(got, n, length) ==
    IF Data \in got THEN Malloc(Data) \o XRead(Data, n) \o Return({Data})
    ELSE XEatData(length) \o Return({})

\* n items of a size; none is NULL
List(n, size, got) == IF n = 0 THEN Return({}) ELSE Fetch(got, n * size, n * size)
AskList(size) ==
    \E n \in Counts, got \in SUBSET {Data} : \E w \in Answers(n * size) :
        Ask(w, 0, FALSE, List(n, size, got))

XListProperties == AskList(4)
XListInstalledColormaps == AskList(4)
XQueryTree == AskList(4)
XGetKeyboardMapping == AskList(4)
XGetMotionEvents == AskList(8)

\* The hosts, whose entries the data hold or not: then the block is freed, and
\* nothing else is done.
XListHosts ==
    \E n \in Counts, got \in SUBSET {Data}, fits \in BOOLEAN : \E w \in Answers(8 * n) :
        AskWith(w, 0, FALSE,
                IF fits \/ got = {} THEN List(n, 8, got)
                ELSE IF n = 0 THEN Return({})
                ELSE Malloc(Data) \o XRead(Data, 8 * n) \o Free(Data) \o Leave,
                IF fits \/ n = 0 THEN {} ELSE {"hosts"})

\* One block for each of the requests that the colours need: with room for
\* MaxColors in each
MaxColors == 2
XQueryColors ==
    \E chunks \in {<<>>, <<1>>, <<MaxColors>>, <<MaxColors, 1>>} :
        \E got \in SUBSET (DOMAIN chunks), failed \in SUBSET (DOMAIN chunks) :
            Start([i \in DOMAIN chunks |->
                      IF i \in failed THEN Error(i, "QueryColors", "BadColor")
                      ELSE Reply(i, 8 * chunks[i])],
                  FlattenSeq([i \in DOMAIN chunks |->
                      Await(i, 0, FALSE, {})
                      \o (IF i \in failed THEN <<>>
                          ELSE IF i \in got
                          THEN Malloc(<<"color", i>>) \o XRead(<<"color", i>>, 8 * chunks[i])
                               \o Free(<<"color", i>>)
                          ELSE XEatData(8 * chunks[i]))])
                  \o Return({}))

\* A format that is not 8, 16 or 32 is an error of the server.
BadImplementation == Error(1, "GetProperty", "BadImplementation")
XGetWindowProperty ==
    \E format \in {0, 8, 16, 32, 64}, n \in 0 .. 3, got \in SUBSET {Data} :
        LET nbytes == (format * n) \div 8
        IN  \E w \in Answers(Padded(nbytes)) :
                Ask(w, 0, FALSE,
                    IF format = 0 THEN Return({})
                    ELSE IF format = 64
                    THEN XError(BadImplementation) \o Fetch({}, 0, Padded(nbytes))
                    ELSE Fetch(got, nbytes, Padded(nbytes)))

\* An image whose size does not fit the data is destroyed.
Image == <<"image", 0>>
XGetImage ==
    \E words \in Counts, got \in SUBSET {Data, Image}, fits \in BOOLEAN :
        \E w \in Answers(4 * words) :
            Ask(w, 0, FALSE,
                IF words = 0 THEN Return({})
                ELSE IF Data \notin got THEN XEatData(4 * words) \o Return({})
                ELSE Malloc(Data) \o XRead(Data, 4 * words)
                     \o (IF Image \notin got THEN Free(Data) \o Return({})
                         ELSE Malloc(Image)
                              \o (IF fits THEN Return({Data, Image})
                                  ELSE Frees(<<Data, Image>>) \o Return({}))))

\* The length must be 8 bytes for each key per modifier.
Map == <<"modifiermap", 0>>
XGetModifierMapping ==
    \E keys, words \in Counts, got \in {{}, {Data}, {Data, Map}} :
        \E w \in Answers(4 * words) :
            Ask(w, 0, FALSE,
                IF words \div 2 # keys THEN XEatData(4 * words) \o Return({})
                ELSE IF got # {Data, Map}
                THEN Mallocs(<<Data>>, got) \o Free(Data) \o XEatData(4 * words) \o Return({})
                ELSE Mallocs(<<Data, Map>>, got) \o XRead(Map, 4 * words) \o Return({Data, Map}))

(***************************************************************************)
(* Lists of strings: one block for the pointers and one for the strings,   *)
(* of which the first fit are inside the reply.                            *)
(***************************************************************************)
Pointers == <<"list", 0>>
StringReplies ==
    {r \in [n : Counts, fit : Counts, length : {0, 4, 8}] :
        r.fit <= r.n /\ 4 * r.fit <= r.length /\ (r.n = 0 => r.length = 0)}

Strings(r, got, enough) ==
    IF r.n = 0 THEN Return({})
    ELSE Mallocs(<<Pointers, Data>>, got)
         \o (IF got # {Pointers, Data}
             THEN Frees(<<Pointers, Data>>) \o XEatData(r.length) \o Return({})
             ELSE XRead(Data, r.length)
                  \o (IF r.fit < enough THEN Frees(<<Data, Pointers>>) \o Return({})
                      ELSE Return({Pointers, Data})))

\* The strings are not allocated if there is no data.
NotEmpty(r) == IF r.length = 0 THEN {Pointers} ELSE {Pointers, Data}

\* One string that does not fit, and there is no list; or the list ends there.
XListFonts ==
    \E r \in StringReplies : \E got \in SUBSET NotEmpty(r), w \in Answers(r.length) :
        Ask(w, 0, FALSE, Strings(r, got, r.n))
XListExtensions ==
    \E r \in StringReplies : \E got \in SUBSET NotEmpty(r), w \in Answers(r.length) :
        Ask(w, 0, FALSE, Strings(r, got, 1))
XGetFontPath ==
    \E r \in StringReplies, got \in SUBSET {Pointers, Data} : \E w \in Answers(r.length) :
        Ask(w, 0, FALSE, Strings(r, got, 1))

(***************************************************************************)
(* Fonts.  A reply says how many properties and characters it has; data is *)
(* what it really has of them, in bytes.                                   *)
(***************************************************************************)
FontExtra == 28     \* xQueryFontReply, xListFontsWithInfoReply
BigExtra == 40      \* xXF86BigfontQueryFontReply
PropSize == 8
CharSize == 12

Fs(req) == <<"fs", req>>
Properties(k) == <<"properties", k>>
PerChar(req) == <<"per_char", req>>
Uniq(req) == <<"pUniqCI", req>>

\* pData and the attached segment
Extension(req) == <<"pData", req>>
Segment(req) == <<"segment", req>>

PropsSize(f) == f.props * PropSize

\* The data may end before the properties or the characters, which is seen; or
\* there may be more, which is not.
FontReplies ==
    UNION {{[props |-> p, chars |-> c, data |-> d] :
                d \in {0, p * PropSize} \cup {p * PropSize + c * CharSize + m : m \in {0, 4}}} :
           p, c \in 0 .. 1}
FontContradictions(f) ==
    IF f.data > PropsSize(f) + f.chars * CharSize THEN {"length"} ELSE {}

\* A reply of the extension has its characters in the data, each with an index
\* that is too large or not, or in a segment that is the server's or not.
BigChars(f) == IF f.chars > 0 /\ f.place \in {"data", "index"} THEN CharSize + 4 ELSE 0
BigReplies ==
    {f \in [props : 0 .. 1, chars : 0 .. 1, data : {0, 8, 16, 24},
            place : {"data", "index", "segment", "foreign"}] :
        f.chars = 0 => f.place = "data"}
BigContradictions(f) ==
    (IF f.data >= PropsSize(f) /\ f.data # PropsSize(f) + BigChars(f) THEN {"length"} ELSE {})
    \cup (IF f.place = "index" THEN {"index"} ELSE {})

NoFont(ops) == [ops |-> ops, font |-> {}]

\* The properties: what is done until there are the characters
WithProperties(req, f, got) ==
    f.props = 0 \/ (f.props * PropSize <= f.data /\ Properties(req) \in got)
ReadProperties(req, f) ==
    Malloc(Fs(req)) \o (IF f.props = 0 THEN <<>>
                        ELSE Malloc(Properties(req)) \o XRead(Properties(req), PropSize))
Blocks(req, f) ==
    {Fs(req)} \cup (IF f.props = 0 THEN {} ELSE {Properties(req)})
             \cup (IF f.chars = 0 THEN {} ELSE {PerChar(req)})

\* _XQueryFont, from the reply to request req on
QueriedFont(req, f, got) ==
    LET left == f.data - f.props * PropSize
    IN  IF Fs(req) \notin got THEN NoFont(XEatData(f.data))
        ELSE IF ~WithProperties(req, f, got)
        THEN NoFont(Malloc(Fs(req)) \o Free(Fs(req)) \o XEatData(f.data))
        ELSE IF f.chars > 0 /\ (CharSize > left \/ PerChar(req) \notin got)
        THEN NoFont(ReadProperties(req, f) \o Frees(<<Properties(req), Fs(req)>>)
                    \o XEatData(left))
        ELSE [ops |-> ReadProperties(req, f)
                      \o (IF f.chars = 0 THEN <<>>
                          ELSE Malloc(PerChar(req)) \o XRead(PerChar(req), CharSize)),
              font |-> Blocks(req, f)]

\* The characters from the data of the extension's reply, as many as it says
\* there are; the font is given up at an index that is too large.
CharsRead(req, f, got) ==
    LET blocks == <<Uniq(req), PerChar(req)>>
        read == Mallocs(blocks, got) \o XRead(Uniq(req), BigChars(f))
        given_up == <<Uniq(req), Properties(req), Fs(req)>>
    IN  IF ~(ToSet(blocks) \subseteq got)
        THEN NoFont((IF Uniq(req) \in got THEN Malloc(Uniq(req)) ELSE <<>>)
                    \o Frees(given_up) \o XEatData(f.data - PropsSize(f)))
        ELSE IF f.place = "index" THEN NoFont(read \o Frees(given_up))
        ELSE [ops |-> read \o Free(Uniq(req)), font |-> Blocks(req, f)]

\* The characters in a segment, which is attached and belongs to the font, unless
\* it is found to be another's.
CharsShared(req, f, got) ==
    LET blocks == <<Extension(req), Segment(req)>>
        given_up == <<Segment(req), Extension(req), Properties(req), Fs(req)>>
    IN  IF Extension(req) \notin got THEN NoFont(Frees(given_up))
        ELSE IF Segment(req) \notin got \/ f.place = "foreign"
        THEN NoFont(Mallocs(blocks, got) \o Frees(given_up))
        ELSE [ops |-> Mallocs(blocks, got),
              font |-> (Blocks(req, f) \ {PerChar(req)}) \cup ToSet(blocks)]

\* _XF86BigfontQueryFont
BigQueriedFont(req, f, got) ==
    LET chars == CASE f.chars = 0 -> [ops |-> <<>>, font |-> Blocks(req, f)]
                   [] f.place \in {"data", "index"} -> CharsRead(req, f, got)
                   [] OTHER -> CharsShared(req, f, got)
    IN  IF Fs(req) \notin got THEN NoFont(XEatData(f.data))
        ELSE IF ~WithProperties(req, f, got)
        THEN NoFont(Malloc(Fs(req)) \o Free(Fs(req)) \o XEatData(f.data))
        ELSE [ops |-> ReadProperties(req, f) \o chars.ops, font |-> chars.font]

\* One allocation fails for each of the two, or none.
GotFor(blocks) == {blocks} \cup {blocks \ {b} : b \in blocks}
CoreBlocks(req) == {Fs(req), Properties(req), PerChar(req)}
FontBlocks(req) == CoreBlocks(req) \cup {Uniq(req), Extension(req), Segment(req)}

\* With the extension there is one request, and the one of the core protocol if
\* it yields no font.  opened: the error of OpenFont, if there is one.
NoName == Error(1, "OpenFont", "BadName")
BigBadFont(req) == Error(req, "XF86BigfontQueryFont", "BadFont")
QueryFont(opened, exists, req, big, f, got) ==
    LET handled == IF req = 2 THEN {NoName} ELSE {}
        b == BigQueriedFont(req, big[1], got)
        tried == big # <<>>
        again == ~tried \/ ~exists \/ b.font = {}
        next == IF tried THEN req + 1 ELSE req
        q == QueriedFont(next, f, got)
        bigwire == IF ~tried THEN <<>>
                   ELSE IF exists THEN <<Reply(req, BigExtra + big[1].data)>>
                   ELSE <<BigBadFont(req)>>
        bigops == IF ~tried THEN <<>>
                  ELSE Await(req, BigExtra, FALSE, handled \cup {BigBadFont(req)})
                       \o IF exists THEN b.ops ELSE <<>>
        corewire == IF exists THEN <<Reply(next, FontExtra + f.data)>>
                    ELSE <<Error(next, "QueryFont", "BadFont")>>
        coreops == Await(next, FontExtra, FALSE, IF tried THEN {} ELSE handled)
                   \o IF exists THEN q.ops ELSE <<>>
        contradictions == UNION {BigContradictions(big[k]) : k \in DOMAIN big}
    IN  IF again
        THEN StartWith(opened \o bigwire \o corewire,
                       bigops \o coreops \o Return(IF exists THEN q.font ELSE {}),
                       contradictions \cup FontContradictions(f))
        ELSE StartWith(opened \o bigwire, bigops \o Return(b.font), contradictions)

Bigs == {<<>>} \cup {<<b>> : b \in BigReplies}
FullReply == [props |-> 1, chars |-> 1, data |-> PropSize + CharSize]

XLoadQueryFont ==
    \E opened \in {<<>>, <<NoName>>, <<Error(1, "OpenFont", "BadAlloc")>>}, big \in Bigs :
        \E f \in IF big = <<>> THEN FontReplies ELSE {FullReply},
           first \in GotFor(FontBlocks(2)), second \in GotFor(CoreBlocks(3)) :
            QueryFont(opened, opened = <<>>, 2, big, f, first \cup second)

\* The font may be none, and then QueryFont fails.
XQueryFont ==
    \E exists \in BOOLEAN, big \in Bigs :
        \E f \in IF big = <<>> THEN FontReplies ELSE {FullReply},
           first \in GotFor(FontBlocks(1)), second \in GotFor(CoreBlocks(2)) :
            QueryFont(<<>>, exists, 1, big, f, first \cup second)

(***************************************************************************)
(* XListFontsWithInfo: one request with a reply for each font, and one     *)
(* without a name at the end.  A reply guesses how many there are to come. *)
(***************************************************************************)
Finfo == <<"finfo", 0>>
Flist == <<"flist", 0>>
FontName(k) == <<"name", k>>
NameLength == 1

\* fits: the properties are not more than the reply has.
Listed == [props : 0 .. 1, nReplies : 0 .. 1, fits : BOOLEAN]
ListedLength(f) == Padded(NameLength) + (IF f.fits THEN f.props * PropSize ELSE 0)

OfFonts(fonts, n) ==
    {FontName(k) : k \in 1 .. n} \cup {Properties(k) : k \in {j \in 1 .. n : fonts[j].props > 0}}

\* clearwire: what is left of reply i, and the replies to come
MutOneCleared(fonts, i, left) == XEatData(left) \o XReply(FontExtra, TRUE) \o Return({})
ClearWire(fonts, i, left) ==
    XEatData(left)
    \o FlattenSeq([k \in 1 .. Len(fonts) - i + 1 |-> XReply(FontExtra, TRUE)])
    \o Return({})

\* badmem: the fonts before font i
MutListsOnly(fonts, i) == Frees(<<Flist, Finfo>>)
BadMem(fonts, i) ==
    Frees(FlattenSeq([k \in 1 .. i - 1 |->
              <<FontName(k)>> \o IF fonts[k].props > 0 THEN <<Properties(k)>> ELSE <<>>])
          \o <<Flist, Finfo>>)

\* The i-th reply, when there is room for size fonts and fail is what cannot be
\* allocated; last is the answer after those of the fonts.
RECURSIVE Listing(_, _, _, _, _)
Listing(fonts, i, size, fail, last) ==
    IF i > Len(fonts)
    THEN XReply(FontExtra, FALSE)
         \o (IF last.type = "error" THEN BadMem(fonts, i) \o Return({})
             ELSE Return(OfFonts(fonts, i - 1) \cup (IF i = 1 THEN {} ELSE {Flist, Finfo})))
    ELSE
    LET f == fonts[i]
        left == ListedLength(f)
        named == Padded(NameLength)
        grows == i - 1 + f.nReplies >= size
        room == IF grows THEN i + f.nReplies ELSE size
        GivenUp == BadMem(fonts, i) \o ClearWire(fonts, i, left)
    IN  XReply(FontExtra, FALSE)
        \o (IF grows /\ fail = <<"finfo", i>>
            THEN IF i = 1 THEN ClearWire(fonts, i, left) ELSE GivenUp
            ELSE IF grows /\ fail = <<"flist", i>>
            THEN IF i = 1 THEN Malloc(Finfo) \o Free(Finfo) \o ClearWire(fonts, i, left)
                 ELSE GivenUp
            ELSE (IF i = 1 THEN Malloc(Finfo) \o Malloc(Flist) ELSE <<>>)
                 \o (IF f.props > 0 /\ (~f.fits \/ fail = Properties(i)) THEN GivenUp
                     ELSE (IF f.props = 0 THEN <<>>
                           ELSE Malloc(Properties(i)) \o XRead(Properties(i), PropSize))
                          \o (IF fail = FontName(i)
                              THEN Free(Properties(i)) \o BadMem(fonts, i)
                                   \o ClearWire(fonts, i, named)
                              ELSE Malloc(FontName(i)) \o XRead(FontName(i), NameLength)
                                   \o Listing(fonts, i + 1, room, fail, last))))

ListedFonts == BoundedSeq(Listed, 2)
XListFontsWithInfo ==
    \E fonts \in ListedFonts, last \in {Reply(1, FontExtra), Error(1, "any", "BadAlloc")},
       fail \in {"finfo", "flist", "properties", "name", "nothing"} \X (1 .. 2) :
        Start([i \in DOMAIN fonts |-> Reply(1, FontExtra + ListedLength(fonts[i]))] \o <<last>>,
              Listing(fonts, 1, 0, fail, last))

-----------------------------------------------------------------------------
Calls ==
    \/ XAllocColor \/ XGetGeometry \/ XGetInputFocus \/ XGetPointerControl
    \/ XGetSelectionOwner \/ XGetScreenSaver \/ XGrabKeyboard \/ XGrabPointer
    \/ XQueryBestSize \/ XQueryBestCursor \/ XQueryBestStipple \/ XQueryBestTile
    \/ XQueryExtension \/ XQueryPointer \/ XQueryTextExtents \/ XQueryTextExtents16
    \/ XTranslateCoordinates \/ XSetModifierMapping \/ XGetKeyboardControl
    \/ XQueryKeymap \/ XSetPointerMapping
    \/ XAllocNamedColor \/ XLookupColor \/ XParseColor
    \/ XReconfigureWMWindow \/ XGetWindowAttributes
    \/ XAllocColorCells \/ XAllocColorPlanes \/ XQueryColor \/ XQueryColors
    \/ XGetPointerMapping \/ XGetKeyboardMapping \/ XGetModifierMapping
    \/ XListProperties \/ XListInstalledColormaps \/ XQueryTree \/ XGetMotionEvents
    \/ XListHosts \/ XGetWindowProperty \/ XGetImage
    \/ XListFonts \/ XListExtensions \/ XGetFontPath
    \/ XLoadQueryFont \/ XQueryFont \/ XListFontsWithInfo

Step == ReplyLeft \/ EarlierAnswer \/ AwaitedAnswer \/ ReadData \/ EatData \/ Allocate
        \/ Release \/ ReportError \/ Returned \/ LeftLocked \/ FreeResult

Next == (Idle /\ Calls) \/ Step

Spec == Init /\ [][Next]_replyVars

(***************************************************************************)
(* Whatever the answer and whichever allocation fails, when a call returns *)
(* the display is unlocked, the replies to its requests have been taken    *)
(* and read or thrown away to their ends, and none of them was read beyond *)
(* it: the checks of _XReply (src/xcb_io.c:672) and _XRead (:832).  Beside *)
(* what the functions compare themselves, they rely on the server: a reply *)
(* whose counts are not those of its length ends the process, and hosts    *)
(* that do not fit in the reply leave the display locked (LiHosts.c:159).  *)
(***************************************************************************)
RepliesTaken ==
    /\ "length" \notin malformed =>
          /\ wrong # "reply"
          /\ todo # <<>> /\ todo[1].op = "XReply" => unread = 0
          /\ todo = <<>> => unread = 0
    /\ todo # <<>> /\ todo[1].op = "XReply" => wire # <<>>
    /\ todo = <<>> => wire = <<>>
    /\ todo = <<>> /\ locked => "hosts" \in malformed

\* When a call returns, what it has allocated is what its caller gets to free;
\* nothing is freed twice, and no data go where no memory was had.  The one
\* block that is lost is per_char of a font whose characters have an index that
\* is too large (Font.c:546).
MemoryAccounted ==
    /\ wrong # "memory"
    /\ todo = <<>> =>
          \/ heap = result
          \/ /\ "index" \in malformed
             /\ \E req \in 1 .. 2 : heap = result \cup {PerChar(req)}

\* The application's handler hears nothing of a name or a font that is not
\* known to OpenFont, LookupColor, AllocNamedColor and QueryFont (CH11.xml:1975),
\* and only once of a window that is gone.
ErrorsReported ==
    /\ ~\E e \in reported :
          \/ e.code = "BadName"
          \/ e.code = "BadFont"
    /\ ~({NoWindow, NoDrawable} \subseteq reported)
=============================================================================
