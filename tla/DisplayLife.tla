---------------------------- MODULE DisplayLife ----------------------------
(***************************************************************************)
(* The life of a Display: the steps of XOpenDisplay, any of which may      *)
(* fail, what is added while it is open, and XCloseDisplay with the        *)
(* extensions' functions.  Both ends use _XFreeDisplayStructure, which     *)
(* frees what it finds.  The events and their data are those of Cookies.   *)
(***************************************************************************)
EXTENDS Cookies

CONSTANTS
    Screens,        \* the screens of the server are 1 .. Screens
    Uses,           \* the kinds of calls that are made on a display, a set of them for each
    MaxExtensions, MaxWatchers, MaxTables

ASSUME ScreenCount == Screens \in Nat

VARIABLES
    phase,          \* "closed", "opening", "open", "closing", "crashed"
    opened,         \* steps of XOpenDisplay that are done
    use,            \* what this display is used for
    heap,           \* the blocks that are allocated
    hooks,          \* ext_procs, the first in front: what close_display does
    hook,           \* the extensions called by XCloseDisplay
    unsynced        \* request # last_request_read

lifeVars == <<phase, opened, use, heap, hooks, hook, unsynced>>

(***************************************************************************)
(* The steps of XOpenDisplay: blocks that are allocated one by one, or     *)
(* together and looked at afterwards, and checks that are made on the way. *)
(***************************************************************************)
Needs(b) == <<[kind |-> "needs", blocks |-> {b}]>>
Together(blocks) == <<[kind |-> "together", blocks |-> blocks]>>
Check == <<[kind |-> "check", blocks |-> {}]>>
Wants(b) == <<[kind |-> "wants", blocks |-> {b}]>>

_XConnectXCB == Needs(<<"xcb">>) \o Check
                \o Together({<<"event_notify">>, <<"reply_notify">>}) \o Check
_XInitDisplayLock == Needs(<<"lock_fns">>) \o Needs(<<"lock">>)
                     \o Together({<<"lock", "cv">>, <<"lock", "mutex">>, <<"lock", "writers">>})
Screen(i) == Check \o Needs(<<"depths", i>>) \o Check \o Needs(<<"visuals", i>>) \o Check

\* The n steps of each screen, one screen after the other.
EachScreen(n, steps_of) ==
    [k \in 1 .. n * Screens |-> steps_of[1 + ((k - 1) \div n)][1 + ((k - 1) % n)]]

FillDisplay ==
    Needs(<<"display_name">>) \o _XConnectXCB \o _XInitDisplayLock
    \o Needs(<<"filedes">>) \o Needs(<<"buffer">>) \o Needs(<<"free_funcs">>)
    \o Check \o Needs(<<"vendor">>) \o Check \o Needs(<<"pixmap_format">>) \o Check
    \o Needs(<<"screens">>) \o EachScreen(5, [i \in 1 .. Screens |-> Screen(i)]) \o Check
    \o EachScreen(1, [i \in 1 .. Screens |-> Needs(<<"gc", i>>)])
    \o Wants(<<"xdefaults">>) \o Wants(<<"xkb_info">>)
XOpenDisplay == Needs(<<"dpy">>) \o FillDisplay

LifeInit ==
    /\ CookieInit
    /\ phase = "closed" /\ opened = 0
    /\ use \in Uses
    /\ heap = {} /\ hooks = <<>> /\ hook = 0 /\ unsynced = FALSE

(***************************************************************************)
(* _XFreeDisplayStructure.                                                 *)
(***************************************************************************)
\* What each part of the Display frees of itself: the screens with their depths
\* and visuals, the lists, and what the free_funcs are for
MutDepthsOnly(h) ==
    {b \in h : b[1] \notin {"gc", "watcher", "visuals"} \/ b = <<"watcher", 1>>}
FreedOf(h) == {b \in h : b[1] \notin {"gc", "watcher"} \/ b = <<"watcher", 1>>}

\* The data that are on the free list go to the jar, and the jar is emptied;
\* what is still in the queue is not looked at.
_XFreeDisplayStructure(h, free, jar) ==
    /\ heap' = h \ FreedOf(h)
    /\ Frees((ToSet(free) \ {NULL}) \cup Pointers(jar))
    /\ qfree' = <<>> /\ cookiejar' = <<>>
    /\ hooks' = <<>>

Crash == phase' = "crashed"

Open ==
    /\ phase = "closed" /\ opened = 0
    /\ phase' = "opening"
    /\ UNCHANGED <<cookieVars, opened, use, heap, hooks, hook, unsynced>>

OpenStep ==
    /\ phase = "opening" /\ opened < Len(XOpenDisplay)
    /\ opened' = opened + 1
    /\ heap' = heap \cup XOpenDisplay[opened'].blocks
    /\ phase' = IF opened' = Len(XOpenDisplay) THEN "open" ELSE phase
    /\ UNCHANGED <<cookieVars, use, hooks, hook, unsynced>>

\* The resources of the root window or the XKB extension are done without.
OpenWithout ==
    /\ phase = "opening"
    /\ XOpenDisplay[opened + 1].kind = "wants"
    /\ opened' = opened + 1
    /\ phase' = IF opened' = Len(XOpenDisplay) THEN "open" ELSE phase
    /\ UNCHANGED <<cookieVars, use, heap, hooks, hook, unsynced>>

\* OutOfMemory finds no dpy->xcb in the first steps; _XFreeDisplayLock reads
\* free_cvls before it is set when one of the three cannot be had.
OpenFailed ==
    /\ phase = "opening"
    /\ LET step == XOpenDisplay[opened + 1]
       IN  /\ step.kind # "wants"
           /\ \E got \in SUBSET step.blocks :
                 /\ step.kind = "check" \/ got # step.blocks
                 /\ IF step.blocks = {<<"dpy">>}
                    THEN /\ phase' = "closed"
                         /\ UNCHANGED <<cookieVars, heap, hooks>>
                    ELSE IF <<"xcb">> \notin heap
                    THEN Crash /\ UNCHANGED <<cookieVars, heap, hooks>>
                    ELSE \/ /\ phase' = "closed"
                            /\ _XFreeDisplayStructure(heap \cup got, qfree, cookiejar)
                            /\ UNCHANGED <<queue, next_cookie, hand, borrowed, waiting,
                                           overwritten, unearned, steps>>
                         \/ /\ <<"lock", "cv">> \in step.blocks
                            /\ Crash /\ UNCHANGED <<cookieVars, heap, hooks>>
    /\ UNCHANGED <<opened, use, hook, unsynced>>

(***************************************************************************)
(* While it is open.                                                       *)
(***************************************************************************)
Using(call) == phase = "open" /\ call \in use
Adds(blocks) ==
    /\ heap' = heap \cup blocks
    /\ UNCHANGED <<cookieVars, phase, opened, use, hook, unsynced>>

Events == /\ Using("events")
          /\ EventCalls
          /\ UNCHANGED lifeVars

\* The new extension is the first; if its name cannot be copied it is freed.
Extension(k) == <<"extension", k>>
XInitExtension ==
    /\ Using("extensions") /\ Len(hooks) < MaxExtensions
    /\ hooks' = <<"none">> \o hooks
    /\ Adds({Extension(Len(hooks) + 1), <<"name", Len(hooks) + 1>>})

XAddExtension ==
    /\ Using("extensions") /\ Len(hooks) < MaxExtensions
    /\ hooks' = <<"none">> \o hooks
    /\ Adds({Extension(Len(hooks) + 1)})

\* A function that makes a request, or a round trip
XESetCloseDisplay ==
    /\ Using("extensions")
    /\ \E k \in DOMAIN hooks, what \in {"request", "roundtrip"} :
          /\ hooks[k] = "none"
          /\ hooks' = [hooks EXCEPT ![k] = what]
    /\ Adds({})

\* Tables that a part of the library makes when it needs them; it tells
\* free_funcs how to free them, but for the keysyms.
Lazy == {"atoms", "context_db", "modifiermap", "keysyms", "key_bindings", "im_filters", "db"}
MoreTables ==
    Cardinality({b \in heap : b[1] \in Lazy \cup {"error_vec", "ext_data"}}) < MaxTables

\* It fills the table without a look at whether there is one.
XESetWireToError ==
    /\ Using("tables") /\ MoreTables /\ <<"error_vec">> \notin heap
    /\ \/ Adds({<<"error_vec">>}) /\ UNCHANGED hooks
       \/ Crash /\ UNCHANGED <<cookieVars, opened, use, heap, hooks, hook, unsynced>>

XAddToExtensionList ==
    /\ Using("tables") /\ MoreTables
    /\ \E owner \in {"display", "screen", "visual", "format"} : Adds({<<"ext_data", owner>>})
    /\ UNCHANGED hooks

\* The buffer is freed first when it is too small.
_XAllocScratch ==
    /\ Using("tables")
    /\ \E got \in SUBSET {<<"scratch_buffer">>} :
          /\ heap' = (heap \ {<<"scratch_buffer">>}) \cup got
          /\ UNCHANGED <<cookieVars, phase, opened, use, hooks, hook, unsynced>>

MakeTable ==
    /\ Using("tables") /\ MoreTables
    /\ \E table \in Lazy : Adds({<<table>>})
    /\ UNCHANGED hooks

Watchers == {b \in heap : b[1] = "watcher"}
XAddConnectionWatch ==
    /\ Using("connections") /\ Cardinality(Watchers) < MaxWatchers
    /\ Adds({<<"watcher", Cardinality(Watchers) + 1>>})
    /\ UNCHANGED hooks

_XRegisterInternalConnection ==
    /\ Using("connections")
    /\ Adds({<<"im_fd_info">>, <<"watch_data">>})
    /\ UNCHANGED hooks

(***************************************************************************)
(* XCloseDisplay, when no thread is in a call any more and each has freed  *)
(* the data that it has claimed.                                           *)
(***************************************************************************)
XCloseDisplay ==
    /\ phase = "open"
    /\ \A t \in Apps : hand[t].data = NULL /\ waiting[t] = "no"
    /\ phase' = "closing"
    /\ heap' = heap \ {<<"gc", i>> : i \in 1 .. Screens}
    /\ qfree' = Discarded /\ queue' = <<>>
    /\ UNCHANGED <<cookiejar, next_cookie, hand, borrowed, waiting, live, overwritten, misused,
                   unearned, steps>>
    /\ UNCHANGED <<opened, use, hooks, hook, unsynced>>

\* close_display of the next extension.  Events may come with the reply that it
\* waits for.
CallHook ==
    /\ phase = "closing" /\ hook < Len(hooks)
    /\ hook' = hook + 1
    /\ unsynced' = CASE hooks[hook'] = "request" -> TRUE
                     [] hooks[hook'] = "roundtrip" -> FALSE
                     [] OTHER -> unsynced
    /\ \/ UNCHANGED cookieVars
       \/ hooks[hook'] = "roundtrip" /\ _XEnq /\ UNCHANGED steps
    /\ UNCHANGED <<phase, opened, use, heap, hooks>>

MutNoSecondSync == qfree
FinalSync == IF unsynced THEN Discarded ELSE qfree

\* It discards once more if the extensions have made requests and nothing was
\* read since.
CloseEnd ==
    /\ phase = "closing" /\ hook = Len(hooks)
    /\ phase' = "closed"
    /\ queue' = IF unsynced THEN <<>> ELSE queue
    /\ _XFreeDisplayStructure(heap, FinalSync, cookiejar)
    /\ UNCHANGED <<next_cookie, hand, borrowed, waiting, overwritten, unearned, steps>>
    /\ UNCHANGED <<opened, use, hook, unsynced>>

LifeNext ==
    \/ Open \/ OpenStep \/ OpenWithout \/ OpenFailed
    \/ Events
    \/ XInitExtension \/ XAddExtension \/ XESetCloseDisplay
    \/ XESetWireToError \/ XAddToExtensionList \/ _XAllocScratch \/ MakeTable
    \/ XAddConnectionWatch \/ _XRegisterInternalConnection
    \/ XCloseDisplay \/ CallHook \/ CloseEnd

LifeSpec == LifeInit /\ [][LifeNext]_<<cookieVars, lifeVars>>

-----------------------------------------------------------------------------
(***************************************************************************)
(* "XFreeDisplayStructure frees all the storage associated with a Display" *)
(* (src/OpenDis.c:574).  Not so: see the exceptions below.                 *)
(***************************************************************************)
AllFreed == phase = "closed" => heap = {} /\ live = {} /\ queue = <<>>

(***************************************************************************)
(* Wherever opening fails, and whatever was done with the display that is  *)
(* closed, all is freed, and nothing twice, but for four things that are   *)
(* never freed: the GCs of the first screens if that of another cannot be  *)
(* had, the watchers after the first, the events that come while an        *)
(* extension's close_display waits for a reply, and the data of discarded  *)
(* events whose elements were used again.  For the data of events it is so *)
(* as long as no thread uses what it has only borrowed (OneOwner).         *)
(***************************************************************************)
LeftBehind ==
    phase = "closed" =>
        /\ ~unearned => ~misused /\ live = overwritten \cup Pointers(queue)
        /\ \A b \in heap :
              \/ b[1] = "gc" /\ opened < Len(XOpenDisplay)
              \/ b[1] = "watcher" /\ b[2] > 1
        /\ queue # <<>> => hook > 0
=============================================================================
