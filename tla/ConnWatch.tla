----------------------------- MODULE ConnWatch -----------------------------
(***************************************************************************)
(* Internal connections (XlibInt.c:125-612) and the loop that polls them   *)
(* (xcb_io.c:101-145).  An input method registers its connection with the  *)
(* Display; the application watches the set of connections; any call that  *)
(* reads or sends runs the callbacks of the readable ones, with the        *)
(* display unlocked.                                                       *)
(*                                                                         *)
(* What runs with the display locked is one action; a thread in a callback *)
(* is at "Callback".  A connection is its file descriptor, and a script    *)
(* registers a descriptor once.                                            *)
(***************************************************************************)
EXTENDS Naturals, Sequences, SequencesExt, FiniteSets, FiniteSetsExt

CONSTANTS
    ConnThreads,        \* the threads that use the display
    ConnScripts,        \* what they call: functions from threads to sequences
    Connections,        \* file descriptors of internal connections
    Watchers,           \* pairs of a watch procedure and its client data
    PointerSize,        \* bytes of an XPointer
    PollfdCacheSize,    \* POLLFD_CACHE_SIZE, the display's own entry included
    None                \* no descriptor, no owner

VARIABLES
    im_fd_info,     \* the list of connections
    watch_data,     \* for each of them its array, in bytes
    conn_watchers,  \* the list of watchers
    pollfds,        \* the cache of descriptors, from its entry 1 on
    overrun,        \* an entry was written behind the cache
    most,           \* the greatest number of connections at a time
    proc_conni,     \* the flag XlibDisplayProcConni
    conn_script,    \* the calls each thread has yet to make
    conn_local,     \* where a thread in a callback is
    told,           \* connections each watcher knows to be open
    misled,         \* a watcher was given data that is not its own
    intact,         \* watchers before any whose slots were moved
    overtaken       \* the flag was cleared while another thread polled

listVars == <<im_fd_info, watch_data, pollfds, overrun, most>>
watchVars == <<conn_watchers, told, misled, intact>>
connVars == <<listVars, watchVars, proc_conni, conn_script, conn_local, overtaken>>

(***************************************************************************)
(* The arrays of watch data.  A byte is named by the watcher whose pointer *)
(* it belongs to.                                                          *)
(***************************************************************************)
Bytes == 1..PointerSize

\* Where the pointer in slot i lies.
Slot(i) == {(i - 1) * PointerSize + b : b \in Bytes}

\* The array after its slot i has been set.
Stored(data, i, w) == [k \in DOMAIN data |-> IF k \in Slot(i) THEN w ELSE data[k]]

\* The array for n slots.
Resized(data, n) ==
    [k \in 1..(n * PointerSize) |-> IF k <= Len(data) THEN data[k] ELSE None]

\* A watcher finds in the slot the pointer that it stored there.
Holds(data, i, w) == \A k \in Slot(i) : k <= Len(data) /\ data[k] = w

\* memmove of the slots that follow the removed one, of which there are n: the
\* count is taken for bytes.
MutFromStart(data, i, n) ==
    [k \in DOMAIN data |-> IF k <= n THEN data[k + PointerSize] ELSE data[k]]

MovedDown(data, i, n) ==
    LET first == (i - 1) * PointerSize IN
    [k \in DOMAIN data |->
        IF k > first /\ k <= first + n THEN data[k + PointerSize] ELSE data[k]]

(***************************************************************************)
(* The cache of descriptors, an array of PollfdCacheSize entries of which  *)
(* the first, entry 0, is always the display's.  It was made for a poll()  *)
(* that is no longer there: it is kept up to date and nobody reads it.     *)
(* Both functions let a list of PollfdCacheSize connections pass, whose    *)
(* last entry lies behind the array; what else is there is not modelled.   *)
(***************************************************************************)
CacheEntries == 1..(PollfdCacheSize - 1)

\* The entries in places are written, with the descriptors in list.
Written(places, list) ==
    /\ pollfds' = [i \in CacheEntries |-> IF i \in places THEN list[i] ELSE pollfds[i]]
    /\ overrun' = (overrun \/ ~(places \subseteq CacheEntries))

\* The last of the list, which has just been appended.
CacheAdd(list) ==
    IF Len(list) <= PollfdCacheSize THEN Written({Len(list)}, list)
    ELSE UNCHANGED <<pollfds, overrun>>

MutNotRecalculated(list) == UNCHANGED <<pollfds, overrun>>

CacheDel(list) ==
    IF Len(list) <= PollfdCacheSize THEN Written(DOMAIN list, list)
    ELSE UNCHANGED <<pollfds, overrun>>

ConnInit ==
    /\ im_fd_info = <<>>
    /\ watch_data = [c \in Connections |-> <<>>]
    /\ conn_watchers = <<>>
    /\ pollfds = [i \in CacheEntries |-> None]
    /\ overrun = FALSE
    /\ most = 0
    /\ proc_conni = FALSE
    /\ conn_script \in ConnScripts
    /\ conn_local = [t \in ConnThreads |-> [at |-> "Idle"]]
    /\ told = [w \in Watchers |-> {}]
    /\ misled = FALSE
    /\ intact = 0
    /\ overtaken = FALSE

\* t is between two calls, or in a callback that makes calls itself, and the
\* next is op; the call takes effect and returns.
Call(t, op) ==
    /\ conn_script[t] # <<>>
    /\ Head(conn_script[t]).op = op
    /\ conn_script' = [conn_script EXCEPT ![t] = Tail(@)]

Arg(t) == Head(conn_script[t]).arg
Idle(t) == conn_local[t].at = "Idle"

(***************************************************************************)
(* Connections come and go.                                                *)
(***************************************************************************)
\* Each watcher stores its pointer in its slot.
FirstData(c) ==
    [watch_data EXCEPT ![c] = [k \in 1..(Len(conn_watchers) * PointerSize) |->
        CHOOSE w \in Watchers : \E i \in DOMAIN conn_watchers :
            k \in Slot(i) /\ w = conn_watchers[i]]]

\* _XRegisterInternalConnection; without memory nothing happens.
RegisterInternalConnection(t) ==
    /\ Idle(t)
    /\ Call(t, "register")
    /\ LET c == Arg(t) IN
       \/ UNCHANGED <<listVars, watchVars>>
       \/ /\ im_fd_info' = Append(im_fd_info, c)
          /\ watch_data' = FirstData(c)
          /\ CacheAdd(Append(im_fd_info, c))
          /\ most' = Max({most, Len(im_fd_info) + 1})
          /\ told' = [w \in Watchers |->
                 IF Contains(conn_watchers, w) THEN told[w] \cup {c} ELSE told[w]]
          /\ UNCHANGED <<conn_watchers, misled, intact>>
    /\ UNCHANGED <<proc_conni, conn_local, overtaken>>

\* The first place of x in a list, and the list without that element.
Place(list, x) == Min({i \in DOMAIN list : list[i] = x})
Unlinked(list, x) == IF Contains(list, x) THEN RemoveAt(list, Place(list, x)) ELSE list

\* _XUnregisterInternalConnection
UnregisterInternalConnection(t) ==
    /\ Call(t, "unregister")
    /\ LET c == Arg(t)
           list == Unlinked(im_fd_info, c) IN
       /\ im_fd_info' = list
       /\ CacheDel(list)
       /\ IF Contains(im_fd_info, c)
          THEN /\ told' = [w \in Watchers |->
                      IF Contains(conn_watchers, w) THEN told[w] \ {c} ELSE told[w]]
               /\ misled' = (misled \/ \E i \in 1..Len(conn_watchers) :
                      ~Holds(watch_data[c], i, conn_watchers[i]))
               /\ watch_data' = [watch_data EXCEPT ![c] = <<>>]
          ELSE UNCHANGED <<told, misled, watch_data>>
    /\ UNCHANGED <<most, conn_watchers, intact, proc_conni, conn_local, overtaken>>

(***************************************************************************)
(* Watchers come and go.                                                   *)
(***************************************************************************)
MutNotCalled(w) == UNCHANGED told
CalledForAll(w) == told' = [told EXCEPT ![w] = ToSet(im_fd_info)]

\* XAddConnectionWatch.  The arrays are made longer one by one, so that some
\* are when there is no memory for the rest.
AddConnectionWatch(t) ==
    /\ Idle(t)
    /\ Call(t, "watch")
    /\ LET w == Arg(t)
           n == Len(conn_watchers) + 1
           Longer(k) == [c \in Connections |->
               IF Contains(SubSeq(im_fd_info, 1, k), c)
               THEN Resized(watch_data[c], n) ELSE watch_data[c]] IN
       \/ /\ \E k \in 0..Len(im_fd_info) : watch_data' = Longer(k)
          /\ UNCHANGED watchVars
       \/ /\ conn_watchers' = Append(conn_watchers, w)
          /\ watch_data' = [c \in Connections |->
                 IF Contains(im_fd_info, c)
                 THEN Stored(Longer(Len(im_fd_info))[c], n, w) ELSE watch_data[c]]
          /\ CalledForAll(w)
          /\ intact' = IF intact = n - 1 THEN n ELSE intact
          /\ UNCHANGED misled
    /\ UNCHANGED <<im_fd_info, pollfds, overrun, most, proc_conni, conn_local, overtaken>>

\* XRemoveConnectionWatch
RemoveConnectionWatch(t) ==
    /\ Idle(t)
    /\ Call(t, "unwatch")
    /\ LET w == Arg(t) IN
       IF ~Contains(conn_watchers, w) THEN UNCHANGED <<listVars, watchVars>>
       ELSE LET i == Place(conn_watchers, w)
                n == Len(conn_watchers) - i IN
            /\ conn_watchers' = Unlinked(conn_watchers, w)
            /\ watch_data' = [c \in Connections |->
                   IF Contains(im_fd_info, c)
                   THEN MovedDown(watch_data[c], i, n) ELSE watch_data[c]]
            /\ told' = [told EXCEPT ![w] = {}]
            /\ intact' = Min({intact, i - 1})
            /\ UNCHANGED <<im_fd_info, pollfds, overrun, most, misled>>
    /\ UNCHANGED <<proc_conni, conn_local, overtaken>>

(***************************************************************************)
(* Callbacks.                                                              *)
(***************************************************************************)
\* The first part of _XProcessInternalConnection: it sets the flag, unlocks
\* and calls the callback of c, for the application or from the loop, which
\* goes on with the rest of the list.
Process(t, c, at, rest, readable) ==
    /\ proc_conni' = TRUE
    /\ conn_local' = [conn_local EXCEPT
           ![t] = [at |-> at, fd |-> c, rest |-> rest, readable |-> readable]]

MutFlagKept == TRUE
FlagCleared == FALSE

\* Its last part: t's callback has returned and the flag is cleared, also when
\* another thread is in a callback of its loop.
Returned(t) ==
    overtaken' = (overtaken \/ \E u \in ConnThreads \ {t} : conn_local[u].at = "Loop")

\* XProcessInternalConnection
ProcessInternalConnection(t) ==
    /\ Idle(t)
    /\ Call(t, "process")
    /\ IF Contains(im_fd_info, Arg(t)) THEN Process(t, Arg(t), "Callback", <<>>, {})
       ELSE UNCHANGED <<proc_conni, conn_local>>
    /\ UNCHANGED <<listVars, watchVars, overtaken>>

\* What check_internal_connections tests first.
MutAlwaysPolled == im_fd_info # <<>>
Polled == ~proc_conni /\ im_fd_info # <<>>

After(list, c) == SubSeq(list, Place(list, c) + 1, Len(list))

\* The loop over a list, up to the first readable connection.
Loop(t, list, readable) ==
    IF ToSet(list) \cap readable = {}
    THEN /\ conn_local' = [conn_local EXCEPT ![t] = [at |-> "Idle"]]
         /\ proc_conni' = FlagCleared
    ELSE LET c == list[Min({i \in DOMAIN list : list[i] \in readable})] IN
         Process(t, c, "Loop", After(list, c), readable \ {c})

\* check_internal_connections, up to the first callback.
CheckInternalConnections(t) ==
    /\ Idle(t)
    /\ Call(t, "check")
    /\ IF Polled
       THEN \E readable \in SUBSET ToSet(im_fd_info) : Loop(t, im_fd_info, readable)
       ELSE UNCHANGED <<conn_local, proc_conni>>
    /\ UNCHANGED <<listVars, watchVars, overtaken>>

\* The callback has returned, the display is locked again, and the flag is
\* cleared.  The loop follows the element, which may be gone by now: what it
\* then reads is undefined, here the end of the list or what used to follow.
AfterCallback(t) ==
    /\ conn_local[t].at = "Callback"
    /\ proc_conni' = FlagCleared
    /\ conn_local' = [conn_local EXCEPT ![t] = [at |-> "Idle"]]
    /\ Returned(t)
    /\ UNCHANGED <<listVars, watchVars, conn_script>>

AfterCallbackInLoop(t) ==
    /\ conn_local[t].at = "Loop"
    /\ LET c == conn_local[t].fd
           registered ==
               SelectSeq(conn_local[t].rest, LAMBDA x : Contains(im_fd_info, x))
           lists == IF Contains(im_fd_info, c) THEN {After(im_fd_info, c)}
                    ELSE {<<>>, registered} IN
       \E list \in lists : Loop(t, list, conn_local[t].readable)
    /\ Returned(t)
    /\ UNCHANGED <<listVars, watchVars, conn_script>>

ConnNext == \E t \in ConnThreads :
    \/ RegisterInternalConnection(t)
    \/ UnregisterInternalConnection(t)
    \/ AddConnectionWatch(t)
    \/ RemoveConnectionWatch(t)
    \/ ProcessInternalConnection(t)
    \/ CheckInternalConnections(t)
    \/ AfterCallback(t)
    \/ AfterCallbackInLoop(t)

ConnSpec == ConnInit /\ [][ConnNext]_connVars

ConnStopped == \A t \in ConnThreads : conn_script[t] = <<>> /\ Idle(t)

(***************************************************************************)
(* Properties.                                                             *)
(***************************************************************************)
ConnTypeOK ==
    /\ im_fd_info \in Seq(Connections) /\ conn_watchers \in Seq(Watchers)
    /\ \A c \in Connections : watch_data[c] \in Seq(Watchers \cup {None})
    /\ DOMAIN pollfds = CacheEntries /\ most \in Nat
    /\ told \in [Watchers -> SUBSET Connections]
    /\ intact \in 0..Len(conn_watchers)
    /\ \A t \in ConnThreads : conn_local[t].at \in {"Idle", "Callback", "Loop"}
    /\ {proc_conni, overrun, misled, overtaken} \subseteq BOOLEAN

\* Each watcher knows just the connections that are open, whatever the order in
\* which connections and watchers came and went and whichever call was short of
\* memory.
WatchersInformed ==
    \A w \in ToSet(conn_watchers) : told[w] = ToSet(im_fd_info)

\* The slot of each watcher holds that watcher's pointer, for the watchers that
\* stand before any that was removed.
WatchDataKept ==
    \A c \in ToSet(im_fd_info), i \in 1..intact : Holds(watch_data[c], i, conn_watchers[i])

\* A watcher that is told of the end of a connection finds the pointer that it
\* stored at its beginning (specs/libX11/CH02.xml:3446).
WatchDataHeld == ~misled

\* The flag keeps threads out of the polling loop while one is in it: two are
\* there at a time only after a callback has returned to some other thread, by
\* XProcessInternalConnection, and cleared the flag under the first.
OnePoller ==
    ~overtaken => Cardinality({t \in ConnThreads : conn_local[t].at = "Loop"}) <= 1

\* It is not so without that condition: XProcessInternalConnection is to be
\* called by an application that polls the descriptors itself.
OnePollerAlways == Cardinality({t \in ConnThreads : conn_local[t].at = "Loop"}) <= 1

\* The flag is never left behind: if it is set, a thread is in a callback that
\* will clear it, so that the connections go on to be polled.
PollingGoesOn == proc_conni => \E t \in ConnThreads : conn_local[t].at # "Idle"

\* The entries of the cache agree with the list whenever that fits behind the
\* display's own entry, also after it has been longer; nothing is written behind
\* the cache until there are as many connections as it has entries.
PollCacheCurrent ==
    /\ Len(im_fd_info) < PollfdCacheSize =>
          \A i \in DOMAIN im_fd_info : pollfds[i] = im_fd_info[i]
    /\ overrun => most >= PollfdCacheSize

\* But then it is: the tests of the two functions admit one connection too many.
WithinCache == ~overrun

\* What is kept for polling is right: the flag, by which alone
\* check_internal_connections decides, and the cache, which nobody reads.
PollingTrue == OnePoller /\ PollingGoesOn /\ PollCacheCurrent
=============================================================================
