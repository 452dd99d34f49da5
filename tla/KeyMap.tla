------------------------------- MODULE KeyMap -------------------------------
(***************************************************************************)
(* The keyboard description that Xlib and its applications keep of a       *)
(* server's keyboard (XKBMAlloc.c, XKBMisc.c, XKBGetMap.c): types with     *)
(* their numbers of levels, and for each key its groups' types, its        *)
(* symbols and its actions.  The symbols of all keys share one array, the  *)
(* actions another; a key has a place in each, and is moved to the end, or *)
(* the array is packed into a new one, when the key needs more room.       *)
(*                                                                         *)
(* An action is known by the symbol it comes from.  What the calls and the *)
(* server's replies say of each key is in `symbols' and `actions'.  The    *)
(* calls are made without the record in which they would note changes, and *)
(* memory does not run out here.                                           *)
(***************************************************************************)
EXTENDS CoreSymbols, SequencesExt, TLC

CONSTANTS
    Keycodes,           \* the keycodes that are used, an interval
    Keyboards,          \* descriptions that the server may have
    ServerTypes,        \* the levels of its types, a function on 0 .. n
    Explicit,           \* for each key the groups whose type is explicit
    Interpreted,        \* the symbols that the compatibility map gives an action
    ExplicitInterpret,  \* the keys whose actions are explicit: the map leaves them
                        \* alone; every key, if there is no compatibility map
    TypeChanges,        \* what may be asked of XkbChangeTypesOfKey
    CoreMaps,           \* what a key may be given by XkbUpdateMapFromCore
    SymsGrowth, SymsBlock, ActsSpare,   \* 32, 128 and 8 in the code
    MostEdits

VARIABLES
    xkb,                \* the description
    symbols, actions,   \* what each key should have: a sequence of groups, each of which
                        \* is a sequence over the levels
    core,               \* the core symbols a key was last given, or <<>>
    widened, outgrown,  \* whether XkbResizeKeyType has laid out the keys again, and
                        \* whether a key's actions may have outgrown their place
    edits

keymapVars == <<xkb, symbols, actions, core, widened, outgrown, edits>>

Keys(x) == x.min_key_code .. x.max_key_code
NumGroups(x, key) == x.key_sym_map[key].groups
GroupsWidth(x, key) == x.key_sym_map[key].width
NumSyms(x, key) == NumGroups(x, key) * GroupsWidth(x, key)
TypeIndex(x, key, g) == x.key_sym_map[key].kt_index[g]
Levels(x, key, g) == x.types[TypeIndex(x, key, g)]
Offset(x, key) == x.key_sym_map[key].offset
HasActions(x, key) == x.key_acts[key] # 0

(***************************************************************************)
(* Arrays: functions from 0 .. size - 1.  A read beyond the end finds      *)
(* Garbage, and a write beyond it is lost.                                 *)
(***************************************************************************)
Zeroed(size) == [p \in 0 .. size - 1 |-> NoSymbol]
Size(array) == Cardinality(DOMAIN array)
Entry(array, p) == IF p \in DOMAIN array THEN array[p] ELSE Garbage
Slice(array, at, n) == [i \in 1 .. n |-> Entry(array, at + i - 1)]
Put(array, at, seq) ==
    [p \in (at .. at + Len(seq) - 1) \cap DOMAIN array |-> seq[p - at + 1]] @@ array

PutAll(array, writes) == FoldLeft(LAMBDA a, w : Put(a, w.at, w.seq), array, writes)

KeySyms(x, key) == Slice(x.syms, Offset(x, key), NumSyms(x, key))
KeyActs(x, key) == Slice(x.acts, x.key_acts[key], NumSyms(x, key))

\* At most, or filled up to, n entries.
Fitted(seq, n) == [i \in 1 .. n |-> IF i \in DOMAIN seq THEN seq[i] ELSE NoSymbol]

\* Other places for the symbols of some keys.
Moved(x, places) ==
    [k \in DOMAIN places |-> [x.key_sym_map[k] EXCEPT !.offset = places[k]]] @@ x.key_sym_map

\* Sequences packed one behind the other from place 1.
PlaceOf(contents, key) ==
    1 + SumFunctionOnSet([k \in DOMAIN contents |-> Len(contents[k])],
                         {k \in DOMAIN contents : k < key})

Packed(contents, size) ==
    PutAll(Zeroed(size),
           SetToSeq({[at |-> PlaceOf(contents, k), seq |-> contents[k]] : k \in DOMAIN contents}))

TotalLength(contents) == SumFunction([k \in DOMAIN contents |-> Len(contents[k])])

(***************************************************************************)
(* Room for the symbols, and for the actions, of a key.                    *)
(***************************************************************************)
XkbResizeKeySyms(x, key, needed) ==
    LET old == NumSyms(x, key)
        room == Size(x.syms) - x.num_syms >= needed
        listed == {k \in Keys(x) : NumSyms(x, k) # 0 \/ k = key}
        contents == [k \in listed |->
            IF k = key THEN Fitted(KeySyms(x, k), needed) ELSE KeySyms(x, k)]
    IN  CASE needed = 0 -> [x EXCEPT !.key_sym_map[key].offset = 0]
          [] needed > 0 /\ old >= needed -> x
          [] needed > old /\ room ->
                 [x EXCEPT !.syms = Put(x.syms, x.num_syms, Fitted(KeySyms(x, key), needed)),
                           !.key_sym_map[key].offset = x.num_syms,
                           !.num_syms = x.num_syms + needed]
          [] needed > old /\ ~room ->
                 [x EXCEPT !.syms = Packed(contents, Size(x.syms) + Max({needed, SymsGrowth})),
                           !.key_sym_map = Moved(x, [k \in listed |-> PlaceOf(contents, k)]),
                           !.num_syms = 1 + TotalLength(contents)]

\* A mutant: the actions that the key has are not asked for.
MutAlwaysFits(x, key, needed) ==
    IF needed = 0 THEN [x EXCEPT !.key_acts[key] = 0]
    ELSE IF HasActions(x, key) \/ Size(x.acts) - x.num_acts < needed THEN x
    ELSE [x EXCEPT !.key_acts[key] = x.num_acts, !.num_acts = x.num_acts + needed]

XkbResizeKeyActions(x, key, needed) ==
    LET fits == HasActions(x, key) /\ NumSyms(x, key) >= needed
        room == Size(x.acts) - x.num_acts >= needed
        own(k) == IF HasActions(x, k) THEN KeyActs(x, k) ELSE <<>>
        listed == {k \in Keys(x) : HasActions(x, k) \/ k = key}
        contents == [k \in listed |-> IF k = key THEN Fitted(own(k), needed) ELSE own(k)]
    IN  CASE needed = 0 -> [x EXCEPT !.key_acts[key] = 0]
          [] needed > 0 /\ fits -> x
          [] needed > 0 /\ ~fits /\ room ->
                 [x EXCEPT !.key_acts[key] = x.num_acts, !.num_acts = x.num_acts + needed]
          [] needed > 0 /\ ~fits /\ ~room ->
                 [x EXCEPT !.acts = Packed(contents, x.num_acts + needed + ActsSpare),
                           !.key_acts = [k \in listed |-> PlaceOf(contents, k)] @@ @,
                           !.num_acts = 1 + TotalLength(contents)]

-----------------------------------------------------------------------------
(***************************************************************************)
(* The server's description of a key: its groups' types, its symbols and   *)
(* its actions by group and level, and what to do with a group that the    *)
(* key does not have.  On the wire every group has the width of the        *)
(* widest.                                                                 *)
(***************************************************************************)
WireWidth(key) == Max({0} \cup {ServerTypes[key.types[g]] : g \in DOMAIN key.types})
Wire(key, groups) == FlattenSeq([g \in DOMAIN groups |-> Fitted(groups[g], WireWidth(key))])

SymMap(key, offset) ==
    [kt_index |-> [g \in Groups |-> IF g + 1 \in DOMAIN key.types THEN key.types[g + 1] ELSE 0],
     groups |-> Len(key.types), width |-> WireWidth(key),
     outside |-> key.outside, offset |-> offset]

\* A key of the reply, when there are symbols already.
ReadKey(x, k, key) ==
    LET wire == Wire(key, key.syms)
        room == XkbResizeKeySyms(x, k, Len(wire))
        offset == Offset(room, k)
    IN  [room EXCEPT
           !.syms = Put(room.syms, offset, IF wire = <<>> THEN <<NoSymbol>> ELSE wire),
           !.key_sym_map[k] = SymMap(key, offset)]

ReadActions(x, k, key) ==
    LET wire == Wire(key, key.acts)
        room == XkbResizeKeyActions(x, k, Len(wire))
    IN  IF wire = <<>> THEN [x EXCEPT !.key_acts[k] = 0]
        ELSE [room EXCEPT !.acts = Put(room.acts, room.key_acts[k], wire)]

Ascending(first, last) == [i \in 1 .. last - first + 1 |-> first + i - 1]

_XkbReadKeySyms(x, board, first, last) ==
    FoldLeft(LAMBDA y, k : ReadKey(y, k, board[k]), x, Ascending(first, last))

_XkbReadKeyActions(x, board, first, last) ==
    FoldLeft(LAMBDA y, k : ReadActions(y, k, board[k]), x, Ascending(first, last))

\* XkbGetMap: the first reply finds no arrays.
Loaded(board) ==
    LET contents == [k \in DOMAIN board |-> Wire(board[k], board[k].syms)]
        total == TotalLength(contents)
        block == SymsBlock * (((total * 12) \div 10 + SymsBlock) \div SymsBlock)
        size == IF 1 + total >= block THEN block + SymsBlock ELSE block
        totalActs == TotalLength([k \in DOMAIN board |-> Wire(board[k], board[k].acts)])
        codes == DOMAIN board
    IN  _XkbReadKeyActions(
            [min_key_code |-> Min(codes), max_key_code |-> Max(codes), types |-> ServerTypes,
             key_sym_map |-> [k \in codes |-> SymMap(board[k], PlaceOf(contents, k))],
             syms |-> Packed(contents, size), num_syms |-> 1 + total,
             key_acts |-> [k \in codes |-> 0],
             acts |-> Zeroed(1 + Max({1, totalActs})), num_acts |-> 1],
            board, Min(codes), Max(codes))

Rows(key, groups) == [g \in DOMAIN groups |-> Fitted(groups[g], WireWidth(key))]

Init ==
    \E board \in Keyboards :
        /\ xkb = Loaded(board)
        /\ symbols = [k \in DOMAIN board |-> Rows(board[k], board[k].syms)]
        /\ actions = [k \in DOMAIN board |-> Rows(board[k], board[k].acts)]
        /\ core = [k \in DOMAIN board |-> <<>>]
        /\ widened = FALSE /\ outgrown = FALSE
        /\ edits = 0

\* After a relayout by XkbResizeKeyType nothing more is asked of the description.
Edit == edits < MostEdits /\ ~widened /\ edits' = edits + 1

-----------------------------------------------------------------------------
(***************************************************************************)
(* XkbGetUpdatedMap, for all keys with the types, or XkbGetKeySyms and     *)
(* XkbGetKeyActions for some, when the types are those of the server.  The *)
(* keycodes become the server's, which are none that the arrays have not.  *)
(* The reply's symbols are read, with the new shape of the keys, before    *)
(* its actions.                                                            *)
(***************************************************************************)
Ranged(x, codes) == [x EXCEPT !.min_key_code = Min(codes), !.max_key_code = Max(codes)]

GetMap ==
    \E board \in Keyboards : \E first, last \in DOMAIN board :
        LET codes == first .. last
            ranged == Ranged([xkb EXCEPT !.types = ServerTypes], DOMAIN board)
            read == _XkbReadKeySyms(ranged, board, first, last)
        IN  /\ Edit /\ first <= last /\ DOMAIN board \subseteq Keys(xkb)
            /\ xkb.types = ServerTypes \/ codes = DOMAIN board
            /\ xkb' = _XkbReadKeyActions(read, board, first, last)
            /\ symbols' = [k \in codes |-> Rows(board[k], board[k].syms)] @@ symbols
            /\ actions' = [k \in codes |-> Rows(board[k], board[k].acts)] @@ actions
            /\ core' = [k \in codes |-> <<>>] @@ core
            /\ outgrown' = (outgrown \/ \E k \in codes :
                   /\ HasActions(xkb, k) /\ board[k].acts # <<>>
                   /\ NumSyms(read, k) > NumSyms(xkb, k))
            /\ UNCHANGED widened

(***************************************************************************)
(* Another number of groups, or other types, for a key.                    *)
(***************************************************************************)
NewType(x, key, change, g) ==
    IF g \in change.groups THEN change.types[g]
    ELSE IF NumGroups(x, key) = 0 THEN XkbTwoLevelIndex
    ELSE TypeIndex(x, key, IF g < NumGroups(x, key) THEN g ELSE 0)

NewWidth(x, key, change) ==
    Max({0} \cup {x.types[NewType(x, key, change, g)] : g \in 0 .. change.nGroups - 1})

\* The levels of group g that the old and the new type both have, in rows of
\* the new width.
Kept(x, key, change, row, g) ==
    LET old == Levels(x, key, g)
        new == x.types[NewType(x, key, change, g)]
    IN  Fitted(SubSeq(row, 1, IF new > old THEN old ELSE new), NewWidth(x, key, change))

\* A mutant: the old symbols are looked for at multiples of the new width.
MutNewStride(x, key, change, flat) ==
    LET width == NewWidth(x, key, change)
        old(g) == [l \in 1 .. GroupsWidth(x, key) |->
                      IF g * width + l \in DOMAIN flat THEN flat[g * width + l] ELSE NoSymbol]
    IN  FlattenSeq([i \in 1 .. change.nGroups |->
            IF i <= NumGroups(x, key) THEN Kept(x, key, change, old(i - 1), i - 1)
            ELSE Fitted(<<>>, width)])

Reshaped(x, key, change, flat) ==
    LET width == GroupsWidth(x, key)
        row(g) == IF g < NumGroups(x, key)
                  THEN Kept(x, key, change, SubSeq(flat, g * width + 1, (g + 1) * width), g)
                  ELSE Fitted(<<>>, NewWidth(x, key, change))
    IN  FlattenSeq([i \in 1 .. change.nGroups |-> row(i - 1)])

\* The key with the new groups and types.
Typed(x, key, change) ==
    [x EXCEPT !.key_sym_map[key].groups = change.nGroups,
              !.key_sym_map[key].width = NewWidth(x, key, change),
              !.key_sym_map[key].kt_index =
                  [g \in Groups |-> IF g < change.nGroups THEN NewType(x, key, change, g)
                             ELSE TypeIndex(x, key, g)]]

SameShape(x, key, change) ==
    NewWidth(x, key, change) = GroupsWidth(x, key) /\ change.nGroups = NumGroups(x, key)

XkbChangeTypesOfKey(x, key, change) ==
    LET needed == NewWidth(x, key, change) * change.nGroups
        roomy == XkbResizeKeySyms(x, key, needed)
        reshaped == [roomy EXCEPT !.syms =
            Put(roomy.syms, Offset(roomy, key), Reshaped(x, key, change, KeySyms(x, key)))]
        acting == XkbResizeKeyActions(reshaped, key, needed)
        withActions == [acting EXCEPT !.acts =
            Put(acting.acts, acting.key_acts[key], Reshaped(x, key, change, KeyActs(x, key)))]
        typed(y) == [y EXCEPT !.key_sym_map[key] =
            [Typed(x, key, change).key_sym_map[key] EXCEPT !.offset = Offset(y, key)]]
    IN  CASE change.nGroups = 0 ->
                 [x EXCEPT !.key_sym_map[key].groups = 0,
                           !.key_sym_map[key].kt_index = [g \in Groups |-> XkbOneLevelIndex],
                           !.key_sym_map[key].offset = 0]
          [] change.nGroups > 0 /\ SameShape(x, key, change) -> typed(x)
          [] change.nGroups > 0 /\ ~SameShape(x, key, change) ->
                 IF NumGroups(x, key) = 0 THEN typed(roomy)
                 ELSE IF HasActions(x, key) THEN typed(withActions) ELSE typed(reshaped)

\* The rows that the call should leave.
ReshapedRows(x, key, change, rows) ==
    IF change.nGroups > 0 /\ SameShape(x, key, change) THEN rows
    ELSE [i \in 1 .. change.nGroups |->
             IF i <= NumGroups(x, key) THEN Kept(x, key, change, rows[i], i - 1)
             ELSE Fitted(<<>>, NewWidth(x, key, change))]

ReshapedActions(x, key, change, rows) ==
    IF rows = <<>> THEN rows ELSE ReshapedRows(x, key, change, rows)

\* A key that had no groups keeps the place of its actions.
Outgrows(x, key, change) ==
    NumGroups(x, key) = 0 /\ HasActions(x, key) /\ change.nGroups > 0

ChangeTypes ==
    \E key \in Keys(xkb), change \in TypeChanges :
        /\ Edit
        /\ xkb' = XkbChangeTypesOfKey(xkb, key, change)
        /\ symbols' = [symbols EXCEPT ![key] = ReshapedRows(xkb, key, change, @)]
        /\ actions' = [actions EXCEPT ![key] = ReshapedActions(xkb, key, change, @)]
        /\ core' = [core EXCEPT ![key] = <<>>]
        /\ outgrown' = (outgrown \/ Outgrows(xkb, key, change))
        /\ UNCHANGED widened

-----------------------------------------------------------------------------
(***************************************************************************)
(* Another number of levels for a type.  When a key must grow all symbols  *)
(* are laid out again, in an array whose size leaves out the keys that are *)
(* narrower than the type was; the width of the keys stays.                *)
(***************************************************************************)
HasType(x, key, t) ==
    /\ GroupsWidth(x, key) >= x.types[t]
    /\ \E g \in 0 .. NumGroups(x, key) - 1 : TypeIndex(x, key, g) = t

MustGrow(x, t, levels) ==
    IF levels > x.types[t]
    THEN {k \in Keys(x) : HasType(x, k, t) /\ GroupsWidth(x, k) < levels} ELSE {}

\* Rows of the old width at multiples of the new number of levels, last row first.
Strided(x, key, at, levels) ==
    [i \in 1 .. NumGroups(x, key) |->
        LET g == NumGroups(x, key) - i
        IN  [at |-> at + levels * g,
             seq |-> SubSeq(KeySyms(x, key), GroupsWidth(x, key) * g + 1,
                            GroupsWidth(x, key) * (g + 1))]]

Relaid(x, t, levels) ==
    LET counted == {k \in Keys(x) : GroupsWidth(x, k) >= x.types[t]}
        grown == MustGrow(x, t, levels)
        nTotal == 1 + SumFunctionOnSet(
            [k \in counted |-> IF k \in grown THEN NumGroups(x, k) * levels ELSE NumSyms(x, k)],
            counted)
        length == [k \in Keys(x) |->
            IF HasType(x, k, t) THEN NumGroups(x, k) * levels ELSE NumSyms(x, k)]
        place(k) == 1 + SumFunctionOnSet(length, {j \in Keys(x) : j < k})
        writes(k) == IF HasType(x, k, t) THEN Strided(x, k, place(k), levels)
                     ELSE <<[at |-> place(k), seq |-> KeySyms(x, k)]>>
    IN  [x EXCEPT
           !.syms = FoldLeft(LAMBDA array, k : PutAll(array, writes(k)),
                             Zeroed((nTotal * 12) \div 10),
                             Ascending(x.min_key_code, x.max_key_code)),
           !.key_sym_map = Moved(x, [k \in Keys(x) |-> place(k)]),
           !.num_syms = place(x.max_key_code) + length[x.max_key_code]]

\* The levels that the type had not, or has no longer, in rows of its groups.
Cleared(x, key, t, levels, g, row) ==
    LET firstClear == IF levels > x.types[t] THEN x.types[t] ELSE levels
    IN  IF HasType(x, key, t) /\ TypeIndex(x, key, g) = t
        THEN Fitted(SubSeq(row, 1, firstClear), Len(row)) ELSE row

ClearedRows(x, key, t, levels, rows) ==
    [i \in DOMAIN rows |-> Cleared(x, key, t, levels, i - 1, rows[i])]

RowsOf(x, key) ==
    [i \in 1 .. NumGroups(x, key) |->
        SubSeq(KeySyms(x, key), GroupsWidth(x, key) * (i - 1) + 1, GroupsWidth(x, key) * i)]

XkbResizeKeyType(x, t, levels) ==
    LET cleared == FoldLeft(
            LAMBDA array, k : Put(array, Offset(x, k),
                FlattenSeq(ClearedRows(x, k, t, levels, RowsOf(x, k)))),
            x.syms, SetToSeq({k \in Keys(x) : HasType(x, k, t)}))
    IN  CASE MustGrow(x, t, levels) # {} -> [Relaid(x, t, levels) EXCEPT !.types[t] = levels]
          [] MustGrow(x, t, levels) = {} /\ levels # x.types[t] ->
                 [x EXCEPT !.syms = cleared, !.types[t] = levels]
          [] levels = x.types[t] -> x

ResizeType ==
    \E t \in DOMAIN xkb.types, levels \in 1 .. 4 :
        /\ Edit
        /\ t > XkbKeypadIndex               \* the required types keep their levels
        /\ xkb' = XkbResizeKeyType(xkb, t, levels)
        /\ symbols' = [k \in DOMAIN symbols |->
               IF levels # xkb.types[t] THEN ClearedRows(xkb, k, t, levels, symbols[k])
               ELSE symbols[k]]
        /\ widened' = (MustGrow(xkb, t, levels) # {})
        /\ core' = [k \in DOMAIN core |-> IF HasType(xkb, k, t) THEN <<>> ELSE core[k]]
        /\ UNCHANGED <<actions, outgrown>>

-----------------------------------------------------------------------------
(***************************************************************************)
(* The symbols of some keys in the order of the core protocol.             *)
(***************************************************************************)
\* Of the interpretations only whether one gives the symbol an action is known.
XkbApplyCompatMapToKey(x, key) ==
    LET syms == KeySyms(x, key)
        roomy == XkbResizeKeyActions(x, key, Len(syms))
        acts == [n \in DOMAIN syms |-> IF syms[n] \in Interpreted THEN syms[n] ELSE NoSymbol]
    IN  CASE key \in ExplicitInterpret -> x
          [] key \notin ExplicitInterpret /\ ToSet(syms) \cap Interpreted = {} ->
                 [x EXCEPT !.key_acts[key] = 0]
          [] key \notin ExplicitInterpret /\ ToSet(syms) \cap Interpreted # {} ->
                 [roomy EXCEPT !.acts = Put(roomy.acts, roomy.key_acts[key], acts)]

Types(x, key) == x.key_sym_map[key].kt_index

Grouped(x, key, list) ==
    XkbKeyTypesForCoreSymbols(x.types, list, Explicit[key], Types(x, key))

Change(grouped) == [nGroups |-> grouped.nGroups, groups |-> Groups, types |-> grouped.types]

\* A key of XkbUpdateMapFromCore.
FromCore(x, key, grouped) ==
    LET typed == XkbChangeTypesOfKey(x, key, Change(grouped))
        tsyms == [i \in 1 .. NumSyms(typed, key) |-> grouped.syms[i - 1]]
    IN  XkbApplyCompatMapToKey(
            [typed EXCEPT !.syms = Put(typed.syms, Offset(typed, key), tsyms)], key)

\* The rows of the key that this should leave.
CoreRows(x, key, grouped) ==
    LET width == NewWidth(x, key, Change(grouped))
    IN  [i \in 1 .. grouped.nGroups |-> [l \in 1 .. width |-> grouped.syms[(i - 1) * width + l - 1]]]

ActedRows(rows) ==
    IF \A i \in DOMAIN rows : ToSet(rows[i]) \cap Interpreted = {} THEN <<>>
    ELSE [i \in DOMAIN rows |-> [l \in DOMAIN rows[i] |->
             IF rows[i][l] \in Interpreted THEN rows[i][l] ELSE NoSymbol]]

UpdateFromCore ==
    \E first, last \in Keys(xkb), core_keysyms \in CoreMaps :
        LET codes == first .. last
            grouped == [k \in codes |-> Grouped(xkb, k, core_keysyms[k])]
            rows == [k \in codes |-> CoreRows(xkb, k, grouped[k])]
        IN  /\ Edit /\ first <= last
            /\ xkb' = FoldLeft(LAMBDA x, k : FromCore(x, k, grouped[k]), xkb, Ascending(first, last))
            /\ symbols' = rows @@ symbols
            /\ actions' = [k \in codes |->
                   IF k \in ExplicitInterpret
                   THEN ReshapedActions(xkb, k, Change(grouped[k]), actions[k])
                   ELSE ActedRows(rows[k])] @@ actions
            /\ core' = [k \in codes |-> core_keysyms[k]] @@ core
            /\ outgrown' = (outgrown \/ \E k \in codes : Outgrows(xkb, k, Change(grouped[k])))
            /\ UNCHANGED widened

-----------------------------------------------------------------------------
(***************************************************************************)
(* More keycodes: the new keys have no groups.                             *)
(***************************************************************************)
NewKey ==
    [kt_index |-> [g \in Groups |-> 0], groups |-> 0, width |-> 0, outside |-> "wrap", offset |-> 0]

Extended(f, codes, new) == [k \in codes |-> IF k \in Keys(xkb) THEN f[k] ELSE new]

ChangeKeycodeRange ==
    \E minKC, maxKC \in Keycodes :
        LET codes == (IF minKC < xkb.min_key_code THEN minKC ELSE xkb.min_key_code) ..
                     (IF maxKC > xkb.max_key_code THEN maxKC ELSE xkb.max_key_code)
        IN  /\ Edit /\ minKC <= maxKC /\ codes # Keys(xkb)
            /\ xkb' = [Ranged(xkb, codes) EXCEPT
                          !.key_sym_map = Extended(@, codes, NewKey),
                          !.key_acts = Extended(@, codes, 0)]
            /\ symbols' = Extended(symbols, codes, <<>>)
            /\ actions' = Extended(actions, codes, <<>>)
            /\ core' = Extended(core, codes, <<>>)
            /\ UNCHANGED <<widened, outgrown>>

KeymapNext == GetMap \/ ChangeTypes \/ ResizeType \/ UpdateFromCore \/ ChangeKeycodeRange

-----------------------------------------------------------------------------
(***************************************************************************)
(* Lookups (XKBBind.c).                                                    *)
(***************************************************************************)
XkbKeycodeToKeysym(x, kc, group, level) ==
    LET width == Levels(x, kc, group)
        single == group <= 1 /\ width = 1 /\ level = 1
    IN  IF kc \notin Keys(x) \/ group >= NumGroups(x, kc) THEN NoSymbol
        ELSE IF level >= width /\ ~single THEN NoSymbol
        ELSE Entry(x.syms, Offset(x, kc) + group * GroupsWidth(x, kc) + (IF single THEN 0 ELSE level))

\* The group that a key uses for the group of the keyboard's state.
EffectiveGroup(x, key, group) ==
    LET n == NumGroups(x, key)
        outside == x.key_sym_map[key].outside
    IN  CASE group < n -> group
          [] group >= n /\ outside = "wrap" -> group % n
          [] group >= n /\ outside = "clamp" -> n - 1
          [] group >= n /\ outside \in Groups -> IF outside >= n THEN 0 ELSE outside

\* Of the modifiers only Shift is known, which a type of one level does not use.
XkbTranslateKeyCode(x, key, group, shift) ==
    LET effective == EffectiveGroup(x, key, group)
        level == IF shift /\ Levels(x, key, effective) > 1 THEN 1 ELSE 0
    IN  IF NumGroups(x, key) = 0 THEN NoSymbol
        ELSE Entry(x.syms, Offset(x, key) + effective * GroupsWidth(x, key) + level)

(***************************************************************************)
(* The rule of the core protocol for a list of symbols: of the four first, *)
(* two are for each group; a second group that is empty is as the first,   *)
(* and a single symbol stands for its two cases or for itself twice.       *)
(***************************************************************************)
CorePair(list, group) ==
    LET at(i) == IF i <= Len(list) THEN list[i] ELSE NoSymbol
        own == <<at(2 * group + 1), at(2 * group + 2)>>
        pair == IF own = <<NoSymbol, NoSymbol>> THEN <<at(1), at(2)>> ELSE own
    IN  IF pair[2] = NoSymbol THEN <<Lower(pair[1]), Upper(pair[1])>> ELSE pair

CoreSymbol(list, group, shift) == CorePair(list, group)[IF shift THEN 2 ELSE 1]

(***************************************************************************)
(* Every key shows the symbols, and makes the actions, that the last call  *)
(* for it gave it, whatever calls for other keys have moved; and a key     *)
(* that was given core symbols follows the rule of the core protocol.      *)
(***************************************************************************)
SymbolsTrue ==
    \A k \in Keys(xkb) : KeySyms(xkb, k) = FlattenSeq(symbols[k])

ActionsTrue ==
    \A k \in Keys(xkb) : NumSyms(xkb, k) > 0 =>
        FlattenSeq(actions[k]) = IF HasActions(xkb, k) THEN KeyActs(xkb, k) ELSE <<>>

\* The first two groups have no explicit type, and no explicit type makes the
\* groups wider than two levels: the copy of the first group to the second,
\* when that is empty, is for groups of two.
CoreRuled(k) ==
    core[k] # <<>> /\ Explicit[k] \cap {0, 1} = {} /\ GroupsWidth(xkb, k) <= 2

CoreTrue ==
    \A k \in Keys(xkb) : CoreRuled(k) =>
        \A group \in {0, 1}, shift \in BOOLEAN :
            XkbTranslateKeyCode(xkb, k, group, shift) = CoreSymbol(core[k], group, shift)

\* A key of one level has the same symbol with Shift, as the core protocol has it.
LookupsAgree ==
    \A k \in Keys(xkb), shift \in BOOLEAN : \A g \in {0, 1} : g < NumGroups(xkb, k) =>
        XkbKeycodeToKeysym(xkb, k, g, IF shift THEN 1 ELSE 0) = XkbTranslateKeyCode(xkb, k, g, shift)

KeymapTrue ==
    ~widened => /\ SymbolsTrue /\ CoreTrue /\ LookupsAgree
                /\ ~outgrown => ActionsTrue
=============================================================================
