---------------------------- MODULE CoreSymbols ----------------------------
(***************************************************************************)
(* How the symbols of a key in the order of the core protocol become the   *)
(* groups and types of XKB: XkbKeyTypesForCoreSymbols (XKBMisc.c).         *)
(*                                                                         *)
(* The result is a flat array, as in the code, in which the groups stand   *)
(* at multiples of a width; what the code does not write is Garbage.       *)
(* Types are known by their number of levels.                              *)
(***************************************************************************)
EXTENDS Integers, Sequences, FiniteSets, FiniteSetsExt, Functions

CONSTANTS
    NoSymbol, Garbage,
    UpperOf,            \* a function from the lower-case symbols to their upper case
    KeypadSyms          \* the symbols of the keypad

Groups == 0 .. 3                    \* XkbNumKbdGroups

XkbOneLevelIndex == 0
XkbTwoLevelIndex == 1
XkbAlphabeticIndex == 2
XkbKeypadIndex == 3

Lower(sym) ==
    IF \E low \in DOMAIN UpperOf : UpperOf[low] = sym
    THEN CHOOSE low \in DOMAIN UpperOf : UpperOf[low] = sym
    ELSE sym
Upper(sym) == IF sym \in DOMAIN UpperOf THEN UpperOf[sym] ELSE sym

\* The type of a group that is not protected, by its first two symbols.
TypeFor(first, second) ==
    CASE second = NoSymbol /\ first # NoSymbol /\ Lower(first) = Upper(first) ->
             XkbOneLevelIndex
      [] second = NoSymbol /\ first # NoSymbol /\ Lower(first) # Upper(first) ->
             XkbAlphabeticIndex
      [] second # NoSymbol \/ first = NoSymbol ->
             IF {first, second} \cap KeypadSyms # {} THEN XkbKeypadIndex
             ELSE IF <<first, second>> = <<Lower(first), Upper(first)>>
                  THEN XkbAlphabeticIndex ELSE XkbTwoLevelIndex

(***************************************************************************)
(* Steps 1 and 2: which groups there are, how many symbols each has, and   *)
(* where in the core's order they are.                                     *)
(***************************************************************************)
Arranged(levels, core, protected, kt_index) ==
    LET known == {g \in protected : kt_index[g] \in DOMAIN levels}
        wide == [g \in Groups |-> IF g \in known THEN levels[kt_index[g]] ELSE 2]
        nSyms == [g \in Groups |-> IF g < 2 /\ wide[g] < 2 THEN 2 ELSE wide[g]]
        third == nSyms[0] + nSyms[1]
        nGroups == CASE third >= Len(core) /\ protected \cap {2, 3} = {} -> 2
                     [] third < Len(core) \/ protected \cap {2, 3} # {} ->
                            IF third + nSyms[2] < Len(core) \/ 3 \in protected THEN 4 ELSE 3
        from(g, l) == CASE g = 0 -> IF l < 2 THEN l ELSE 2 + l
                        [] g = 1 -> IF l < 2 THEN 2 + l ELSE nSyms[0] + l
                        [] g = 2 -> third + l
                        [] g = 3 -> third + nSyms[2] + l
        CORE_SYM(i) == IF i < Len(core) THEN core[i + 1] ELSE NoSymbol
    IN  [nGroups |-> nGroups,
         groupsWidth |-> Max({2} \cup {levels[kt_index[g]] : g \in known}),
         nSyms |-> [g \in Groups |-> IF g < nGroups THEN nSyms[g] ELSE 0],
         types |-> [g \in Groups |-> IF g \in known THEN kt_index[g] ELSE XkbTwoLevelIndex],
         syms |-> [g \in Groups |-> [l \in 0 .. nSyms[g] - 1 |-> CORE_SYM(from(g, l))]]]

\* Steps 3 and 4: one symbol stands for its two cases; the types by the symbols.
Expanded(a, protected) ==
    LET convertible(g) ==
            /\ g < a.nGroups /\ a.nSyms[g] > 1
            /\ a.syms[g][1] = NoSymbol /\ a.syms[g][0] # NoSymbol
            /\ Lower(a.syms[g][0]) # Upper(a.syms[g][0])
    IN  [a EXCEPT
           !.syms = [g \in Groups |->
               IF convertible(g)
               THEN [a.syms[g] EXCEPT ![0] = Lower(a.syms[g][0]), ![1] = Upper(a.syms[g][0])]
               ELSE a.syms[g]],
           !.types = [g \in Groups |->
               IF g < a.nGroups /\ g \notin protected
               THEN TypeFor(a.syms[g][0], a.syms[g][1]) ELSE a.types[g]]]

EmptyGroups(a) == {g \in 0 .. a.nGroups - 1 : \A l \in 0 .. a.nSyms[g] - 1 : a.syms[g][l] = NoSymbol}

\* Step 5: empty groups at the end go.
Squeezed(a, protected) ==
    [a EXCEPT !.nGroups =
        Max({0} \cup {g + 1 : g \in (0 .. a.nGroups - 1) \ (EmptyGroups(a) \ protected)})]

\* The groups in an array, at multiples of groupsWidth.
Flat(a) ==
    [a EXCEPT !.syms =
        [p \in 0 .. 4 * a.groupsWidth - 1 |->
            LET g == p \div a.groupsWidth l == p % a.groupsWidth
            IN  IF l < a.nSyms[g] THEN a.syms[g][l] ELSE Garbage]]

\* memcpy of the first n symbols to place at.
FirstCopied(syms, n, at) ==
    [p \in DOMAIN syms |-> IF p \in at .. at + n - 1 THEN syms[p - at] ELSE syms[p]]

\* A mutant: only where the types say that the groups are alike.
MutSameTypeOnly(a, empty, protected) ==
    IF a.nGroups > 1 /\ 1 \in empty /\ 0 \notin empty /\ a.types[0] = a.types[1]
    THEN [a EXCEPT !.syms = FirstCopied(a.syms, a.nSyms[0], a.nSyms[0])] ELSE a

\* Step 6: an empty second group becomes as the first.
Replicated(a, empty, protected) ==
    LET needed == a.nGroups > 1 /\ 1 \in empty /\ 0 \notin empty
    IN  IF needed /\ protected \cap {0, 1} = {}
        THEN [a EXCEPT !.nSyms[1] = a.nSyms[0], !.types[1] = a.types[0],
                       !.syms = FirstCopied(a.syms, 2, 2)]
        ELSE IF needed /\ a.types[0] = a.types[1]
             THEN [a EXCEPT !.syms = FirstCopied(a.syms, a.nSyms[0], a.nSyms[0])]
             ELSE a

\* Step 7: groups that are all alike become one; groups of one symbol each
\* are put together.
Reduced(a, levels, protected) ==
    LET used == 0 .. a.nGroups - 1
        sameType == \A g \in used : a.types[g] = a.types[0]
        allOneLevel == \A g \in used : levels[a.types[g]] = 1
        identical == \A g \in used \ {0} : \A l \in 0 .. a.nSyms[g] - 1 :
                         a.syms[g * a.groupsWidth + l] = a.syms[l]
        before(g) == SumFunctionOnSet(a.nSyms, 0 .. g - 1)
        one == sameType /\ protected \cap {1, 2, 3} = {} /\ identical
    IN  IF a.nGroups > 1 /\ one THEN [a EXCEPT !.nGroups = 1]
        ELSE IF a.nGroups > 1 /\ allOneLevel
             THEN [a EXCEPT !.syms = [p \in DOMAIN a.syms |->
                      IF p \in used \ {0} THEN a.syms[before(p)] ELSE a.syms[p]]]
             ELSE a

XkbKeyTypesForCoreSymbols(levels, core, protected, kt_index) ==
    LET expanded == Expanded(Arranged(levels, core, protected, kt_index), protected)
        squeezed == Squeezed(expanded, protected)
    IN  IF squeezed.nGroups < 1 THEN Flat(squeezed)
        ELSE Reduced(Replicated(Flat(squeezed), EmptyGroups(expanded), protected),
                     levels, protected)
=============================================================================
