-------------------------------- MODULE Xrm --------------------------------
(***************************************************************************)
(* The resource manager (Xrm.c): databases of values for partially         *)
(* specified names, and the search for the one that matches a full name    *)
(* and class best.                                                         *)
(*                                                                         *)
(* A database is a tree of tables.  A node table has tables for the next   *)
(* component, a leaf table has values.  Under one name there are up to     *)
(* four tables, in this order: node tight, node loose, leaf tight, leaf    *)
(* loose; the functions read a table's successors as C code reads a        *)
(* chain.  Left out: the hashing of chains by name and its growth, which   *)
(* keep the order of one name's tables, failing memory, the parsing of     *)
(* resource files, the types of values and the length of a search list.    *)
(***************************************************************************)
EXTENDS Integers, Sequences, FiniteSets, SequencesExt, FiniteSetsExt, TLC

CONSTANTS
    Names, Classes,     \* quarks of names and of classes
    ANY,                \* the quark of "?"
    None,               \* no value, and no component
    Specifiers,         \* what the application stores: sequences of [tight, name]
    Others,             \* the databases it combines: sets of specifiers
    Queries,            \* pairs of sequences of as many names and classes
    MostPuts            \* how often it stores and combines

VARIABLES
    database,           \* the top-level tables: a node table, a leaf table, both or none
    stored,             \* the values stored, by specifier
    resourceQuarks,     \* the names that were used for a value in any database
    puts

xrmVars == <<database, stored, resourceQuarks, puts>>

Quarks == Names \cup Classes \cup {ANY}

Table(path, tight, leaf) ==
    [path |-> path, tight |-> tight, leaf |-> leaf, hasloose |-> FALSE, hasany |-> FALSE,
     kids |-> [q \in Quarks |-> <<>>]]

(***************************************************************************)
(* PutEntry.  Slot is the place in the chain of one name where the table   *)
(* is or belongs.                                                          *)
(***************************************************************************)
Is(chain, p, leaf, tight) == p <= Len(chain) /\ chain[p].leaf = leaf /\ chain[p].tight = tight

\* A mutant: a loose table is put before the tight one.
MutLooseFirst(chain, leaf, tight) ==
    IF ~leaf THEN 1 ELSE Cardinality({i \in DOMAIN chain : ~chain[i].leaf}) + 1

Slot(chain, leaf, tight) ==
    LET p == IF ~leaf THEN 1 ELSE Cardinality({i \in DOMAIN chain : ~chain[i].leaf}) + 1
    IN  IF ~tight /\ Is(chain, p, leaf, TRUE) THEN p + 1 ELSE p

\* The chain with `item' in place p, instead of what is there if it is `there'.
Placed(chain, p, there, item) ==
    SubSeq(chain, 1, p - 1) \o <<item>> \o SubSeq(chain, IF there THEN p + 1 ELSE p, Len(chain))

WithValue(table, component, value) ==
    LET chain == table.kids[component.name]
        p == IF chain # <<>> /\ ~component.tight /\ chain[1].tight THEN 2 ELSE 1
        there == p <= Len(chain) /\ chain[p].tight = component.tight
        entry == [tight |-> component.tight, value |-> value]
    IN  [table EXCEPT !.kids[component.name] = Placed(chain, p, there, entry),
                      !.hasloose = @ \/ (~there /\ ~component.tight)]

RECURSIVE WithEntry(_, _, _)
WithEntry(table, path, value) ==
    LET first == path[1]
        chain == table.kids[first.name]
        leaf == Len(path) = 2
        p == Slot(chain, leaf, first.tight)
        there == Is(chain, p, leaf, first.tight)
        child == IF there THEN chain[p] ELSE Table(Append(table.path, first), first.tight, leaf)
    IN  IF Len(path) = 1 THEN WithValue(table, first, value)
        ELSE [table EXCEPT !.kids[first.name] =
                               Placed(chain, p, there, WithEntry(child, Tail(path), value)),
                           !.hasloose = @ \/ (~there /\ ~first.tight),
                           !.hasany = @ \/ (~there /\ first.name = ANY)]

PutEntry(db, path, value) ==
    LET leaf == Len(path) = 1
        p == Slot(db, leaf, TRUE)
        there == Is(db, p, leaf, TRUE)
        top == IF there THEN db[p] ELSE Table(<<>>, TRUE, leaf)
    IN  Placed(db, p, there, WithEntry(top, path, value))

(***************************************************************************)
(* XrmCombineDatabase.  f and t are what the two databases have under one  *)
(* name.                                                                   *)
(***************************************************************************)
RECURSIVE MergeChains(_, _, _)
MergeChains(f, t, override) ==
    IF f = <<>> \/ t = <<>> THEN f \o t
    ELSE IF ~f[1].tight /\ t[1].tight THEN <<t[1]>> \o MergeChains(f, Tail(t), override)
    ELSE IF f[1].tight # t[1].tight THEN <<f[1]>> \o MergeChains(Tail(f), t, override)
    ELSE <<IF override THEN f[1] ELSE t[1]>> \o MergeChains(Tail(f), Tail(t), override)

MergeValues(ftable, ttable, override) ==
    [ttable EXCEPT !.hasloose = @ \/ ftable.hasloose,
                   !.kids = [q \in Quarks |->
                                MergeChains(ftable.kids[q], ttable.kids[q], override)]]

RECURSIVE MergeTables(_, _, _), MergeTableChains(_, _, _)
MergeTables(ftable, ttable, override) ==
    [ttable EXCEPT !.hasloose = @ \/ ftable.hasloose,
                   !.hasany = @ \/ ftable.hasany,
                   !.kids = [q \in Quarks |->
                                MergeTableChains(ftable.kids[q], ttable.kids[q], override)]]

MergeTableChains(f, t, override) ==
    IF f = <<>> \/ t = <<>> THEN f \o t
    ELSE IF (f[1].leaf /\ ~t[1].leaf) \/ (~f[1].tight /\ t[1].tight /\ (f[1].leaf \/ ~t[1].leaf))
    THEN <<t[1]>> \o MergeTableChains(f, Tail(t), override)
    ELSE IF f[1].leaf # t[1].leaf \/ f[1].tight # t[1].tight
    THEN <<f[1]>> \o MergeTableChains(Tail(f), t, override)
    ELSE <<IF f[1].leaf THEN MergeValues(f[1], t[1], override) ELSE MergeTables(f[1], t[1], override)>>
         \o MergeTableChains(Tail(f), Tail(t), override)

XrmCombineDatabase(from, into, override) == MergeTableChains(from, into, override)

(***************************************************************************)
(* The search.  GetNEntry and SearchNEntry go through the tables in the    *)
(* same order; the first looks for the value in each table it comes to,    *)
(* the second lists the tables.  A table is visited for its loose values   *)
(* only when components lie between it and the value.                      *)
(***************************************************************************)
Visit(table) == <<[table |-> table, loose |-> FALSE, below |-> <<>>]>>
LooseVisit(table) ==
    IF table.hasloose THEN <<[table |-> table, loose |-> TRUE, below |-> <<>>]>> ELSE <<>>

\* To go on from the table at the head of a chain
Down(e) == <<[table |-> e[1], loose |-> FALSE, below |-> e]>>

\* NFIND: the chain of q from its first table, or its first leaf table, on
NFIND(table, q, leaf) ==
    IF leaf THEN SelectSeq(table.kids[q], LAMBDA e : e.leaf) ELSE table.kids[q]

\* The leaf tables under the same name as the node table at the head of s.
MatchingLeaves(s) ==
    LET next == Tail(s)
        second == IF next = <<>> THEN <<>>
                  ELSE IF next[1].leaf
                  THEN IF next[1].tight /\ ~s[1].tight THEN Tail(next) ELSE next
                  ELSE IF Len(next) > 1 /\ next[2].tight THEN Tail(next) ELSE <<>>
    IN  IF second = <<>> THEN <<>>
        ELSE LooseVisit(second[1])
             \o (IF second[1].tight /\ Len(second) = Len(next) /\ Len(second) > 1
                 THEN LooseVisit(second[2]) ELSE <<>>)

\* GTIGHTLOOSE and GLOOSE
TightLoose(e, leaf) ==
    IF e = <<>> THEN <<>>
    ELSE IF leaf = e[1].leaf
    THEN (IF ~leaf /\ ~e[1].tight /\ Len(e) > 1 /\ e[2].tight THEN LooseVisit(e[2]) ELSE <<>>)
         \o Down(e)
         \o (IF e[1].tight /\ Len(e) > 1 /\ e[2].leaf = leaf THEN Down(Tail(e)) ELSE <<>>)
    ELSE LooseVisit(e[1]) \o (IF e[1].tight /\ Len(e) > 1 THEN LooseVisit(e[2]) ELSE <<>>)

Loose(chain, leaf) ==
    LET e == IF chain # <<>> /\ chain[1].tight THEN Tail(chain) ELSE chain
    IN  IF e = <<>> THEN <<>>
        ELSE IF leaf = e[1].leaf THEN Down(e)
        ELSE LooseVisit(e[1])

\* s: a chain with a node table at its head; names, classes: of the next components
RECURSIVE Visits(_, _, _)
Visits(s, names, classes) ==
    LET table == s[1]
        n == Len(names)
        From(i, v) ==
            IF v.below = <<>> THEN <<v>>
            ELSE IF i = n THEN Visit(v.table)
            ELSE Visits(v.below, SubSeq(names, i + 1, n), SubSeq(classes, i + 1, n))
        AllFrom(i, visits) == FlattenSeq([k \in DOMAIN visits |-> From(i, visits[k])])
        Component(i) == <<names[i], classes[i]>> \o (IF table.hasany THEN <<ANY>> ELSE <<>>)
        First == FlattenSeq([k \in DOMAIN Component(1) |->
                     TightLoose(NFIND(table, Component(1)[k], n = 1), n = 1)])
        Later(i) == FlattenSeq([k \in DOMAIN Component(i) |->
                        Loose(NFIND(table, Component(i)[k], i = n), i = n)])
    IN  AllFrom(1, First)
        \o (IF table.hasloose
            THEN FlattenSeq([i \in 1 .. n - 1 |-> AllFrom(i + 1, Later(i + 1))]) ELSE <<>>)
        \o MatchingLeaves(s)

AllVisits(db, names, classes) ==
    IF db = <<>> THEN <<>>
    ELSE IF names = <<>>
    THEN FlattenSeq([i \in {k \in {1} : Last(db).leaf} |-> Visit(Last(db))])
    ELSE IF db[1].leaf THEN LooseVisit(db[1])
    ELSE Visits(db, names, classes)

\* GetVEntry, GetLooseVEntry; VTIGHTLOOSE, VLOOSE
ValueOf(visit, q) ==
    LET chain == visit.table.kids[q]
        e == IF visit.loose /\ chain # <<>> /\ chain[1].tight THEN Tail(chain) ELSE chain
    IN  IF e = <<>> THEN None ELSE e[1].value

Values(visits, quarks) ==
    FlattenSeq([i \in DOMAIN visits |-> [k \in DOMAIN quarks |-> ValueOf(visits[i], quarks[k])]])
FirstOf(values) ==
    LET hits == SelectSeq(values, LAMBDA v : v # None)
    IN  IF hits = <<>> THEN None ELSE hits[1]

XrmQGetResource(db, names, classes) ==
    FirstOf(Values(AllVisits(db, Front(names), Front(classes)), <<Last(names), Last(classes)>>))

\* A mutant: the mark that only loose values count is forgotten.
MutNotMarked(db, names, classes) ==
    FoldLeft(LAMBDA list, v :
                 IF list # <<>> /\ Last(list).table.path = v.table.path THEN list
                 ELSE Append(list, [v EXCEPT !.loose = FALSE]),
             <<>>, AllVisits(db, names, classes))

\* AppendLEntry, AppendLooseLEntry: not the table that is the last in the list
XrmQGetSearchList(db, names, classes) ==
    FoldLeft(LAMBDA list, v :
                 IF list # <<>> /\ Last(list).table.path = v.table.path THEN list
                 ELSE Append(list, v),
             <<>>, AllVisits(db, names, classes))

XrmQGetSearchResource(list, name, class) ==
    FirstOf(Values(list, SelectSeq(<<name, class>>, LAMBDA q : q \in resourceQuarks)))

(***************************************************************************)
(* The application stores values, each unlike the others, combines the     *)
(* database with another one and destroys it.                              *)
(***************************************************************************)
NameOf(path) == Last(path).name
Stored(paths) == [path \in paths |-> <<puts + 1, path>>]

Init ==
    /\ database = <<>>
    /\ stored = <<>>
    /\ resourceQuarks = {}
    /\ puts = 0

PutAll(db, paths) == FoldSet(LAMBDA path, d : PutEntry(d, path, Stored(paths)[path]), db, paths)

XrmQPutResource(path) ==
    /\ database' = PutAll(database, {path})
    /\ stored' = Stored({path}) @@ stored
    /\ resourceQuarks' = resourceQuarks \cup {NameOf(path)}

Combine(paths, override) ==
    /\ database' = XrmCombineDatabase(PutAll(<<>>, paths), database, override)
    /\ stored' = IF override THEN Stored(paths) @@ stored ELSE stored @@ Stored(paths)
    /\ resourceQuarks' = resourceQuarks \cup {NameOf(path) : path \in paths}

XrmDestroyDatabase ==
    /\ database # <<>>
    /\ database' = <<>>
    /\ stored' = <<>>
    /\ UNCHANGED resourceQuarks

Next ==
    /\ puts < MostPuts
    /\ puts' = puts + 1
    /\ \/ \E path \in Specifiers : XrmQPutResource(path)
       \/ \E paths \in Others, override \in BOOLEAN : Combine(paths, override)
       \/ XrmDestroyDatabase

Spec == Init /\ [][Next]_xrmVars

(***************************************************************************)
(* What the documentation says of a match: each level of the full name is  *)
(* matched by a component or elided, and of two specifiers the better one  *)
(* is better at the first level where they differ: any match beats an      *)
(* elision, a name a class and a class "?", then a dot an asterisk.        *)
(***************************************************************************)
Nth(levels, k) == SetToSortSeq(levels, <)[k]

Fits(path, levels, query) ==
    \A k \in DOMAIN path :
        LET i == Nth(levels, k) IN
        /\ path[k].name \in {query.names[i], query.classes[i], ANY}
        /\ path[k].tight => i = IF k = 1 THEN 1 ELSE Nth(levels, k - 1) + 1

Grade(component, i, query) ==
    (CASE component.name = query.names[i] -> 6
       [] component.name = query.classes[i] -> 4
       [] OTHER -> 2)
    - (IF component.tight THEN 0 ELSE 1)

\* The grades, level by level, of the ways in which path matches the query.
Grades(path, query) ==
    LET n == Len(query.names)
        Ways == {levels \in kSubset(Len(path), 1 .. n) : n \in levels /\ Fits(path, levels, query)}
    IN  {[i \in 1 .. n |->
             IF i \notin levels THEN 0
             ELSE Grade(path[Cardinality({k \in levels : k <= i})], i, query)] : levels \in Ways}

Better(g, h) == \E i \in DOMAIN g : g[i] > h[i] /\ \A k \in 1 .. i - 1 : g[k] = h[k]

BestMatch(query) ==
    LET Matches == UNION {{<<g, path>> : g \in Grades(path, query)} : path \in DOMAIN stored}
        Best == {m \in Matches : \A other \in Matches : ~Better(other[1], m[1])}
    IN  IF Best = {} THEN None ELSE stored[(CHOOSE m \in Best : TRUE)[2]]

(***************************************************************************)
(* GLOOSE goes from a tight node table to the table behind it, also when   *)
(* that is the tight leaf table of the name.                               *)
(***************************************************************************)
RECURSIVE HasTrap(_)
HasTrap(table) ==
    \E q \in Quarks :
        LET chain == table.kids[q] IN
        /\ ~table.leaf
        /\ \/ /\ table.hasloose
              /\ Is(chain, 1, FALSE, TRUE)
              /\ Is(chain, 2, TRUE, TRUE)
           \/ \E i \in DOMAIN chain : HasTrap(chain[i])

Answer(query) == XrmQGetResource(database, query.names, query.classes)

SearchAnswer(query) ==
    XrmQGetSearchResource(XrmQGetSearchList(database, Front(query.names), Front(query.classes)),
                          Last(query.names), Last(query.classes))

TypeOK ==
    /\ \A i \in DOMAIN database : database[i].path = <<>> /\ database[i].tight
    /\ DOMAIN stored \subseteq Specifiers \cup UNION Others
    /\ resourceQuarks \subseteq Quarks
    /\ puts \in 0 .. MostPuts

(***************************************************************************)
(* A query gets the value of the specifier that matches best by the rules  *)
(* of the manual, whatever was stored, replaced and combined before and in *)
(* whatever order; except that a database in which a dot-bound name has    *)
(* both deeper components and values, beside a loose entry, may answer     *)
(* something else (XrmQGetResource, GetNEntry, PutEntry,                   *)
(* XrmCombineDatabase).                                                    *)
(***************************************************************************)
LookupTrue ==
    \A query \in Queries :
        (\A i \in DOMAIN database : ~HasTrap(database[i])) => Answer(query) = BestMatch(query)

(***************************************************************************)
(* The same without the exception (XrmGetResource's rules, CH15.xml).      *)
(***************************************************************************)
MatchingRules == \A query \in Queries : Answer(query) = BestMatch(query)

(***************************************************************************)
(* A search list made for the first levels of a name and then asked for    *)
(* the last one finds what a query of the full name finds                  *)
(* (XrmQGetSearchList, XrmQGetSearchResource).                             *)
(***************************************************************************)
SearchTrue == \A query \in Queries : SearchAnswer(query) = Answer(query)
=============================================================================
