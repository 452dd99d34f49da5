---------------------------- MODULE MCStructures ----------------------------
(***************************************************************************)
(* Instances of the data structures that the client side of Xlib keeps by  *)
(* itself -- regions, contexts, quarks and resource databases --, of the   *)
(* functions that use a reply, and of the life of a Display with the data  *)
(* of its events (DisplayLife) and its cache of atoms (AtomCache), which   *)
(* this module extends.  One of them is in use in a behaviour.             *)
(***************************************************************************)
EXTENDS DisplayLife, AtomCache, TLC

CONSTANTS
    InUse,                          \* which of the structures
    t1, t2,
    qa, qb, qc, qd, qe, qf, qg,     \* strings
    atomA, atomB, atomC, atomD, badAtom,   \* names of atoms
    na, nb, nc, ca, cb, cc, any     \* quarks of names and of classes, and of "?"

VARIABLES
    part,
    region, points, polygon, operations,
    context_db, dbs, tables, entries, calls, at, saved, overlapped,
    quarkTable, quarkMask, stringTable, texts, idx, misplaced,
    database, stored, resourceQuarks, puts,
    todo, wire, unread, locked, memory, freed, result, reported, wrong, malformed

regionVars == <<region, points, polygon, operations>>
contextVars == <<context_db, dbs, tables, entries, calls, at, saved, overlapped>>
quarkVars == <<quarkTable, quarkMask, stringTable, texts, idx, misplaced>>
xrmVars == <<database, stored, resourceQuarks, puts>>
replyVars == <<todo, wire, unread, locked, memory, freed, result, reported, wrong, malformed>>

(***************************************************************************)
(* Regions on a board of three by three points, and polygons that reach    *)
(* beyond it: a notch, a square, a bow-tie, two shapes that cross          *)
(* themselves, and one without an inside.                                  *)
(***************************************************************************)
MCOperands ==
    {{<<0, 0>>, <<1, 1>>}, (0 .. 2) \X {1}, {1} \X (0 .. 2),
     {<<0, 0>>, <<2, 0>>, <<0, 2>>, <<2, 2>>}}

MCPolygons ==
    {<<<<0, 0>>, <<4, 0>>, <<4, 4>>, <<2, 2>>, <<0, 4>>>>,
     <<<<0, 0>>, <<3, 0>>, <<3, 3>>, <<0, 3>>>>,
     <<<<0, 0>>, <<3, 3>>, <<3, 0>>, <<0, 3>>>>,
     <<<<0, 0>>, <<4, 0>>, <<4, 3>>, <<1, 3>>, <<1, 1>>, <<3, 1>>, <<3, 4>>, <<0, 4>>>>,
     <<<<2, 0>>, <<3, 4>>, <<0, 1>>, <<4, 1>>, <<1, 4>>>>,
     <<<<0, 0>>, <<2, 0>>>>}

Region == INSTANCE Regions WITH
    steps <- operations,
    Width <- 3, Height <- 3, Operands <- MCOperands, Polygons <- MCPolygons,
    MostSteps <- 3, NUMPTSTOBUFFER <- 6

(***************************************************************************)
(* Contexts: enough entries for the table to grow and shrink, and two      *)
(* threads that save.                                                      *)
(***************************************************************************)
Save(key, data, may_fail) == [op |-> "save", key |-> key, data |-> data, may_fail |-> may_fail]
Delete(key, may_fail) == [op |-> "delete", key |-> key, data |-> None, may_fail |-> may_fail]
K(i) == <<i \div 2, i % 2>>

MCContextScripts ==
    {t1 :> [i \in 1 .. 6 |-> Save(K(i), i, FALSE)]
           \o <<Save(K(1), 9, TRUE)>>
           \o [i \in 1 .. 4 |-> Delete(K(i), i = 2)]
           \o <<Save(K(2), 7, TRUE)>>
     @@ t2 :> <<>>,
     t1 :> [i \in 1 .. 3 |-> Save(K(i), i, FALSE)]
     @@ t2 :> [i \in 1 .. 3 |-> Save(K(i + 3), i + 3, FALSE)] \o <<Delete(K(4), FALSE)>>}

Context == INSTANCE Contexts WITH
    Threads <- {t1, t2}, ContextScripts <- MCContextScripts,
    Keys <- {K(i) : i \in 1 .. 6}, INITHASHMASK <- 1

(***************************************************************************)
(* Quarks: strings whose signatures collide in a table of four places.     *)
(***************************************************************************)
MCQuarkScripts == {t1 :> <<qa, qb, qc, qd, qe, qf, qg>> @@ t2 :> <<qa, qd, qf>>}

Quark == INSTANCE Quarks WITH
    Threads <- {t1, t2}, QuarkScripts <- MCQuarkScripts, FirstMask <- 3,
    Signature <- (qa :> 1 @@ qb :> 5 @@ qc :> 9 @@ qd :> 9 @@ qe :> 2 @@ qf :> 17 @@ qg :> 3)

(***************************************************************************)
(* Resources: specifiers of up to three components with every binding, by  *)
(* name, by class and by "?".                                              *)
(***************************************************************************)
Dot(x) == [tight |-> TRUE, name |-> x]
Star(x) == [tight |-> FALSE, name |-> x]

MCSpecifiers ==
    {<<Dot(na), Dot(nb), Dot(nc)>>, <<Dot(na), Star(nc)>>, <<Star(nc)>>,
     <<Star(na), Dot(cc)>>, <<Dot(ca), Dot(nb), Star(nc)>>, <<Dot(any), Dot(nb), Dot(cc)>>,
     <<Star(any), Dot(nc)>>, <<Dot(na), Dot(cb), Star(cc)>>, <<Star(nb), Star(nc)>>,
     <<Dot(na), Dot(nc)>>, <<Dot(nc)>>, <<Star(ca), Dot(any), Dot(nc)>>, <<Dot(nb), Star(nc)>>}

MCOthers ==
    {{<<Dot(na), Dot(nb), Dot(nc)>>, <<Star(nb), Star(nc)>>, <<Dot(nc)>>},
     {<<Dot(na), Star(nc)>>, <<Star(ca), Dot(nb), Dot(cc)>>, <<Star(na), Dot(cc)>>},
     {<<Star(nc)>>, <<Dot(na), Star(nb), Star(cc)>>}}

MCQueries ==
    {[names |-> <<na, nb, nc>>, classes |-> <<ca, cb, cc>>],
     [names |-> <<nb, na, nc>>, classes |-> <<cb, ca, cc>>],
     [names |-> <<na, nc>>, classes |-> <<ca, cc>>],
     [names |-> <<nc>>, classes |-> <<cc>>],
     [names |-> <<nb, na, nb, nc>>, classes |-> <<ca, ca, cb, cc>>],
     [names |-> <<na, na, nb, nc>>, classes |-> <<cb, ca, cc, cc>>]}

Resource == INSTANCE Xrm WITH
    Names <- {na, nb, nc}, Classes <- {ca, cb, cc}, ANY <- any,
    Specifiers <- MCSpecifiers, Others <- MCOthers, Queries <- MCQueries, MostPuts <- 3

Replying == INSTANCE Replies WITH heap <- memory

(***************************************************************************)
(* A Display with two screens that is used in one of some ways.            *)
(***************************************************************************)
MCUses ==
    {{"events"}, {"tables"}, {"connections", "extensions"}}

(***************************************************************************)
(* Calls on atoms, two of which have the same first slot.                  *)
(***************************************************************************)
CallOf(name, items, only) == [call |-> name, items |-> items, only |-> only]
InternAtom(x, only) == CallOf("InternAtom", <<x>>, only)
InternAtoms(items, only) == CallOf("InternAtoms", items, only)
GetAtomName(x) == CallOf("GetAtomName", <<x>>, FALSE)
GetAtomNames(items) == CallOf("GetAtomNames", items, FALSE)

MCAtomScripts ==
    {t1 :> <<InternAtoms(<<atomA, atomB>>, FALSE), GetAtomName(atomA), GetAtomNames(<<atomD, atomC>>)>>
     @@ t2 :> <<InternAtom(atomB, TRUE), GetAtomNames(<<atomC, atomD>>)>>,
     t1 :> <<InternAtoms(<<atomA, atomB, atomC>>, FALSE)>>
     @@ t2 :> <<GetAtomNames(<<atomC, atomD>>), InternAtom(atomA, FALSE)>>,
     t1 :> <<InternAtoms(<<atomA, atomA>>, TRUE), GetAtomName(atomA)>>
     @@ t2 :> <<GetAtomName(badAtom), GetAtomName(atomC), InternAtoms(<<atomD, atomA, atomB>>, FALSE)>>}

\* A bad atom before two that the server knows.
BadAtomScripts ==
    {t1 :> <<GetAtomNames(<<badAtom, atomC, atomD>>)>> @@ t2 :> <<GetAtomName(atomC)>>}

MCHash == atomA :> 0 @@ atomB :> 0 @@ badAtom :> 0 @@ atomC :> 1 @@ atomD :> 1
MCRehash == atomA :> 1 @@ atomB :> 3 @@ badAtom :> 1 @@ atomC :> 1 @@ atomD :> 1

\* What the theorems of AtomCacheProofs assume.
ASSUME AtomAssumption == AtomConstants /\ DistinctNames

(***************************************************************************)
(* The seven together.                                                     *)
(***************************************************************************)
StructuresInit ==
    /\ part \in InUse
    /\ Region!Init /\ Context!Init /\ Quark!Init /\ Resource!Init /\ Replying!Init
    /\ LifeInit /\ Init
    /\ part # "lifetime" => use = {"events"}
    /\ part # "contexts" => calls = (CHOOSE scr \in MCContextScripts : TRUE)
    /\ part # "atoms" => script = (CHOOSE scr \in Scripts : TRUE)

\* The structures may be left alone, but a call on atoms must come to an end.
Resting ==
    /\ part = "atoms" => Stopped
    /\ UNCHANGED <<regionVars, contextVars, quarkVars, xrmVars, replyVars, cookieVars, lifeVars, vars>>

StructuresNext ==
    /\ UNCHANGED part
    /\ \/ /\ part = "regions" /\ Region!Next
          /\ UNCHANGED <<contextVars, quarkVars, xrmVars, replyVars, cookieVars, lifeVars, vars>>
       \/ /\ part = "contexts" /\ Context!Next
          /\ UNCHANGED <<regionVars, quarkVars, xrmVars, replyVars, cookieVars, lifeVars, vars>>
       \/ /\ part = "quarks" /\ Quark!Next
          /\ UNCHANGED <<regionVars, contextVars, xrmVars, replyVars, cookieVars, lifeVars, vars>>
       \/ /\ part = "resources" /\ Resource!Next
          /\ UNCHANGED <<regionVars, contextVars, quarkVars, replyVars, cookieVars, lifeVars, vars>>
       \/ /\ part = "replies" /\ Replying!Next
          /\ UNCHANGED <<regionVars, contextVars, quarkVars, xrmVars, cookieVars, lifeVars, vars>>
       \/ /\ part = "lifetime" /\ LifeNext
          /\ UNCHANGED <<regionVars, contextVars, quarkVars, xrmVars, replyVars, vars>>
       \/ /\ part = "atoms" /\ Next
          /\ UNCHANGED <<regionVars, contextVars, quarkVars, xrmVars, replyVars, cookieVars, lifeVars>>
       \/ Resting

StructuresSpec ==
    StructuresInit /\
    [][StructuresNext]_<<part, regionVars, contextVars, quarkVars, xrmVars, replyVars, cookieVars, lifeVars, vars>>

-----------------------------------------------------------------------------
(***************************************************************************)
(* The properties of the structures, which their modules explain.          *)
(***************************************************************************)

\* A region has one form and covers the points that its operations say, and
\* XEqualRegion, XPointInRegion and XRectInRegion answer as for the points.
RegionsTrue == part = "regions" => Region!RegionsTrue /\ Region!AnswersRight

\* XFindContext finds what XSaveContext saved, and a string its quark again,
\* through every resize of their tables.
FoundTrue ==
    /\ part = "contexts" => Context!FoundAsSaved
    /\ part = "quarks" => Quark!FoundAgain

\* XrmQGetResource and XrmQGetSearchResource follow the precedence rules.
LookupTrue == part = "resources" => Resource!LookupTrue /\ Resource!SearchTrue

\* No function leaves anything of its replies unread or reads past them.
RepliesTaken == Replying!RepliesTaken

\* What a function allocates it frees once or returns.
MemoryAccounted == Replying!MemoryAccounted

\* The application sees the errors that the functions promise, once.
ErrorsReported == Replying!ErrorsReported

\* The lookup rules without the exception that LookupTrue makes.
MatchingRules == part = "resources" => Resource!MatchingRules
=============================================================================
