---------------------------- MODULE MCEventQueue ----------------------------
(***************************************************************************)
(* Instances of EventQueue for TLC.                                        *)
(***************************************************************************)
EXTENDS EventQueue

CONSTANTS t1, t2, t3

K == {"a", "b"}

Call(name, wants) == [call |-> name, wants |-> wants]

\* Two threads look for certain events, a third takes what it gets.
Scanners == t1 :> <<Call("MaskEvent", {"a"})>> @@
            t2 :> <<Call("CheckMaskEvent", {"b"})>> @@
            t3 :> <<Call("NextEvent", {})>>

\* One thread is in XIfEvent.
IfScript == t1 :> <<Call("IfEvent", {"a"}), Call("Pending", {})>> @@
            t2 :> <<Call("CheckMaskEvent", {"b"})>> @@
            t3 :> <<Call("SyncDiscard", {})>>

\* Two threads look for what does not come, one of them in XIfEvent, while
\* another takes events that they have seen.
Predicate == t1 :> <<Call("IfEvent", {})>> @@ t2 :> <<Call("MaskEvent", {})>> @@
             t3 :> <<Call("CheckMaskEvent", {"b"})>>

\* Events are put back while nobody scans.
PutBackScript == t1 :> <<Call("PeekEvent", {}), Call("NextEvent", {}),
                         Call("PutBack", {}), Call("PeekIfEvent", {"a"}), Call("IfEvent", {"b"}),
                         Call("PutBack", {}), Call("CheckMaskEvent", {"a", "b"})>>
                 @@ t2 :> <<>> @@ t3 :> <<>>

AllScripts == {Scanners, IfScript, Predicate, PutBackScript}

\* Two threads are in XIfEvent, a third waits for events.
TwoIfEvents == {t1 :> <<Call("IfEvent", {"a"})>> @@ t2 :> <<Call("IfEvent", {"b"})>> @@
                t3 :> <<Call("NextEvent", {})>>}
=============================================================================
