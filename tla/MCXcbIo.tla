------------------------------ MODULE MCXcbIo ------------------------------
(***************************************************************************)
(* Instances of XcbIo for TLC: the scripts the threads run.                *)
(***************************************************************************)
EXTENDS XcbIoInv, TLC

CONSTANTS t1, t2, t3

\* One thread makes every kind of call.
Single == t1 :> <<"Request", "AsyncRoundTrip", "Flush", "Request", "NextEvent",
                  "XLockDisplay", "RoundTrip", "XUnlockDisplay", "XUnlockDisplay",
                  "Pending">> @@ t2 :> <<>>

\* Threads make requests and wait for replies; none blocks for an event.
Repliers == t1 :> <<"Request", "RoundTrip", "Flush">> @@
            t2 :> <<"AsyncRoundTrip", "Pending">>

Setup(calls, owner) == [script |-> calls, event_owner |-> owner]
WithXlib(calls) == Setup(calls, "XlibOwnsEventQueue")
WithXCB(calls) == Setup(calls, "XCBOwnsEventQueue")

SingleOrRepliers == {WithXlib(Single), WithXlib(Repliers), WithXCB(Repliers)}

\* One thread blocks for events while another makes requests.
ReaderAndReplier ==
    {WithXlib(t1 :> <<"NextEvent", "NextEvent">> @@
               t2 :> <<"Request", "RoundTrip">>)}

\* Two threads block for events.
TwoReaders ==
    {WithXlib(t1 :> <<"NextEvent">> @@ t2 :> <<"Request", "NextEvent">> @@
               t3 :> <<"RoundTrip", "Pending">>)}

AsyncReaders ==
    {WithXlib(t1 :> <<"NextEvent">> @@ t2 :> <<"NextEvent">> @@
               t3 :> <<"AsyncRoundTrip", "Request", "Flush">>)}

\* A thread makes a round trip under a user lock.
UserLocker ==
    {WithXlib(t1 :> <<"XLockDisplay", "RoundTrip", "XUnlockDisplay">> @@
               t2 :> <<"Request", "RoundTrip">>)}
=============================================================================
