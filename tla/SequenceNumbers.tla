---------------------------- MODULE SequenceNumbers ----------------------------
(***************************************************************************)
(* How Xlib finds the full number of a request from the low bits that come *)
(* with an event, a reply or an error: 32 of them from XCB (widen in       *)
(* xcb_io.c), 16 in the packet itself (_XSetLastRequestRead in XlibInt.c). *)
(* Both start from the number of the last request read.                    *)
(***************************************************************************)
EXTENDS Integers

CONSTANTS
    Modulus16,  \* 2^16
    Modulus32   \* 2^32

ASSUME ModulusAssumption ==
    /\ Modulus16 \in Nat \ {0} /\ Modulus32 \in Nat \ {0}
    /\ Modulus32 % 2 = 0

MutNoCarry(wide, narrow) == (wide - (wide % Modulus32)) + narrow

\* "(*wide & ~0xFFFFFFFF) | narrow", and a carry if the number would go down
\* by more than 2^31.
Widen(wide, narrow) ==
    LET new == (wide - (wide % Modulus32)) + narrow
    IN IF new + Modulus32 \div 2 < wide THEN new + Modulus32 ELSE new

\* The number that _XSetLastRequestRead returns: the first one from last on
\* with these low bits, unless that is a request not yet made.
NewSeq(last, request, narrow) ==
    LET new == (last - (last % Modulus16)) + narrow
    IN IF new < last /\ new + Modulus16 <= request THEN new + Modulus16 ELSE new
=============================================================================
