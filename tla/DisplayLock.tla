---------------------------- MODULE DisplayLock ----------------------------
(***************************************************************************)
(* The display lock of src/src/locking.c: one mutex per Display, the       *)
(* "user-level" lock that XLockDisplay nests on top of it, and the         *)
(* condition variables threads sleep on while the mutex is released.       *)
(*                                                                         *)
(* The operators below are the functions of struct _XLockPtrs, written as  *)
(* predicates on the lock's variables.  A module that models code running  *)
(* under the lock EXTENDS this one and conjoins them with its own state.   *)
(*                                                                         *)
(* A thread that must sleep is put into sleeping[c] for the condition      *)
(* variable c and gives the mutex up in the same step, as pthreads do;     *)
(* signalling takes it out, and it competes for the mutex again.           *)
(***************************************************************************)
EXTENDS Integers, FiniteSets

CONSTANTS
    Threads,    \* the threads of the client that use this Display
    NoThread    \* xthread_clear_id: no thread

ASSUME NoThreadAssumption == NoThread \notin Threads

(***************************************************************************)
(* dpy->lock->cv, dpy->xcb->event_notify and dpy->xcb->reply_notify.       *)
(***************************************************************************)
CondVars == {"cv", "event_notify", "reply_notify"}

VARIABLES
    mutex,           \* dpy->lock->mutex: the thread holding it, or NoThread
    locking_level,   \* dpy->lock->locking_level: nesting of the user lock
    locking_thread,  \* dpy->lock->locking_thread: who holds the user lock
    in_ifevent,      \* dpy->in_ifevent: XIfEvent-like calls in progress
    ifevent_thread,  \* dpy->ifevent_thread: the last thread to enter one
    sleeping         \* condition variable -> threads asleep on it

lockVars == <<mutex, locking_level, locking_thread, in_ifevent,
              ifevent_thread, sleeping>>

LockTypeOK ==
    /\ mutex \in Threads \cup {NoThread}
    /\ locking_level \in Nat
    /\ locking_thread \in Threads \cup {NoThread}
    /\ in_ifevent \in Nat
    /\ ifevent_thread \in Threads \cup {NoThread}
    /\ sleeping \in [CondVars -> SUBSET Threads]

\* _XInitDisplayLock
LockInit ==
    /\ mutex = NoThread
    /\ locking_level = 0
    /\ locking_thread = NoThread
    /\ in_ifevent = 0
    /\ ifevent_thread = NoThread
    /\ sleeping = [c \in CondVars |-> {}]

(***************************************************************************)
(* Predicates on the lock.                                                 *)
(***************************************************************************)
Awake(t) == \A c \in CondVars : t \notin sleeping[c]

\* The thread whose LockDisplay and UnlockDisplay calls do nothing.
InIfEvent(t) == in_ifevent > 0 /\ ifevent_thread = t

\* The loop condition of _XDisplayLockWait.
UserLockedByOther(t) == locking_level > 0 /\ locking_thread # t

(***************************************************************************)
(* Condition variables.  ConditionWait is called with the mutex held.      *)
(***************************************************************************)
ConditionWait(c, t) ==
    /\ mutex' = NoThread
    /\ sleeping' = [sleeping EXCEPT ![c] = @ \cup {t}]

ConditionBroadcast(c) == sleeping' = [sleeping EXCEPT ![c] = {}]

(***************************************************************************)
(* _XInternalLockDisplay, and the part of _XLockDisplay that takes the     *)
(* lock.  Acquired(t, wskip) returns with the lock; MustWait(t) is the     *)
(* sleep in _XDisplayLockWait, after which the thread tries again.         *)
(***************************************************************************)
Acquired(t, wskip) ==
    /\ Awake(t)
    /\ \/ InIfEvent(t) /\ UNCHANGED mutex
       \/ /\ ~InIfEvent(t)
          /\ mutex = NoThread
          /\ wskip \/ ~UserLockedByOther(t)
          /\ mutex' = t

MustWait(t) ==
    /\ Awake(t)
    /\ ~InIfEvent(t)
    /\ mutex = NoThread
    /\ UserLockedByOther(t)
    /\ ConditionWait("cv", t)

\* A thread that slept with the mutex released wakes up with it held.
Wakeup(t) == Awake(t) /\ mutex = NoThread /\ mutex' = t

\* _XUnlockDisplay
Released(t) == IF InIfEvent(t) THEN UNCHANGED mutex ELSE mutex' = NoThread

(***************************************************************************)
(* _XUserLockDisplay once the wait is over, and _XUserUnlockDisplay.       *)
(***************************************************************************)
UserLocked(t) ==
    /\ ~UserLockedByOther(t)
    /\ locking_level' = locking_level + 1
    /\ locking_thread' = IF locking_level = 0 THEN t ELSE locking_thread

UserUnlocked ==
    /\ locking_level' = IF locking_level > 0 THEN locking_level - 1 ELSE 0
    /\ IF locking_level = 1
          THEN /\ locking_thread' = NoThread
               /\ ConditionBroadcast("cv")
          ELSE UNCHANGED <<locking_thread, sleeping>>
=============================================================================
