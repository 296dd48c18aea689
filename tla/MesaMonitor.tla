----------------------------- MODULE MesaMonitor -----------------------------
(***************************************************************************)
(* What a lock and its condition variables promise to the threads that use *)
(* them, as threads/synch.h describes it: one thread inside a lock at a    *)
(* time, and Mesa semantics: a thread that waits leaves the lock, and comes *)
(* back only after a thread inside the same lock has notified it and after *)
(* it has competed for the lock again.                                     *)
(*                                                                         *)
(* Two components of the system implement it: the lock server of           *)
(* network/nettest.cc (module LockServer) and the kernel's own locks and   *)
(* conditions of threads/synch.cc.                                         *)
(***************************************************************************)

CONSTANTS Threads,       \* those who lock, wait and notify
          Locks,
          Conds,
          lockFor        \* [Conds -> Locks], the lock each condition is used with

VARIABLES inside,        \* per lock, the threads between Enter and Leave
          entering,      \* per lock, the threads that ask for it
          waiting        \* per condition, the threads nobody notified yet

mmVars == <<inside, entering, waiting>>

MMInit == /\ inside = [l \in Locks |-> {}]
          /\ entering = [l \in Locks |-> {}]
          /\ waiting = [c \in Conds |-> {}]

Waits(t) == \E c \in Conds : t \in waiting[c]

Ask(t, l) ==
    /\ t \notin inside[l]
    /\ ~Waits(t)
    /\ entering' = [entering EXCEPT ![l] = @ \cup {t}]
    /\ UNCHANGED <<inside, waiting>>

\* Whoever asked goes inside when nobody else is; a thread that finds the lock
\* free asks and enters at once.
Enter(t, l) ==
    /\ ~Waits(t)
    /\ inside[l] = {}
    /\ entering' = [entering EXCEPT ![l] = @ \ {t}]
    /\ inside' = [inside EXCEPT ![l] = {t}]
    /\ UNCHANGED waiting

Leave(t, l) ==
    /\ t \in inside[l]
    /\ inside' = [inside EXCEPT ![l] = @ \ {t}]
    /\ UNCHANGED <<entering, waiting>>

WaitOn(t, c) ==
    /\ t \in inside[lockFor[c]]
    /\ inside' = [inside EXCEPT ![lockFor[c]] = @ \ {t}]
    /\ waiting' = [waiting EXCEPT ![c] = @ \cup {t}]
    /\ UNCHANGED entering

\* A waiting thread is notified by one that is inside the condition's lock, and
\* only then asks for that lock again.
Notify(t, c) ==
    /\ t \in waiting[c]
    /\ inside[lockFor[c]] # {}
    /\ waiting' = [waiting EXCEPT ![c] = @ \ {t}]
    /\ entering' = [entering EXCEPT ![lockFor[c]] = @ \cup {t}]
    /\ UNCHANGED inside

MMNext == \E t \in Threads :
             \/ \E l \in Locks : Ask(t, l) \/ Enter(t, l) \/ Leave(t, l)
             \/ \E c \in Conds : WaitOn(t, c) \/ Notify(t, c)

MMSpec == MMInit /\ [][MMNext]_mmVars
=============================================================================
