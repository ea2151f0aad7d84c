--------------------------- MODULE SlidingWindow ---------------------------
(***************************************************************************)
(* What a sender promises: chunks numbered from 0 are queued, counted as   *)
(* sent in order and inside the window its peer advertised last, and       *)
(* acknowledged in order, never before they are counted as sent.  Feedback *)
(* and timers put chunks on the wire that are not acknowledged; those are  *)
(* not held to the window.                                                 *)
(***************************************************************************)
EXTENDS Integers

CONSTANTS Capacity, MaxWindow

VARIABLES
  base,     \* chunks acknowledged
  next,     \* chunks counted as sent
  queued,   \* chunks read from the input
  win,      \* the window the peer advertised last
  wire      \* chunks the last step put on the wire

vars == <<base, next, queued, win, wire>>

Init == base = 0 /\ next = 0 /\ queued = 0 /\ win = 1 /\ wire = {}

Queue ==
  /\ queued - base < Capacity
  /\ queued' = queued + 1
  /\ wire' = {}
  /\ UNCHANGED <<base, next, win>>

\* An acknowledgment of some of the chunks that were sent, or none, with a new
\* window; it may put chunks on the wire, one that waits for room among them.
Feedback ==
  /\ base' \in base .. next
  /\ win' \in 0 .. MaxWindow
  /\ wire' \subseteq base' .. queued - 1
  /\ UNCHANGED <<next, queued>>

\* New chunks in order, the write of the last of them possibly failing.
Send ==
  /\ next' \in next .. queued
  /\ next' > next => next' <= base + win
  /\ wire' \in {next .. next' - 1, next .. next' - 2}
  /\ UNCHANGED <<base, queued, win>>

\* Chunks that are not acknowledged, those that wait for room in the window
\* included: a timer that expires may send them early.
Resend ==
  /\ wire' \subseteq base .. queued - 1
  /\ UNCHANGED <<base, next, queued, win>>

Next == Queue \/ Feedback \/ Send \/ Resend

Spec == Init /\ [][Next]_vars

=============================================================================
