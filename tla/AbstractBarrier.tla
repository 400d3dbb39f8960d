---------------------------- MODULE AbstractBarrier ----------------------------
(***************************************************************************)
(* What a barrier promises its callers: Count arrivals make a generation;  *)
(* the one that completes it goes on at once, and nobody else goes on      *)
(* before.                                                                 *)
(***************************************************************************)
EXTENDS Naturals

CONSTANTS Threads, Count

VARIABLES
  arrived,   \* the arrivals of the generation that is not complete
  inside,    \* the callers in it
  released,  \* the callers in a complete generation, and not back yet
  excused    \* the callers whose sleep failed, who may leave at any time

vars == <<arrived, inside, released, excused>>

Init == arrived = 0 /\ inside = {} /\ released = {} /\ excused = {}

Arrive(t) ==
  /\ t \notin inside \cup released
  /\ arrived + 1 < Count
  /\ arrived' = arrived + 1
  /\ inside' = inside \cup {t}
  /\ UNCHANGED <<released, excused>>

Complete(t) ==
  /\ t \notin inside \cup released
  /\ arrived + 1 = Count
  /\ arrived' = 0
  /\ inside' = {}
  /\ released' = released \cup inside
  /\ UNCHANGED excused

Excuse(t) ==
  /\ t \in inside \cup released
  /\ excused' = excused \cup {t}
  /\ UNCHANGED <<arrived, inside, released>>

Leave(t) ==
  /\ t \in released \cup excused
  /\ inside' = inside \ {t}
  /\ released' = released \ {t}
  /\ excused' = excused \ {t}
  /\ UNCHANGED arrived

Next == \E t \in Threads : Arrive(t) \/ Complete(t) \/ Excuse(t) \/ Leave(t)

Spec == Init /\ [][Next]_vars
=============================================================================
