--------------------------- MODULE SlidingWindow ---------------------------
(***************************************************************************)
(* What CircularBuffer<T, N> promises its users: a first-in first-out      *)
(* window over the last N items put.  Putting into a full window forgets   *)
(* the oldest item; getting from an empty one yields the default value.    *)
(***************************************************************************)
EXTENDS Naturals, Sequences

CONSTANTS N,        \* capacity, the template parameter
          Item,     \* the values the program puts
          Default   \* T(), what get() yields when there is nothing to get

VARIABLES window,   \* the items held, oldest first
          got       \* what the last get() returned

vars == <<window, got>>

Init ==
  /\ window = << >>
  /\ got = Default

Put(x) ==
  /\ window' = IF Len(window) < N THEN Append(window, x)
                                  ELSE Append(Tail(window), x)
  /\ UNCHANGED got

Get ==
  /\ window' = IF window = << >> THEN << >> ELSE Tail(window)
  /\ got' = IF window = << >> THEN Default ELSE Head(window)

Reset ==
  /\ window' = << >>
  /\ UNCHANGED got

Next ==
  \/ \E x \in Item : Put(x)
  \/ Get
  \/ Reset

Spec == Init /\ [][Next]_vars
============================================================================
