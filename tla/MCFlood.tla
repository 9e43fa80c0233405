------------------------------ MODULE MCFlood ------------------------------
EXTENDS Flood, TLC

CONSTANTS a, b, c, d

Both(pairs) == pairs \cup {<<p[2], p[1]>> : p \in pairs}

(* a - b - c: two messages, and the channels of a and b towards the next   *)
(* member open late.  c is two hops from a, every message echoes.          *)
LineNode == {a, b, c}
LineLinks == Both({<<a, b>>, <<b, c>>})
LineSlow == {<<a, b>>, <<b, c>>}

(* A triangle with a fourth member d behind c: one message, which can take *)
(* both ways round; the channel of d towards c opens late.                 *)
CycleNode == {a, b, c, d}
CycleLinks == Both({<<a, b>>, <<b, c>>, <<a, c>>, <<c, d>>})
CycleSlow == {<<d, c>>}
=============================================================================
