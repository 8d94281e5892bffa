---------------------------- MODULE MCBreakpoint ----------------------------
(* Model values for Breakpoint: 2-byte words over a 6-byte text whose     *)
(* bytes are all distinct, so a clobbered neighbour is always visible.    *)
EXTENDS Breakpoint

CONSTANTS b1, b2

MCAddr == 0 .. 5
MCText == [a \in MCAddr |-> a + 1]
MCBps == {b1, b2}
\* two breakpoints in one word, and one straddling two words
MCBpAddr == [b \in MCBps |-> IF b = b1 THEN 1 ELSE 2]
\* a breakpoint in the last byte of the mapping: its word crosses the end
MCBpAddrAtEnd == [b \in MCBps |-> IF b = b1 THEN 1 ELSE 5]
\* a zero-initialised struct breakpoint
MCJunk == {0}
=============================================================================
