--------------------------- MODULE MCControlNode ---------------------------
(* A node that hears from one or two sources.  The frames reuse a sequence  *)
(* number and nonce with another payload, which is refused (r1, q1), jump   *)
(* past the window and ask for an update (o4), or carry a bad tag; s1       *)
(* reuses a nonce alone.                                                    *)
EXTENDS ControlNode

MCFrame(s, q, n, c, a) ==
  [src |-> s, seq |-> q, nonce |-> n, cmd |-> c, arg |-> a,
   auth |-> TRUE, bcast |-> FALSE]

s0(s) == MCFrame(s, 0, 0, "SET", 1)
r1(s) == MCFrame(s, 1, 1, "REBOOT_SOFT", 0)
q1(s) == MCFrame(s, 1, 1, "SET", 9)
s1(s) == MCFrame(s, 2, 1, "SET", 1)
o4(s) == MCFrame(s, 5, 4, "OTA_CHECK_NOW", 7)
p4(s) == MCFrame(s, 5, 4, "PING", 0)
forged(s) == [r1(s) EXCEPT !.auth = FALSE]

MCAllowedArgs == {1, 2}
MCOneSource == {"a"}
MCTwoSources == {"a", "b"}
MCGateFrames == {s0("a"), r1("a"), q1("a"), o4("a"), forged("a")}
MCTwoSourceFrames == {r1("a"), p4("a"), s1("b")}
=============================================================================
