-------------------------------- MODULE Relay --------------------------------
(***************************************************************************)
(* What a data stream promises: the receiver gets what the sender sent, in *)
(* order, each byte once; a relay that breaks delivers nothing more.       *)
(***************************************************************************)
EXTENDS Naturals, Sequences

VARIABLES sent, got, broken
relay == <<sent, got, broken>>

RelayInit == sent = <<>> /\ got = <<>> /\ broken = FALSE

Extends(t, s) == t # s /\ Len(t) >= Len(s) /\ SubSeq(t, 1, Len(s)) = s

Send == Extends(sent', sent) /\ UNCHANGED <<got, broken>>

Deliver ==
    /\ ~broken
    /\ Extends(got', got) /\ (got' = sent \/ Extends(sent, got'))
    /\ UNCHANGED <<sent, broken>>

Break == ~broken /\ broken' = TRUE /\ UNCHANGED <<sent, got>>

RelaySpec == RelayInit /\ [][Send \/ Deliver \/ Break]_relay
=============================================================================
