---------------------------- MODULE MCWebSocket ----------------------------
(* Model-checking instance of WebSocket: short frames, as the protocol     *)
(* allows them, and a chunk that some of them are larger than.             *)
EXTENDS WebSocket

F(opcode, fin, len) == [opcode |-> opcode, fin |-> fin, header |-> 2, len |-> len]

AllFrames == {F("TEXT_FRAME", TRUE, 1), F("BINARY_FRAME", FALSE, 2),
              F("CONTINUATION", TRUE, 1), F("PING", TRUE, 1),
              F("PONG", TRUE, 0), F("reserved", TRUE, 0)}

FragmentedPing == {F("TEXT_FRAME", FALSE, 1), F("CONTINUATION", TRUE, 1),
                   F("PING", TRUE, 1)}
=============================================================================
