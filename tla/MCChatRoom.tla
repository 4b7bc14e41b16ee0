----------------------------- MODULE MCChatRoom -----------------------------
(* Model-checking instance of ChatRoom: clients, connections and rooms are *)
(* interchangeable.                                                        *)
EXTENDS ChatRoom

MCItem == ({"handshake", "pong", "echo", "header", "body", "page"} \X {0})
          \cup ({"message"} \X (1..MaxMessages))

Symmetry == Permutations(Conn) \cup Permutations(Client) \cup Permutations(Room)
=============================================================================
