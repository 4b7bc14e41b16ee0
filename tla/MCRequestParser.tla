---------------------------- MODULE MCRequestParser ----------------------------
(* Model-checking instance of RequestParser: short lines, and a chunk that  *)
(* some of them are longer than.                                           *)
EXTENDS RequestParser

L(kind, size, bad) ==
    [kind |-> kind, size |-> size, value |-> 0, scale |-> 1, bad |-> bad]

ContentLength(value, scale, bad) ==
    [L("content_length", 3, bad) EXCEPT !.value = value, !.scale = scale]

AllLines == {L("request", 2, "no"), L("other", 2, "byte"),
             ContentLength(1, 10, "no"), ContentLength(8, 10, "no"),
             ContentLength(0, 1, "value"), L("end", 2, "no"), L("body", 2, "no")}
=============================================================================
