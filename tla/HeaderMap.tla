------------------------------ MODULE HeaderMap ------------------------------
(***************************************************************************)
(* The maps from names to values that Request and Response keep: header    *)
(* fields, and the fields of a form.                                       *)
(***************************************************************************)
Put(m, field, value) ==
    [f \in DOMAIN m \cup {field} |-> IF f = field THEN value ELSE m[f]]

\* m[field], or the empty string.
Lookup(m, field) == IF field \in DOMAIN m THEN m[field] ELSE <<>>
=============================================================================
