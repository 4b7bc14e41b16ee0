------------------------------ MODULE Response ------------------------------
(***************************************************************************)
(* The Response of one request (src/response.cpp): a handler sets header   *)
(* fields, writes, and may report an error; when it has returned,          *)
(* WorkerThread calls Flush, and Reset when the session ends.              *)
(*                                                                         *)
(* Of what is written only the number of bytes counts.  A field's value is *)
(* what is left of its line; out holds the responses that were handed to   *)
(* the connection.                                                         *)
(*                                                                         *)
(* Variants.  An uncommented definition right before a commented one is a  *)
(* mistake that could be made in the code the latter models; nothing uses  *)
(* it but the models it gives in the other's place.                        *)
(***************************************************************************)
EXTENDS Integers, Sequences, HeaderMap

CONSTANTS
    Field,      \* header fields that a handler sets
    Value,      \* and their values
    MaxValues,  \* bound: how many values a field is given
    MaxWritten, \* bound: how many bytes a handler writes
    MaxErrors   \* bound: how many errors it reports

\* Fields and values are not empty: SetHeader and AddHeader refuse those.
ASSUME ResponseAssumption ==
    "" \notin Field \cup Value /\ {MaxValues, MaxWritten, MaxErrors} \subseteq Nat

VARIABLES
    header_map_,    \* the values of each field that has some
    wbuf_,          \* the length of the body
    finish_,
    out,            \* the responses sent
    returned        \* the handler has returned

respVars == <<header_map_, wbuf_, finish_, out, returned>>

Reset ==
    /\ header_map_' = <<>> /\ wbuf_' = 0 /\ finish_' = FALSE
    /\ out' = <<>> /\ returned' = FALSE

RespInit ==
    /\ header_map_ = <<>> /\ wbuf_ = 0 /\ finish_ = FALSE
    /\ out = <<>> /\ returned = FALSE

SetHeader(field, value) ==
    /\ ~returned
    /\ header_map_' = Put(header_map_, field, <<value>>)
    /\ UNCHANGED <<wbuf_, finish_, out, returned>>

AddHeader(field, value) ==
    LET values == Lookup(header_map_, field)
    IN  /\ ~returned /\ Len(values) < MaxValues
        /\ header_map_' = Put(header_map_, field, Append(values, value))
        /\ UNCHANGED <<wbuf_, finish_, out, returned>>

DelHeader(field) ==
    /\ ~returned
    /\ header_map_' = [f \in DOMAIN header_map_ \ {field} |-> header_map_[f]]
    /\ UNCHANGED <<wbuf_, finish_, out, returned>>

\* WriteString and WriteData.
WriteString ==
    /\ ~returned /\ wbuf_ < MaxWritten
    /\ wbuf_' = wbuf_ + 1
    /\ UNCHANGED <<header_map_, finish_, out, returned>>

Default ==
    [f \in {"Server", "Date", "Content-Type"} |->
        CASE f = "Server" -> "the server"
          [] f = "Date" -> "the date"
          [] f = "Content-Type" -> "application/octet-stream"]

FramedAdding(m, length) ==
    Put(Put(m, "Content-Length", Append(Lookup(m, "Content-Length"), length)),
        "Connection", <<"close">>)
\* What Flush and MakeHeader set, whatever the handler has set.
Framed(m, length) ==
    Put(Put(m, "Content-Length", <<length>>), "Connection", <<"close">>)

\* The lines of the header, for each field the values it is sent with: those of
\* m, and the fields the handler has not set.
MakeHeader(m) ==
    [f \in DOMAIN m \cup DOMAIN Default |->
        IF f \in DOMAIN m THEN m[f] ELSE <<Default[f]>>]

\* The pages for errors, and their lengths.
Pages ==
    [code \in {400, 403, 404, 500} |->
        CASE code = 400 -> 122 [] code = 500 -> 142 [] OTHER -> 118]

\* The length that WriteErrorMessage announces: that of 403 for 400, too.
PageAnnounced(code) == IF code = 400 THEN Pages[403] ELSE Pages[code]

ErrorHeader(code) ==
    [f \in {"Content-Length", "Connection"} \cup DOMAIN Default |->
        CASE f = "Content-Length" -> <<PageAnnounced(code)>>
          [] f = "Connection" -> <<"close">>
          [] f = "Content-Type" -> <<"text/html">>
          [] OTHER -> <<Default[f]>>]

WriteErrorMessage(code) ==
    /\ ~returned /\ Len(out) < MaxErrors
    /\ out' = Append(out,
           [code |-> code, length |-> Pages[code], head |-> ErrorHeader(code)])
    /\ wbuf_' = 0 /\ finish_' = TRUE
    /\ UNCHANGED <<header_map_, returned>>

\* The handler has returned.
Flush ==
    /\ ~returned /\ returned' = TRUE
    /\ finish_' = TRUE
    /\ IF wbuf_ = 0 THEN UNCHANGED <<header_map_, out>>
       ELSE /\ header_map_' = Framed(header_map_, wbuf_)
            /\ out' = Append(out, [code |-> 200, length |-> wbuf_,
                                   head |-> MakeHeader(header_map_')])
    /\ UNCHANGED wbuf_

RespNext ==
    \/ \E f \in Field :
           DelHeader(f) \/ \E v \in Value : SetHeader(f, v) \/ AddHeader(f, v)
    \/ WriteString \/ \E code \in DOMAIN Pages : WriteErrorMessage(code)
    \/ Flush
    \/ returned /\ Reset

RespSpec == RespInit /\ [][RespNext]_respVars

-----------------------------------------------------------------------------

\* Response r frames its body and closes the connection; a 200 has the values of
\* m, or a default, in all other fields.
FramedAs(r, m) ==
    /\ r.head["Content-Length"]
           = <<IF r.code = 400 THEN r.length - 4 ELSE r.length>>
    /\ r.head["Connection"] = <<"close">>
    /\ DOMAIN Default \subseteq DOMAIN r.head
    /\ r.code = 200 =>
          \A f \in Field \ {"Content-Length", "Connection"} :
              Lookup(r.head, f) =
                  IF f \in DOMAIN m \/ f \notin DOMAIN Default
                  THEN Lookup(m, f) ELSE <<Default[f]>>

(***************************************************************************)
(* Whatever a handler has set, added, deleted and written, each response   *)
(* tells the client one length, which is that of its body, and that the    *)
(* connection is closed after it.  The page for 400 has four bytes more    *)
(* than announced.  A 200 has the handler's values in all other fields,    *)
(* also in those which otherwise have a default.                           *)
(***************************************************************************)
ResponseIsFramed == \A i \in DOMAIN out : FramedAs(out[i], header_map_)
=============================================================================
