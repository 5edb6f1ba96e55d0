--------------------------- MODULE MCTransports -----------------------------
(* Two topics, the second subscribed after the first.                      *)
EXTENDS Transports
CONSTANTS req, res

MCTopics == {req, res}
MCOrder == <<req, res>>
=============================================================================
