----------------------------- MODULE Transport ------------------------------
(***************************************************************************)
(* What the transit expects of a transporter (transit/transit.go), from    *)
(* its Connect to its Disconnect: each answers once, and only a            *)
(* transporter that is connected takes messages for its subscribers.  A    *)
(* message that was taken may be handled later.  After a Disconnect that   *)
(* failed anything may still come.                                         *)
(***************************************************************************)
CONSTANT Topics

VARIABLES
  status,   \* what Connect and Disconnect did
  taken     \* the topics with a message that was taken and is not handled yet

TypeOK ==
  /\ status \in {"new", "connecting", "on", "failed", "stopping", "stopped", "broken"}
  /\ taken \subseteq Topics

Become(from, to) == status = from /\ status' = to /\ UNCHANGED taken

Connect == Become("new", "connecting")
Connected == Become("connecting", "on")
ConnectFails == Become("connecting", "failed")
Disconnect == Become("on", "stopping")
Disconnected == Become("stopping", "stopped")
DisconnectFails == Become("stopping", "broken")

Take(t) ==
  /\ status \in {"on", "stopping", "broken"} /\ t \notin taken
  /\ taken' = taken \union {t} /\ UNCHANGED status
Handled(t) == t \in taken /\ taken' = taken \ {t} /\ UNCHANGED status

Init == status = "new" /\ taken = {}
Next ==
  \/ Connect \/ Connected \/ ConnectFails
  \/ Disconnect \/ Disconnected \/ DisconnectFails
  \/ \E t \in Topics : Take(t) \/ Handled(t)
Spec == Init /\ [][Next]_<<status, taken>>
=============================================================================
