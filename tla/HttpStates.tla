----------------------------- MODULE HttpStates -----------------------------
(***************************************************************************)
(* The connection state machine of HttpConn::NextState (http.cc), as the    *)
(* table the nested switch spells out: where an event takes a state, and    *)
(* which pairs set `error`.  The transitions from START and IONOWORK to     *)
(* CLOSED or DEATH call Close() on the way; the composing module does that. *)
(***************************************************************************)
ConnState == {"START", "IONOWORK", "IOWORKING", "WRITEONLY", "READONLY",
              "CLOSED", "DEATH"}

(* The events the switch mentions.  Nothing passes EFINALREQUEST, nor the    *)
(* rest of the enum (ECONNIO, EREADOPEN, EWRITEOPEN, EDEATH).                *)
ConnEvent == {"EREADCLOSED", "ECLOSEWRITE", "EWORKTODO", "ENOWORK",
              "EFINALREQUEST", "EHUP", "EERR"}

(* The state after an event; "error" where the switch sets error = true. *)
Target(state, event) ==
    CASE state = "START"     /\ event \in {"EERR", "EHUP"} -> "CLOSED"
      [] state = "START"     /\ event = "EWORKTODO"        -> "IOWORKING"
      [] state = "IONOWORK"  /\ event = "EREADCLOSED"      -> "DEATH"
      [] state = "IONOWORK"  /\ event = "ECLOSEWRITE"      -> "READONLY"
      [] state = "IONOWORK"  /\ event = "EWORKTODO"        -> "IOWORKING"
      [] state = "IONOWORK"  /\ event = "EHUP"             -> "CLOSED"
      [] state = "IOWORKING" /\ event = "ENOWORK"          -> "IONOWORK"
      [] state = "IOWORKING" /\ event = "EREADCLOSED"      -> "WRITEONLY"
      [] state = "WRITEONLY" /\ event = "ECLOSEWRITE"      -> "CLOSED"
      [] state = "READONLY"  /\ event = "EREADCLOSED"      -> "CLOSED"
      [] state = "READONLY"  /\ event = "EHUP"             -> "DEATH"
      [] state = "CLOSED"    /\ event = "EFINALREQUEST"    -> "CLOSED"
      [] state = "DEATH"                                   -> "DEATH"
      [] OTHER -> "error"
=============================================================================
