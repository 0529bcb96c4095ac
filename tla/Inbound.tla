------------------------------ MODULE Inbound -------------------------------
(***************************************************************************)
(* What one inbound frame leads to: the checks of _validate_inbound in     *)
(* their order, and the dispatch by message type.                          *)
(***************************************************************************)

MessageType == {"connection.ready", "message.receipt", "message.delivery_ack",
                "heartbeat.pong", "protocol.error", "auth.ready", "message.send",
                "heartbeat.ping", "auth.authenticate", "queue.status"}

ClientSendable ==
    {"auth.authenticate", "message.send", "heartbeat.ping", "queue.status"}

\* The list with a privileged type added.
UnauthenticatedSendableWithStatus ==
    {"auth.authenticate", "heartbeat.ping", "queue.status"}

UnauthenticatedSendable == {"auth.authenticate", "heartbeat.ping"}

Privileged == {"message.send", "queue.status"}

\* A frame, by what the checks look at.
Frames ==
    {f \in [shape: {"oversized", "not_json", "not_object", "object"},
           version: BOOLEAN,    \* version is PROTOCOL_VERSION
           type: MessageType \cup {"other"},
           schema: BOOLEAN] :   \* InboundEnvelope accepts the object
       f.shape # "object" => f.version /\ f.type = "other" /\ f.schema}

\* The cascade with the schema checked before the authorization gate.
ValidateSchemaFirst(authed, f) ==
    CASE f.shape = "not_json"   -> "INVALID_JSON"
      [] f.shape = "not_object" -> "SCHEMA_VALIDATION_FAILED"
      [] f.shape = "object" /\ ~f.version -> "UNSUPPORTED_PROTOCOL_VERSION"
      [] f.shape = "object" /\ f.version /\ f.type \notin ClientSendable
           -> "UNKNOWN_MESSAGE_TYPE"
      [] f.shape = "object" /\ f.version /\ f.type \in ClientSendable ->
           IF ~f.schema THEN "SCHEMA_VALIDATION_FAILED"
           ELSE IF ~authed /\ f.type \notin UnauthenticatedSendable
                  THEN "AUTH_REQUIRED" ELSE "valid"

\* _validate_inbound: the first check that fails names the error.  A type
\* that is no MessageType and a server-only type get the same one.
Validate(authed, f) ==
    CASE f.shape = "not_json"   -> "INVALID_JSON"
      [] f.shape = "not_object" -> "SCHEMA_VALIDATION_FAILED"
      [] f.shape = "object" /\ ~f.version -> "UNSUPPORTED_PROTOCOL_VERSION"
      [] f.shape = "object" /\ f.version /\ f.type \notin ClientSendable
           -> "UNKNOWN_MESSAGE_TYPE"
      [] f.shape = "object" /\ f.version /\ f.type \in ClientSendable ->
           IF ~authed /\ f.type \notin UnauthenticatedSendable
             THEN "AUTH_REQUIRED"
           ELSE IF ~f.schema THEN "SCHEMA_VALIDATION_FAILED" ELSE "valid"

\* _receive_loop: what a frame leads to that is neither oversized nor over the
\* rate.
Dispatch(authed, f) ==
    CASE Validate(authed, f) # "valid" -> Validate(authed, f)
      [] Validate(authed, f) = "valid" ->
           CASE f.type = "auth.authenticate" -> "authenticate"
             [] f.type = "heartbeat.ping"    -> "pong"
             [] f.type \in Privileged        -> "privileged"
             [] OTHER                        -> "INTERNAL_PROTOCOL_ERROR"

=============================================================================
