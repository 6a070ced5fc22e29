----------------------------- MODULE MCWireFormat -----------------------------
(* Frames of every kind, with the values that are easily mistaken: IDs of    *)
(* zero, no IDs, empty lists and empty payloads.                             *)
EXTENDS WireFormat

CONSTANTS s1, s2

Zero(type) == ID(type, 0)

Optional(type) == {{}, {Zero(type)}, {ID(type, 1)}}

Key == [symbol |-> [name |-> "json"], version |-> {"1"}]

MCRegistrations ==
  {<<>>,
   <<[symbol_kind |-> "TOPIC", symbol_id |-> Zero("TopicID"), symbol |-> "t"],
     [symbol_kind |-> "MSG_TYPE", symbol_id |-> Zero("MessageTypeID"),
      symbol |-> "m"]>>,
   <<[format_id |-> Zero("PortableFormatID"), key |-> Key],
     [symbol_kind |-> "PRODUCER", symbol_id |-> ID("ProducerID", 1),
      symbol |-> "p"]>>}

Payloads == {[size |-> 0], [size |-> 1]}

Emits ==
  {[frame |-> "EmitFrame", msg_topic_id |-> Zero("TopicID"),
    msg_producer_id |-> ID("ProducerID", 1),
    msg_type_id |-> Zero("MessageTypeID"),
    msg_format_id |-> Zero("PortableFormatID"),
    payload_bytes |-> payload, bus_operation |-> "request",
    correlation_id |-> c, reply_to |-> r, request_reply_subscription_id |-> q,
    result_requested |-> result] :
     payload \in {[size |-> 1]}, c \in Optional("CorrelationID"),
     r \in Optional("MessageID"), q \in Optional("TransportSubscriptionID"),
     result \in BOOLEAN}

Deliveries ==
  {[frame |-> "DeliveryFrame",
    subscription_id |-> Zero("TransportSubscriptionID"),
    msg_topic_id |-> Zero("TopicID"), msg_producer_id |-> Zero("ProducerID"),
    msg_type_id |-> ID("MessageTypeID", 1),
    msg_format_id |-> Zero("PortableFormatID"), msg_id |-> Zero("MessageID"),
    payload_bytes |-> payload, bus_operation |-> operation,
    correlation_id |-> c, reply_to |-> r] :
     payload \in Payloads, operation \in {"publish", "reply"},
     c \in Optional("CorrelationID"), r \in Optional("MessageID")}

Requests ==
  {[frame |-> "RegisterEmitterFrame", msg_topic |-> "t", msg_producer |-> "p",
    msg_type |-> "m", format_key |-> Key, additional_msg_types |-> types,
    allow_unlisted_type_formats |-> unlisted,
    supported_type_formats |->
      [i \in DOMAIN types |-> [msg_type |-> types[i],
                               format_keys |-> <<Key>>]]] :
     types \in {<<>>, <<"m">>, <<"m", "n">>}, unlisted \in BOOLEAN}
  \cup {[frame |-> "SubscribeFrame",
         msg_topic |-> <<[topic |-> "t", include_subtopics |-> below]>>,
         msg_producer |-> producer, msg_type |-> {},
         request_reply_subscription |-> reply] :
          below \in BOOLEAN, producer \in {{}, {<<"p", "q">>}}, reply \in BOOLEAN}
  \cup {[frame |-> "RegisterMessageTypeFrame", msg_type |-> "m"],
        [frame |-> "RegisterPayloadFormatFrame", format_key |-> Key]}

Answers ==
  UNION {{[frame |-> "RegisterEmitterResultFrame",
           msg_topic_id |-> Zero("TopicID"),
           msg_producer_id |-> Zero("ProducerID"),
           msg_type_id |-> Zero("MessageTypeID"),
           msg_format_id |-> Zero("PortableFormatID"), registrations |-> r],
          [frame |-> "RegisterMessageTypeResultFrame",
           msg_type_id |-> Zero("MessageTypeID"), registrations |-> r],
          [frame |-> "RegisterPayloadFormatResultFrame",
           format_id |-> Zero("PortableFormatID"), registrations |-> r],
          [frame |-> "SubscribeResultFrame",
           subscription_id |-> Zero("TransportSubscriptionID"),
           registrations |-> r],
          [frame |-> "RegistrationFrame", registrations |-> r]}
         : r \in MCRegistrations}
  \cup {[frame |-> "EmitResultFrame", msg_id |-> Zero("MessageID")],
        [frame |-> "TransportErrorFrame", error_code |-> "e",
         error_message |-> "m", request_id |-> {}]}

MCFrames == Emits \cup Deliveries \cup Requests \cup Answers

Second == CHOOSE f \in Emits : f.payload_bytes.size = 1

MCScripts == {(s1 :> f) @@ (s2 :> Second) : f \in MCFrames}
==============================================================================
