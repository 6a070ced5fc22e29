------------------------------ MODULE FrameCodec ------------------------------
(***************************************************************************)
(* ropemother/transport/codec.py: frames to frame parts and back.          *)
(*                                                                         *)
(* A frame is a record of typed values; its first part is a JSON object,   *)
(* which knows integers, names, flags, lists and null, but no ID types and *)
(* no optional values; the second, where there is one, is the payload.  An *)
(* ID is a record of its type and its value.  What is optional is a set of *)
(* at most one element, and so is a JSON value that may be null.           *)
(***************************************************************************)
EXTENDS Naturals, Sequences

(* TypedID: equal only to an ID of the same type. *)
ID(type, value) == [type |-> type, value |-> value]

IntOf(id) == id.value

(* Mutant: an ID of zero is taken for no ID. *)
IntOrNull_falsy(ids) == {id.value : id \in {i \in ids : i.value # 0}}

IntOrNull(ids) == {id.value : id \in ids}

OptionalID(type, ints) == {ID(type, n) : n \in ints}

Each(Op(_), list) == [i \in DOMAIN list |-> Op(list[i])]

------------------------------------------------------------------------------
(* Parts: metadata alone, or metadata and a payload, which may be empty. *)

MetadataParts(metadata) == <<metadata>>

PayloadParts(metadata, payload) == <<metadata, payload>>

EncodeFormatKey(key) == [symbol |-> key.symbol.name, version |-> key.version]

DecodeFormatKey(encoded) ==
  [symbol |-> [name |-> encoded.symbol], version |-> encoded.version]

EncodeTypeFormatSupport(support) ==
  [msg_type |-> support.msg_type,
   format_keys |-> Each(EncodeFormatKey, support.format_keys)]

DecodeTypeFormatSupport(encoded) ==
  [msg_type |-> encoded.msg_type,
   format_keys |-> Each(DecodeFormatKey, encoded.format_keys)]

EncodeSymbolRegistration(r) ==
  [record_type |-> "message_symbol_registration",
   symbol_kind |-> r.symbol_kind, symbol_id |-> IntOf(r.symbol_id),
   symbol |-> r.symbol]

EncodeFormatRegistration(r) ==
  [record_type |-> "portable_format_registration",
   format_id |-> IntOf(r.format_id), format_key |-> EncodeFormatKey(r.key)]

IsSymbolRegistration(r) == "symbol_kind" \in DOMAIN r

EncodeRegistration(r) == IF IsSymbolRegistration(r)
                         THEN EncodeSymbolRegistration(r)
                         ELSE EncodeFormatRegistration(r)

IDTypeOf == [TOPIC |-> "TopicID", MSG_TYPE |-> "MessageTypeID",
             PRODUCER |-> "ProducerID"]

DecodeSymbolRegistration(e) ==
  [symbol_kind |-> e.symbol_kind,
   symbol_id |-> ID(IDTypeOf[e.symbol_kind], e.symbol_id),
   symbol |-> e.symbol]

DecodeFormatRegistration(e) ==
  [format_id |-> ID("PortableFormatID", e.format_id),
   key |-> DecodeFormatKey(e.format_key)]

DecodeRegistration(e) == IF e.record_type = "message_symbol_registration"
                         THEN DecodeSymbolRegistration(e)
                         ELSE DecodeFormatRegistration(e)

------------------------------------------------------------------------------
(* frames.py: the frames, and what their fields may hold. *)

IDs(type) == [type : {type}, value : Nat]

AtMostOne(S) == {some \in SUBSET S : \A a, b \in some : a = b}

FormatKeys == [symbol : [name : STRING], version : AtMostOne(STRING)]

TypeFormatSupports == [msg_type : STRING, format_keys : Seq(FormatKeys)]

SymbolRegistrations ==
  {r \in [symbol_kind : DOMAIN IDTypeOf, symbol_id : [type : STRING, value : Nat],
          symbol : STRING] : r.symbol_id.type = IDTypeOf[r.symbol_kind]}

FormatRegistrations == [format_id : IDs("PortableFormatID"), key : FormatKeys]

RegistrationLists == Seq(SymbolRegistrations \cup FormatRegistrations)

(* OptionalSymbolInput: None, or names; one name alone is a list of one. *)
SymbolInputs == AtMostOne(Seq(STRING))

TopicSelectors == [topic : STRING, include_subtopics : BOOLEAN]

BusOperations == {"publish", "request", "reply"}

PayloadBytes == [size : Nat]

EmitterFrames ==
  [frame : {"RegisterEmitterFrame"}, msg_topic : STRING, msg_producer : STRING,
   msg_type : STRING, format_key : FormatKeys,
   additional_msg_types : Seq(STRING), allow_unlisted_type_formats : BOOLEAN,
   supported_type_formats : Seq(TypeFormatSupports)]
    \cup [frame : {"RegisterEmitterResultFrame"},
          msg_topic_id : IDs("TopicID"), msg_producer_id : IDs("ProducerID"),
          msg_type_id : IDs("MessageTypeID"),
          msg_format_id : IDs("PortableFormatID"),
          registrations : RegistrationLists]

NameFrames ==
  [frame : {"RegisterMessageTypeFrame"}, msg_type : STRING]
    \cup [frame : {"RegisterMessageTypeResultFrame"},
          msg_type_id : IDs("MessageTypeID"),
          registrations : RegistrationLists]
    \cup [frame : {"RegisterPayloadFormatFrame"}, format_key : FormatKeys]
    \cup [frame : {"RegisterPayloadFormatResultFrame"},
          format_id : IDs("PortableFormatID"),
          registrations : RegistrationLists]

SubscriptionFrames ==
  [frame : {"SubscribeFrame"}, msg_topic : Seq(TopicSelectors),
   msg_producer : SymbolInputs, msg_type : SymbolInputs,
   request_reply_subscription : BOOLEAN]
    \cup [frame : {"SubscribeResultFrame"},
          subscription_id : IDs("TransportSubscriptionID"),
          registrations : RegistrationLists]

MessageFrames ==
  [frame : {"EmitFrame"}, msg_topic_id : IDs("TopicID"),
   msg_producer_id : IDs("ProducerID"), msg_type_id : IDs("MessageTypeID"),
   msg_format_id : IDs("PortableFormatID"), payload_bytes : PayloadBytes,
   bus_operation : BusOperations,
   correlation_id : AtMostOne(IDs("CorrelationID")),
   reply_to : AtMostOne(IDs("MessageID")),
   request_reply_subscription_id : AtMostOne(IDs("TransportSubscriptionID")),
   result_requested : BOOLEAN]
    \cup [frame : {"DeliveryFrame"},
          subscription_id : IDs("TransportSubscriptionID"),
          msg_topic_id : IDs("TopicID"), msg_producer_id : IDs("ProducerID"),
          msg_type_id : IDs("MessageTypeID"),
          msg_format_id : IDs("PortableFormatID"), msg_id : IDs("MessageID"),
          payload_bytes : PayloadBytes, bus_operation : BusOperations,
          correlation_id : AtMostOne(IDs("CorrelationID")),
          reply_to : AtMostOne(IDs("MessageID"))]
    \cup [frame : {"EmitResultFrame"}, msg_id : IDs("MessageID")]

NoticeFrames ==
  [frame : {"RegistrationFrame"}, registrations : RegistrationLists]
    \cup [frame : {"TransportErrorFrame"}, error_code : STRING,
          error_message : STRING, request_id : AtMostOne(Nat)]

(* The frames that encode_frame knows: two of NameFrames are missing in     *)
(* the union type of that name.                                            *)
TransportFrames == EmitterFrames \cup NameFrames \cup SubscriptionFrames
                     \cup MessageFrames \cup NoticeFrames

------------------------------------------------------------------------------
(* The frames with metadata alone. *)

EncodeRegisterEmitter(f) ==
  MetadataParts([frame_type |-> "register_emitter",
    msg_topic |-> f.msg_topic, msg_producer |-> f.msg_producer,
    msg_type |-> f.msg_type, format_key |-> EncodeFormatKey(f.format_key),
    additional_msg_types |-> f.additional_msg_types,
    allow_unlisted_type_formats |-> f.allow_unlisted_type_formats,
    supported_type_formats |->
      Each(EncodeTypeFormatSupport, f.supported_type_formats)])

DecodeRegisterEmitter(m) ==
  [frame |-> "RegisterEmitterFrame",
   msg_topic |-> m.msg_topic, msg_producer |-> m.msg_producer,
   msg_type |-> m.msg_type, format_key |-> DecodeFormatKey(m.format_key),
   additional_msg_types |-> m.additional_msg_types,
   allow_unlisted_type_formats |-> m.allow_unlisted_type_formats,
   supported_type_formats |->
     Each(DecodeTypeFormatSupport, m.supported_type_formats)]

EncodeRegisterEmitterResult(f) ==
  MetadataParts([frame_type |-> "register_emitter_result",
    msg_topic_id |-> IntOf(f.msg_topic_id),
    msg_producer_id |-> IntOf(f.msg_producer_id),
    msg_type_id |-> IntOf(f.msg_type_id),
    msg_format_id |-> IntOf(f.msg_format_id),
    registrations |-> Each(EncodeRegistration, f.registrations)])

DecodeRegisterEmitterResult(m) ==
  [frame |-> "RegisterEmitterResultFrame",
   msg_topic_id |-> ID("TopicID", m.msg_topic_id),
   msg_producer_id |-> ID("ProducerID", m.msg_producer_id),
   msg_type_id |-> ID("MessageTypeID", m.msg_type_id),
   msg_format_id |-> ID("PortableFormatID", m.msg_format_id),
   registrations |-> Each(DecodeRegistration, m.registrations)]

EncodeRegisterMessageType(f) ==
  MetadataParts([frame_type |-> "register_msg_type", msg_type |-> f.msg_type])

DecodeRegisterMessageType(m) ==
  [frame |-> "RegisterMessageTypeFrame", msg_type |-> m.msg_type]

EncodeRegisterMessageTypeResult(f) ==
  MetadataParts([frame_type |-> "register_msg_type_result",
    msg_type_id |-> IntOf(f.msg_type_id),
    registrations |-> Each(EncodeRegistration, f.registrations)])

DecodeRegisterMessageTypeResult(m) ==
  [frame |-> "RegisterMessageTypeResultFrame",
   msg_type_id |-> ID("MessageTypeID", m.msg_type_id),
   registrations |-> Each(DecodeRegistration, m.registrations)]

EncodeRegisterPayloadFormat(f) ==
  MetadataParts([frame_type |-> "register_payload_format",
    format_key |-> EncodeFormatKey(f.format_key)])

DecodeRegisterPayloadFormat(m) ==
  [frame |-> "RegisterPayloadFormatFrame",
   format_key |-> DecodeFormatKey(m.format_key)]

EncodeRegisterPayloadFormatResult(f) ==
  MetadataParts([frame_type |-> "register_payload_format_result",
    format_id |-> IntOf(f.format_id),
    registrations |-> Each(EncodeRegistration, f.registrations)])

DecodeRegisterPayloadFormatResult(m) ==
  [frame |-> "RegisterPayloadFormatResultFrame",
   format_id |-> ID("PortableFormatID", m.format_id),
   registrations |-> Each(DecodeRegistration, m.registrations)]

EncodeEmitResult(f) ==
  MetadataParts([frame_type |-> "emit_result", msg_id |-> IntOf(f.msg_id)])

DecodeEmitResult(m) ==
  [frame |-> "EmitResultFrame", msg_id |-> ID("MessageID", m.msg_id)]

EncodeTopicSelector(selector) ==
  [topic |-> selector.topic,
   include_subtopics |-> selector.include_subtopics]

DecodeTopicSelector(e) ==
  [topic |-> e.topic, include_subtopics |-> e.include_subtopics]

EncodeSubscribe(f) ==
  MetadataParts([frame_type |-> "subscribe",
    msg_topic |-> Each(EncodeTopicSelector, f.msg_topic),
    msg_producer |-> f.msg_producer, msg_type |-> f.msg_type,
    request_reply_subscription |-> f.request_reply_subscription])

DecodeSubscribe(m) ==
  [frame |-> "SubscribeFrame",
   msg_topic |-> Each(DecodeTopicSelector, m.msg_topic),
   msg_producer |-> m.msg_producer, msg_type |-> m.msg_type,
   request_reply_subscription |-> m.request_reply_subscription]

EncodeSubscribeResult(f) ==
  MetadataParts([frame_type |-> "subscribe_result",
    subscription_id |-> IntOf(f.subscription_id),
    registrations |-> Each(EncodeRegistration, f.registrations)])

DecodeSubscribeResult(m) ==
  [frame |-> "SubscribeResultFrame",
   subscription_id |-> ID("TransportSubscriptionID", m.subscription_id),
   registrations |-> Each(DecodeRegistration, m.registrations)]

EncodeTransportError(f) ==
  MetadataParts([frame_type |-> "transport_error",
    error_code |-> f.error_code, error_message |-> f.error_message,
    request_id |-> f.request_id])

DecodeTransportError(m) ==
  [frame |-> "TransportErrorFrame", error_code |-> m.error_code,
   error_message |-> m.error_message, request_id |-> m.request_id]

EncodeRegistrations(f) ==
  MetadataParts([frame_type |-> "registration",
    registrations |-> Each(EncodeRegistration, f.registrations)])

DecodeRegistrations(m) ==
  [frame |-> "RegistrationFrame",
   registrations |-> Each(DecodeRegistration, m.registrations)]

------------------------------------------------------------------------------
(* The frames with a payload. *)

EncodeEmit(f) ==
  PayloadParts([frame_type |-> "emit",
    msg_topic_id |-> IntOf(f.msg_topic_id),
    msg_producer_id |-> IntOf(f.msg_producer_id),
    msg_type_id |-> IntOf(f.msg_type_id),
    msg_format_id |-> IntOf(f.msg_format_id),
    bus_operation |-> f.bus_operation,
    correlation_id |-> IntOrNull(f.correlation_id),
    reply_to |-> IntOrNull(f.reply_to),
    request_reply_subscription_id |->
      IntOrNull(f.request_reply_subscription_id),
    result_requested |-> f.result_requested], f.payload_bytes)

DecodeEmit(m, payload) ==
  [frame |-> "EmitFrame",
   msg_topic_id |-> ID("TopicID", m.msg_topic_id),
   msg_producer_id |-> ID("ProducerID", m.msg_producer_id),
   msg_type_id |-> ID("MessageTypeID", m.msg_type_id),
   msg_format_id |-> ID("PortableFormatID", m.msg_format_id),
   payload_bytes |-> payload, bus_operation |-> m.bus_operation,
   correlation_id |-> OptionalID("CorrelationID", m.correlation_id),
   reply_to |-> OptionalID("MessageID", m.reply_to),
   request_reply_subscription_id |->
     OptionalID("TransportSubscriptionID", m.request_reply_subscription_id),
   result_requested |-> m.result_requested]

EncodeDelivery(f) ==
  PayloadParts([frame_type |-> "delivery",
    subscription_id |-> IntOf(f.subscription_id),
    msg_topic_id |-> IntOf(f.msg_topic_id),
    msg_producer_id |-> IntOf(f.msg_producer_id),
    msg_type_id |-> IntOf(f.msg_type_id),
    msg_format_id |-> IntOf(f.msg_format_id),
    msg_id |-> IntOf(f.msg_id), bus_operation |-> f.bus_operation,
    correlation_id |-> IntOrNull(f.correlation_id),
    reply_to |-> IntOrNull(f.reply_to)], f.payload_bytes)

DecodeDelivery(m, payload) ==
  [frame |-> "DeliveryFrame",
   subscription_id |-> ID("TransportSubscriptionID", m.subscription_id),
   msg_topic_id |-> ID("TopicID", m.msg_topic_id),
   msg_producer_id |-> ID("ProducerID", m.msg_producer_id),
   msg_type_id |-> ID("MessageTypeID", m.msg_type_id),
   msg_format_id |-> ID("PortableFormatID", m.msg_format_id),
   msg_id |-> ID("MessageID", m.msg_id),
   payload_bytes |-> payload, bus_operation |-> m.bus_operation,
   correlation_id |-> OptionalID("CorrelationID", m.correlation_id),
   reply_to |-> OptionalID("MessageID", m.reply_to)]

------------------------------------------------------------------------------
EncodeFrame(f) ==
  CASE f.frame = "RegisterEmitterFrame" -> EncodeRegisterEmitter(f)
    [] f.frame = "RegisterEmitterResultFrame" -> EncodeRegisterEmitterResult(f)
    [] f.frame = "RegisterMessageTypeFrame" -> EncodeRegisterMessageType(f)
    [] f.frame = "RegisterMessageTypeResultFrame" ->
         EncodeRegisterMessageTypeResult(f)
    [] f.frame = "RegisterPayloadFormatFrame" -> EncodeRegisterPayloadFormat(f)
    [] f.frame = "RegisterPayloadFormatResultFrame" ->
         EncodeRegisterPayloadFormatResult(f)
    [] f.frame = "RegistrationFrame" -> EncodeRegistrations(f)
    [] f.frame = "EmitFrame" -> EncodeEmit(f)
    [] f.frame = "EmitResultFrame" -> EncodeEmitResult(f)
    [] f.frame = "SubscribeFrame" -> EncodeSubscribe(f)
    [] f.frame = "SubscribeResultFrame" -> EncodeSubscribeResult(f)
    [] f.frame = "DeliveryFrame" -> EncodeDelivery(f)
    [] f.frame = "TransportErrorFrame" -> EncodeTransportError(f)

Invalid == [frame |-> "InvalidTransportFrameError"]

(* A payload where none belongs, or none where one does, is an error. *)
DecodeBare(m) ==
  CASE m.frame_type = "register_emitter" -> DecodeRegisterEmitter(m)
    [] m.frame_type = "register_emitter_result" ->
         DecodeRegisterEmitterResult(m)
    [] m.frame_type = "register_msg_type" -> DecodeRegisterMessageType(m)
    [] m.frame_type = "register_msg_type_result" ->
         DecodeRegisterMessageTypeResult(m)
    [] m.frame_type = "register_payload_format" ->
         DecodeRegisterPayloadFormat(m)
    [] m.frame_type = "register_payload_format_result" ->
         DecodeRegisterPayloadFormatResult(m)
    [] m.frame_type = "registration" -> DecodeRegistrations(m)
    [] m.frame_type = "emit_result" -> DecodeEmitResult(m)
    [] m.frame_type = "subscribe" -> DecodeSubscribe(m)
    [] m.frame_type = "subscribe_result" -> DecodeSubscribeResult(m)
    [] m.frame_type = "transport_error" -> DecodeTransportError(m)
    [] OTHER -> Invalid

DecodeLoaded(m, payload) ==
  CASE m.frame_type = "emit" -> DecodeEmit(m, payload)
    [] m.frame_type = "delivery" -> DecodeDelivery(m, payload)
    [] OTHER -> Invalid

DecodeFrame(parts) ==
  CASE Len(parts) = 1 -> DecodeBare(parts[1])
    [] Len(parts) = 2 -> DecodeLoaded(parts[1], parts[2])
    [] OTHER -> Invalid
==============================================================================
