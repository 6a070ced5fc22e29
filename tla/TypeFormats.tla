----------------------------- MODULE TypeFormats -----------------------------
(***************************************************************************)
(* ropemother/message/typeformats.py: which message types an emitter may   *)
(* use, and each with which payload formats.  A policy is made from the    *)
(* arguments of register_emitter, by the client and again by the broker,   *)
(* and both ask it about every emission.                                   *)
(*                                                                         *)
(* A format stands for its key.  Formats of a type are a sequence without  *)
(* repetition, whose first member is the type's default; an empty sequence *)
(* is a type that is not listed (an empty collection is refused).          *)
(***************************************************************************)
EXTENDS Naturals, Sequences, Functions

CONSTANTS MsgTypes, Formats,
          Default        \* an argument that is not given

ASSUME DefaultAssumption == Default \notin MsgTypes \cup Formats

(* The arguments, as _support_map_from_input accepts them. *)
EmitterArguments ==
  [type : MsgTypes, additional : SUBSET MsgTypes, format : Formats,
   listed : [MsgTypes -> Seq(Formats)], unlisted : BOOLEAN]

Policies == [type : MsgTypes, format : Formats,
             formats : [MsgTypes -> Seq(Formats)], unlisted : BOOLEAN]

(* TypeFormatSupport.with_format *)
WithFormat(formats, f) ==
  IF f \in Range(formats) THEN formats ELSE Append(formats, f)

(* normalize_type_format_policy *)
Normalize(args) ==
  [type |-> args.type,
   format |-> args.format,
   formats |-> [t \in MsgTypes |->
                  IF t \in {args.type} \cup args.additional
                  THEN WithFormat(args.listed[t], args.format)
                  ELSE args.listed[t]],
   unlisted |-> args.unlisted]

Listed(policy) == {t \in MsgTypes : policy.formats[t] # <<>>}

FormatsOf(policy) == UNION {Range(policy.formats[t]) : t \in MsgTypes}

ResolveType(policy, t) == IF t = Default THEN policy.type ELSE t

(* The format a type lists first, before the emitter's own. *)
ResolveFormat(policy, t, f) ==
  IF f # Default THEN f
  ELSE IF t \in Listed(policy) THEN policy.formats[t][1] ELSE policy.format

Supports(policy, t, f) ==
  policy.unlisted \/ f \in Range(policy.formats[t])

(* RegisterEmitterFrame: what a client's policy lists goes to the broker,  *)
(* which makes its own policy from it.                                     *)
FrameArguments(args) == [args EXCEPT !.listed = Normalize(args).formats]

==============================================================================
