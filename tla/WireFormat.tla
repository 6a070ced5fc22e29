------------------------------ MODULE WireFormat ------------------------------
(***************************************************************************)
(* ropemother/transport: one direction of a frame connection, from the     *)
(* tasks or threads that call send_frame on its channel to the one that    *)
(* receives.  On a stream socket a frame is a count and length-prefixed    *)
(* parts, written and read in any pieces; ZeroMQ and the in-memory queues  *)
(* carry whole frames.                                                     *)
(*                                                                         *)
(* A byte is a record: a digit of a header's number, in base Base, or a    *)
(* place in a part.  Widths are those of the code's struct formats, scaled *)
(* down.                                                                   *)
(***************************************************************************)
EXTENDS FrameCodec, FiniteSets, SequencesExt

CONSTANTS Senders,        \* tasks or threads that send on the channel
          Media,          \* "stream", "messages"
          Scripts,        \* what the senders may send: [Senders -> frames]
          Base,           \* of the digits of a header's number
          ReadSize,       \* SOCKET_READ_SIZE
          MaxCancels      \* bound on the sends that are cut off

ASSUME WireAssumption ==
  /\ Media \subseteq {"stream", "messages"}
  /\ Scripts \subseteq [Senders -> TransportFrames]
  /\ Base \in Nat \ {0, 1} /\ ReadSize \in Nat \ {0} /\ MaxCancels \in Nat

VARIABLES
  medium,      \* what the connection is made of
  script,      \* what each sender sends
  sender,      \* where each sender is, and the bytes it has not yet written
  lock,        \* the channel's _send_lock: {} or its holder
  pipe,        \* bytes, or frame parts, on their way
  buffer,      \* SocketFramePartsBuffer._receive_buffer
  shut,        \* the sending end of the connection is closed
  receiver,    \* where the receiving call is
  received,    \* the frames the receiver has returned
  order,       \* history: senders in the order in which their sends began
  whole,       \* history: the senders whose frames were written to the end
  told,        \* history: how the receiver was told that there is no more
  missed       \* history: a nowait call returned nothing with a frame there

sending == <<medium, script, sender, lock, shut, order, whole>>
receiving == <<buffer, receiver, received, told, missed>>

wireVars == <<sending, pipe, receiving>>

------------------------------------------------------------------------------
(* Socket framing. *)

Digits(n) == <<[digit |-> n \div Base], [digit |-> n % Base]>>

Number(bytes) == bytes[1].digit * Base + bytes[2].digit

CountSize == 2
LengthSize == 2

(* The metadata object's bytes are two; a payload has a size of its own. *)
Size(part) == IF "size" \in DOMAIN part THEN part.size ELSE 2

PartBytes(part) == [i \in 1..Size(part) |-> [text |-> part, at |-> i]]

Garbled == [frame_type |-> "garbled"]

PartOf(bytes) ==
  IF bytes = <<>> THEN [size |-> 0]
  ELSE IF \A b \in ToSet(bytes) : "text" \in DOMAIN b
       THEN IF bytes = PartBytes(bytes[1].text) THEN bytes[1].text ELSE Garbled
       ELSE Garbled

FrameBytes(parts) ==
  LET chunks[k \in 0..Len(parts)] ==
        IF k = 0 THEN Digits(Len(parts))
        ELSE chunks[k - 1] \o Digits(Size(parts[k])) \o PartBytes(parts[k])
  IN chunks[Len(parts)]

Short == 0

(* Where the part at a cursor ends; Short where the buffer ends before it. *)
PartEnd(bytes, cursor) ==
  LET from == cursor + LengthSize
      end == from + Number(SubSeq(bytes, cursor + 1, from))
  IN IF cursor = Short \/ Len(bytes) < from \/ Len(bytes) < end
     THEN Short ELSE end

(* Where the first k parts of the buffered frame end. *)
Ends(bytes) ==
  LET ends[k \in 0..Number(bytes)] ==
        IF k = 0 THEN CountSize ELSE PartEnd(bytes, ends[k - 1])
  IN ends

FrameEnd(bytes) == IF Len(bytes) < CountSize THEN Short
                   ELSE Ends(bytes)[Number(bytes)]

HasFrame(bytes) == FrameEnd(bytes) # Short

Rest(bytes) == SubSeq(bytes, FrameEnd(bytes) + 1, Len(bytes))

Parts(bytes) ==
  [k \in 1..Number(bytes) |->
     PartOf(SubSeq(bytes, Ends(bytes)[k - 1] + LengthSize + 1, Ends(bytes)[k]))]

------------------------------------------------------------------------------
WireInit ==
  /\ medium \in Media
  /\ script \in Scripts
  /\ sender = [s \in Senders |-> [at |-> "ready", left |-> <<>>]]
  /\ lock = {}
  /\ pipe = <<>> /\ buffer = <<>>
  /\ shut = FALSE
  /\ receiver = "idle" /\ received = <<>>
  /\ order = <<>> /\ whole = {}
  /\ told = "nothing" /\ missed = FALSE

Wire(s) == IF medium = "stream" THEN FrameBytes(EncodeFrame(script[s]))
           ELSE <<EncodeFrame(script[s])>>

(* send_frame encodes the frame, and waits for the channel's lock. *)
BeginSend(s) ==
  /\ sender[s].at = "ready"
  /\ lock = {}
  /\ lock' = {s}
  /\ sender' = [sender EXCEPT ![s] = [at |-> "sending", left |-> Wire(s)]]
  /\ order' = Append(order, s)
  /\ UNCHANGED <<medium, script, shut, whole, pipe, receiving>>

(* sendall and sock_sendall write as much as the socket takes at a time. *)
Write(s) ==
  /\ sender[s].at = "sending"
  /\ ~shut
  /\ \E n \in 1..Len(sender[s].left) :
       LET left == SubSeq(sender[s].left, n + 1, Len(sender[s].left))
       IN /\ pipe' = pipe \o SubSeq(sender[s].left, 1, n)
          /\ IF left # <<>>
             THEN /\ sender' = [sender EXCEPT ![s].left = left]
                  /\ UNCHANGED <<lock, whole>>
             ELSE /\ sender' = [sender EXCEPT ![s] =
                                  [at |-> "done", left |-> <<>>]]
                  /\ lock' = lock \ {s}
                  /\ whole' = whole \cup {s}
  /\ UNCHANGED <<medium, script, shut, order, receiving>>

CutOff(s) ==
  /\ sender' = [sender EXCEPT ![s] = [at |-> "failed", left |-> <<>>]]
  /\ lock' = lock \ {s}

(* A send on the closed connection raises, and releases the lock. *)
WriteFails(s) ==
  /\ sender[s].at = "sending"
  /\ shut
  /\ CutOff(s)
  /\ UNCHANGED <<medium, script, shut, order, whole, pipe, receiving>>

(***************************************************************************)
(* A task is cancelled inside sock_sendall.  What it has written stays in  *)
(* the stream, and the next holder of the lock writes behind it.           *)
(***************************************************************************)
CancelSend(s) ==
  /\ sender[s].at = "sending"
  /\ medium = "stream"
  /\ Cardinality({r \in Senders : sender[r].at = "failed"}) < MaxCancels
  /\ CutOff(s)
  /\ UNCHANGED <<medium, script, shut, order, whole, pipe, receiving>>

(* close: what a socket has taken still arrives; with linger=0 ZeroMQ may  *)
(* drop what it has not yet passed on.                                     *)
Close ==
  /\ ~shut
  /\ shut' = TRUE
  /\ IF medium = "stream" THEN UNCHANGED pipe
     ELSE \E n \in 0..Len(pipe) : pipe' = SubSeq(pipe, 1, n)
  /\ UNCHANGED <<medium, script, sender, lock, order, whole, receiving>>

------------------------------------------------------------------------------
(***************************************************************************)
(* The frames written before the first that was cut off.  Behind it, the   *)
(* receiver takes other bytes for headers: anything may come of that.      *)
(***************************************************************************)
Intact == LET cut == {i \in DOMAIN order : sender[order[i]].at = "failed"}
          IN IF cut = {} THEN Len(order)
             ELSE CHOOSE i \in 0..Len(order) :
                    i + 1 \in cut /\ \A j \in cut : i < j

Readable == Len(received) < Intact

AllWhole == Intact = Len(order)

Begin(call) ==
  /\ receiver = "idle"
  /\ told # "the end"
  /\ Readable \/ AllWhole
  /\ receiver' = call
  /\ UNCHANGED <<sending, pipe, buffer, received, told, missed>>

Returns == receiver' = "idle"

Arrives(parts) == received' = Append(received, DecodeFrame(parts))

(* receive_frame_parts: a frame the buffer holds, before any read *)
TakeFrame ==
  /\ receiver = "blocking"
  /\ Readable /\ HasFrame(buffer)
  /\ Arrives(Parts(buffer))
  /\ buffer' = Rest(buffer)
  /\ Returns
  /\ UNCHANGED <<sending, pipe, told, missed>>

(* Mutant: the end of the stream is looked for first. *)
Starved_eager == receiver = "blocking" /\ (Readable \/ AllWhole)

Starved == /\ receiver = "blocking" /\ (Readable \/ AllWhole)
           /\ ~HasFrame(buffer)

(* A read takes what there is, up to ReadSize. *)
Read ==
  /\ medium = "stream"
  /\ Starved \/ receiver = "nowait"
  /\ pipe # <<>>
  /\ LET n == IF Len(pipe) < ReadSize THEN Len(pipe) ELSE ReadSize
     IN \E k \in 1..n : /\ buffer' = buffer \o SubSeq(pipe, 1, k)
                        /\ pipe' = SubSeq(pipe, k + 1, Len(pipe))
  /\ UNCHANGED <<sending, receiver, received, told, missed>>

(* recv returns nothing: SocketFrameConnectionClosedError *)
EndOfStream ==
  /\ medium = "stream"
  /\ Starved
  /\ pipe = <<>> /\ shut
  /\ told' = "the end"
  /\ Returns
  /\ UNCHANGED <<sending, pipe, buffer, received, missed>>

(* _recv_available raises at the end of the stream, whatever is buffered. *)
EndOfStreamNowait ==
  /\ medium = "stream"
  /\ receiver = "nowait"
  /\ pipe = <<>> /\ shut
  /\ told' = "the end, nowait"
  /\ Returns
  /\ UNCHANGED <<sending, pipe, buffer, received, missed>>

(* receive_frame_parts_nowait, once the socket has no more to give *)
TakeFrameNowait ==
  /\ medium = "stream"
  /\ receiver = "nowait"
  /\ pipe = <<>> /\ ~shut
  /\ IF Readable /\ HasFrame(buffer)
     THEN /\ Arrives(Parts(buffer))
          /\ buffer' = Rest(buffer)
          /\ UNCHANGED missed
     ELSE /\ missed' = (missed \/ (AllWhole /\
                                   Len(received) < Cardinality(whole)))
          /\ UNCHANGED <<received, buffer>>
  /\ Returns
  /\ UNCHANGED <<sending, pipe, told>>

(* recv_multipart, or the queue's get *)
ReceiveMessage ==
  /\ medium = "messages"
  /\ receiver \in {"blocking", "nowait"}
  /\ pipe # <<>>
  /\ Arrives(Head(pipe))
  /\ pipe' = Tail(pipe)
  /\ Returns
  /\ UNCHANGED <<sending, buffer, told, missed>>

(* NOBLOCK finds no message; a blocking call may run into its timeout. *)
ReceiveNothing ==
  /\ medium = "messages"
  /\ receiver \in {"blocking", "nowait"}
  /\ pipe = <<>>
  /\ Returns
  /\ UNCHANGED <<sending, pipe, buffer, received, told, missed>>

------------------------------------------------------------------------------
WireNext ==
  \/ \E s \in Senders : \/ BeginSend(s) \/ Write(s) \/ WriteFails(s)
                        \/ CancelSend(s)
  \/ Close
  \/ Begin("blocking") \/ Begin("nowait")
  \/ TakeFrame \/ Read \/ EndOfStream \/ EndOfStreamNowait
  \/ TakeFrameNowait \/ ReceiveMessage \/ ReceiveNothing

WireSpec == WireInit /\ [][WireNext]_wireVars

------------------------------------------------------------------------------
(***************************************************************************)
(* What the receiver returns are the frames that were sent, value for      *)
(* value and type for type, in the order in which the sends got the lock,  *)
(* however the bytes were written and read, up to the first frame that was *)
(* cut off in the middle.                                                  *)
(***************************************************************************)
FramesArriveAsSent ==
  /\ Len(received) <= Len(order)
  /\ \A i \in DOMAIN received :
       i <= Intact => received[i] = script[order[i]]

(***************************************************************************)
(* A blocking call says that the stream has ended only after every frame   *)
(* that was written to the end, and a nowait call finds nothing only when  *)
(* no such frame has arrived.                                              *)
(***************************************************************************)
EndComesLast ==
  /\ ~missed
  /\ told = "the end" /\ AllWhole =>
       Len(received) = Cardinality(whole)
==============================================================================
