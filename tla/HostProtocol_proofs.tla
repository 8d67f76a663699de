------------------------- MODULE HostProtocol_proofs -------------------------
(***************************************************************************)
(* Proofs about HostProtocol, for every set of bytes: a command is always  *)
(* framed, the second of two frames is always recognised, and every frame  *)
(* is answered.                                                            *)
(***************************************************************************)
EXTENDS HostProtocol, TLAPS

(* What the parser's state says about the last bytes of the connection.    *)
WindowInv ==
  /\ parser.state = "WAIT_HEADER_SECOND" => window[5] = HOST_PROTOCOL_HEADER_FIRST
  /\ parser.state = "WAIT_COMMAND" =>
       /\ window[4] = HOST_PROTOCOL_HEADER_FIRST
       /\ window[5] = HOST_PROTOCOL_HEADER_SECOND
  /\ parser.state = "WAIT_TAIL_FIRST" =>
       /\ window[3] = HOST_PROTOCOL_HEADER_FIRST
       /\ window[4] = HOST_PROTOCOL_HEADER_SECOND
       /\ window[5] = parser.command
  /\ parser.state = "WAIT_TAIL_SECOND" =>
       /\ window[2] = HOST_PROTOCOL_HEADER_FIRST
       /\ window[3] = HOST_PROTOCOL_HEADER_SECOND
       /\ window[4] = parser.command
       /\ window[5] = HOST_PROTOCOL_TAIL_FIRST
  /\ CommandWasFramed

(* The parser has followed the frame in progress from its first byte.      *)
InStep ==
  /\ sender.sent = 1 => parser.state = "WAIT_HEADER_SECOND"
  /\ sender.sent = 2 => parser.state = "WAIT_COMMAND"
  /\ sender.sent = 3 => parser.state = "WAIT_TAIL_FIRST" /\ parser.command = sender.data
  /\ sender.sent = 4 => parser.state = "WAIT_TAIL_SECOND" /\ parser.command = sender.data
  /\ sender.sent = 5 => /\ parser.state = "WAIT_HEADER_FIRST"
                        /\ event = "COMMAND" /\ command = sender.data

(* The ways the parser can be out of step: it took the frame's first byte  *)
(* for a DATA byte, or for the last byte of an older frame.  Before the    *)
(* frame ends it has reported something and waits for a header, or has     *)
(* taken the tail of the frame (44 77) for the start of another.           *)
OutOfStep ==
  /\ sender.sent = 1 =>
       \/ parser.state = "WAIT_TAIL_FIRST" /\ answers = 0
       \/ parser.state = "WAIT_HEADER_FIRST" /\ answers = 1
  /\ sender.sent = 2 =>
       \/ parser.state = "WAIT_TAIL_SECOND" /\ answers = 0
       \/ parser.state = "WAIT_HEADER_FIRST" /\ answers = 1
  /\ sender.sent = 3 =>
       parser.state \in {"WAIT_HEADER_FIRST", "WAIT_HEADER_SECOND"} /\ answers = 1
  /\ sender.sent = 4 =>
       parser.state \in {"WAIT_HEADER_FIRST", "WAIT_COMMAND"} /\ answers = 1
  /\ sender.sent = 5 =>
       parser.state \in {"WAIT_HEADER_SECOND", "WAIT_TAIL_FIRST"} /\ answers = 1

(* After a whole frame the parser is in step with the next one.            *)
SyncInv ==
  /\ sender.frames = 1 \/ InStep \/ OutOfStep
  /\ sender.frames = 1 => InStep
  /\ InStep /\ sender.sent \in 1..4 => answers <= 1
  /\ sender.sent = 0 => answers = 0 /\ sender.frames = 0
  /\ sender.sent = 5 => answers >= 1

IInv == TypeOK /\ WindowInv /\ SyncInv

-----------------------------------------------------------------------------
(* Parser and event keep their types.                                      *)
LEMMA PushedType ==
  ASSUME NEW p \in Parser, NEW byte \in Byte
  PROVE  /\ Pushed(p, byte) \in Parser
         /\ Event(p, byte) \in {"NONE", "COMMAND", "FRAME_ERROR"}
  BY ByteAssumption
     DEF ByteAssumption, Pushed, Event, Parser, ParseStates, At, host_protocol_resync,
         host_protocol_parser_reset

(* Any byte, whatever the host is doing, keeps the window's promise.       *)
LEMMA PushWindow ==
  ASSUME TypeOK, WindowInv, NEW byte \in Byte, host_protocol_byte_push(byte)
  PROVE  /\ parser' \in Parser /\ command' \in Byte
         /\ event' \in {"NONE", "COMMAND", "FRAME_ERROR"}
         /\ window' \in [1..5 -> Byte \cup {NoByte}]
         /\ WindowInv'
<1> USE ByteAssumption DEF ByteAssumption
<1>1. /\ parser' = Pushed(parser, byte) /\ event' = Event(parser, byte)
      /\ command' = IF event' = "COMMAND" THEN parser.command ELSE command
      /\ window' = [i \in 1..5 |-> IF i = 5 THEN byte ELSE window[i + 1]]
  BY DEF host_protocol_byte_push
<1>2. parser \in Parser /\ parser.command \in Byte /\ command \in Byte
  BY DEF TypeOK, Parser
<1>3. /\ parser' \in Parser /\ event' \in {"NONE", "COMMAND", "FRAME_ERROR"}
      /\ command' \in Byte
  BY <1>1, <1>2, PushedType
<1>4. /\ window' \in [1..5 -> Byte \cup {NoByte}]
      /\ window'[1] = window[2] /\ window'[2] = window[3] /\ window'[3] = window[4]
      /\ window'[4] = window[5] /\ window'[5] = byte
  BY <1>1 DEF TypeOK
<1>5. CommandWasFramed'
  <2> SUFFICES ASSUME event' = "COMMAND" PROVE window' = Frame(command')
    BY DEF CommandWasFramed
  <2>1. /\ parser.state = "WAIT_TAIL_SECOND" /\ byte = HOST_PROTOCOL_TAIL_SECOND
        /\ command' = parser.command
    BY <1>1 DEF Event, Expected
  <2>2. \A i \in 1..5 : window'[i] = Frame(command')[i]
    BY <1>4, <2>1 DEF WindowInv, Frame
  <2>3. Frame(command') = [i \in 1..5 |-> Frame(command')[i]]
    BY DEF Frame
  <2>4. window' = [i \in 1..5 |-> window'[i]]
    BY <1>4
  <2> QED BY <2>2, <2>3, <2>4
<1>6. WindowInv'
  BY <1>1, <1>2, <1>4, <1>5
     DEF WindowInv, Pushed, Expected, At, host_protocol_resync,
         host_protocol_parser_reset, Parser, ParseStates
<1> QED BY <1>3, <1>4, <1>6
(* How the parser meets the first byte of a frame.                         *)
LEMMA FrameStartSync ==
  ASSUME IInv, NEW data \in Byte, FrameStart(data)
  PROVE  /\ SyncInv' /\ answers' \in 0..2
         /\ sender' \in [frames : 0..1, sent : 0..5, data : Byte]
<1> USE ByteAssumption DEF ByteAssumption
<1>1. /\ parser' = Pushed(parser, HOST_PROTOCOL_HEADER_FIRST)
      /\ event' = Event(parser, HOST_PROTOCOL_HEADER_FIRST)
      /\ sender' = [frames |-> IF sender.sent = 5 THEN 1 ELSE 0, sent |-> 1, data |-> data]
      /\ answers' = IF event' = "NONE" THEN 0 ELSE 1
      /\ sender.sent \in {0, 5}
  BY DEF FrameStart, host_protocol_byte_push, Answer
<1>2. /\ parser.state \in ParseStates
      /\ sender.sent = 5 => parser.state \in {"WAIT_HEADER_FIRST", "WAIT_HEADER_SECOND",
                                              "WAIT_TAIL_FIRST"}
  BY DEF IInv, SyncInv, InStep, OutOfStep, TypeOK, Parser
<1>3. /\ sender' \in [frames : 0..1, sent : 0..5, data : Byte] /\ sender'.sent = 1
      /\ sender'.frames = IF sender.sent = 5 THEN 1 ELSE 0
  BY <1>1
<1>4. CASE parser.state \in {"WAIT_HEADER_FIRST", "WAIT_HEADER_SECOND", "WAIT_TAIL_FIRST"}
  <2>1. parser'.state = "WAIT_HEADER_SECOND"
    BY <1>1, <1>4 DEF Pushed, Expected, At, host_protocol_resync
  <2>2. InStep' /\ answers' \in 0..1
    BY <1>1, <1>3, <2>1 DEF InStep
  <2> QED BY <1>3, <2>2 DEF SyncInv
<1>5. CASE parser.state \in {"WAIT_COMMAND", "WAIT_TAIL_SECOND"}
  <2>1. /\ parser.state = "WAIT_COMMAND" =>
             parser'.state = "WAIT_TAIL_FIRST" /\ event' = "NONE"
        /\ parser.state = "WAIT_TAIL_SECOND" =>
             parser'.state = "WAIT_HEADER_FIRST" /\ event' = "COMMAND"
    BY <1>1 DEF Pushed, Event, Expected, host_protocol_parser_reset
  <2>2. OutOfStep' /\ ~InStep' /\ answers' \in 0..1 /\ sender'.frames = 0
    BY <1>1, <1>2, <1>3, <1>5, <2>1 DEF OutOfStep, InStep
  <2> QED BY <1>3, <2>2 DEF SyncInv
<1> QED BY <1>2, <1>4, <1>5 DEF ParseStates

(* The later bytes of a frame, in step and out of step.                    *)
LEMMA FrameByteSync ==
  ASSUME IInv, FrameByte
  PROVE  /\ SyncInv' /\ answers' \in 0..2
         /\ sender' \in [frames : 0..1, sent : 0..5, data : Byte]
<1> USE ByteAssumption DEF ByteAssumption
<1> DEFINE byte == Frame(sender.data)[sender.sent + 1]
<1>0. /\ sender.sent \in 1..4 /\ sender.data \in Byte /\ sender.frames \in 0..1
      /\ answers \in 0..2 /\ parser.command \in Byte
  BY DEF FrameByte, IInv, TypeOK, Parser
<1>1. /\ sender.sent = 1 => byte = HOST_PROTOCOL_HEADER_SECOND
      /\ sender.sent = 2 => byte = sender.data
      /\ sender.sent = 3 => byte = HOST_PROTOCOL_TAIL_FIRST
      /\ sender.sent = 4 => byte = HOST_PROTOCOL_TAIL_SECOND
  BY <1>0 DEF Frame
<1>2. /\ parser' = Pushed(parser, byte) /\ event' = Event(parser, byte)
      /\ command' = IF event' = "COMMAND" THEN parser.command ELSE command
      /\ sender' = [frames |-> sender.frames, sent |-> sender.sent + 1, data |-> sender.data]
      /\ answers' = IF event' = "NONE" THEN answers ELSE answers + 1
  BY DEF FrameByte, host_protocol_byte_push, Answer
<1> HIDE DEF byte
<1>3. /\ sender' \in [frames : 0..1, sent : 0..5, data : Byte]
      /\ sender'.sent = sender.sent + 1 /\ sender'.frames = sender.frames
      /\ sender'.data = sender.data
  BY <1>0, <1>2
<1>4. CASE InStep
  <2>1. answers <= 1
    BY <1>0, <1>4 DEF IInv, SyncInv
  <2>2. InStep'
    BY <1>0, <1>1, <1>2, <1>3, <1>4
       DEF InStep, Pushed, Event, Expected, At, host_protocol_parser_reset
  <2>3. event' = IF sender.sent = 4 THEN "COMMAND" ELSE "NONE"
    BY <1>0, <1>1, <1>2, <1>4 DEF InStep, Event, Expected
  <2> QED BY <1>0, <1>2, <1>3, <2>1, <2>2, <2>3 DEF SyncInv
<1>5. CASE ~InStep
  <2>1. OutOfStep /\ sender.frames = 0
    BY <1>0, <1>5 DEF IInv, SyncInv
  <2>2. OutOfStep'
    BY <1>0, <1>1, <1>2, <1>3, <2>1
       DEF OutOfStep, Pushed, Event, Expected, At, host_protocol_resync,
           host_protocol_parser_reset
  <2>3. ~InStep' /\ answers' \in 0..1 /\ (sender'.sent = 5 => answers' = 1)
    BY <1>0, <1>3, <2>2 DEF OutOfStep, InStep
  <2> QED BY <1>0, <1>3, <2>1, <2>2, <2>3 DEF SyncInv
<1> QED BY <1>4, <1>5

(* IInv holds initially and is preserved by every byte and reconnection.   *)
LEMMA InitIInv == Init => IInv
  BY ByteAssumption
     DEF ByteAssumption, Init, IInv, TypeOK, WindowInv, CommandWasFramed, SyncInv, InStep,
         OutOfStep, host_protocol_parser_reset, NewSender, Parser, ParseStates

(* Every step of the host keeps the invariant.                             *)
LEMMA NextIInv ==
  ASSUME IInv, [Next]_vars
  PROVE  IInv'
<1> USE ByteAssumption DEF ByteAssumption
<1>0. TypeOK /\ WindowInv
  BY DEF IInv
<1>1. ASSUME NEW byte \in Byte, Stray(byte)
      PROVE  IInv'
  <2>1. host_protocol_byte_push(byte) /\ sender' = NewSender /\ answers' = 0
    BY <1>1 DEF Stray
  <2>2. /\ sender' \in [frames : 0..1, sent : 0..5, data : Byte]
        /\ sender'.sent = 0 /\ sender'.frames = 0
    BY <2>1 DEF NewSender
  <2>3. SyncInv'
    BY <2>1, <2>2 DEF SyncInv, InStep
  <2> QED BY <1>0, <2>1, <2>2, <2>3, PushWindow DEF IInv, TypeOK
<1>2. ASSUME NEW data \in Byte, FrameStart(data)
      PROVE  IInv'
  <2>1. host_protocol_byte_push(HOST_PROTOCOL_HEADER_FIRST)
    BY <1>2 DEF FrameStart
  <2> QED BY <1>0, <1>2, <2>1, PushWindow, FrameStartSync DEF IInv, TypeOK
<1>3. ASSUME FrameByte
      PROVE  IInv'
  <2>1. host_protocol_byte_push(Frame(sender.data)[sender.sent + 1])
    BY <1>3 DEF FrameByte
  <2>2. Frame(sender.data)[sender.sent + 1] \in Byte
    BY <1>0, <1>3 DEF FrameByte, Frame, TypeOK
  <2> QED BY <1>0, <1>3, <2>1, <2>2, PushWindow, FrameByteSync DEF IInv, TypeOK
<1>4. ASSUME Reconnect
      PROVE  IInv'
  BY <1>0, <1>4
     DEF Reconnect, IInv, TypeOK, WindowInv, CommandWasFramed, SyncInv, InStep,
         host_protocol_parser_reset, NewSender, Parser, ParseStates
<1>5. ASSUME UNCHANGED vars
      PROVE  IInv'
  BY <1>5 DEF vars, IInv, TypeOK, WindowInv, CommandWasFramed, SyncInv, InStep, OutOfStep
<1> QED BY <1>1, <1>2, <1>3, <1>4, <1>5 DEF Next

(* IInv holds whatever bytes host_protocol_byte_push is given.             *)
THEOREM IInvariant == Spec => []IInv
<1>1. Init => IInv
  BY InitIInv
<1>2. IInv /\ [Next]_vars => IInv'
  BY NextIInv
<1> QED BY <1>1, <1>2, PTL DEF Spec

(* The parser, the host and the window keep their types.                   *)
THEOREM TypeCorrect == Spec => []TypeOK
<1>1. IInv => TypeOK
  BY DEF IInv
<1> QED BY <1>1, IInvariant, PTL

(* For every set of bytes, a command host_protocol_byte_push returns was   *)
(* framed by five consecutive bytes of its connection.                     *)
THEOREM CommandsAreFramed == Spec => []CommandWasFramed
<1>1. IInv => CommandWasFramed
  BY DEF IInv, WindowInv
<1> QED BY <1>1, IInvariant, PTL

(* From whatever state noise has left the parser in, it recognises the     *)
(* second of two frames sent back to back.                                 *)
THEOREM Resynchronises == Spec => []ResyncByNextFrame
<1>1. IInv => ResyncByNextFrame
  BY DEF IInv, SyncInv, InStep, ResyncByNextFrame
<1> QED BY <1>1, IInvariant, PTL

(* Every frame sent in full has made the parser report at least once.      *)
THEOREM FramesAreAnswered == Spec => []EveryFrameAnswered
<1>1. IInv => EveryFrameAnswered
  BY DEF IInv, SyncInv, EveryFrameAnswered
<1> QED BY <1>1, IInvariant, PTL

=============================================================================
