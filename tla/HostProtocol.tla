---------------------------- MODULE HostProtocol ----------------------------
(***************************************************************************)
(* The streaming parser of the host's five-byte frames 77 44 DATA 44 77    *)
(* (application/host_protocol.c), one per TCP connection.                  *)
(*                                                                         *)
(* TCP delivers a byte stream cut anywhere, so the parser sees one byte at *)
(* a time and knows nothing of where the host's frames begin.  DATA may be *)
(* any byte, 77 and 44 included.  The host is external: it sends stray     *)
(* bytes and whole frames in any order, and may drop the connection        *)
(* between any two bytes.  A new connection resets the parser.             *)
(***************************************************************************)
EXTENDS Naturals

CONSTANTS
  Byte,
  HOST_PROTOCOL_HEADER_FIRST,   \* 0x77
  HOST_PROTOCOL_HEADER_SECOND,  \* 0x44
  HOST_PROTOCOL_TAIL_FIRST,     \* 0x44
  HOST_PROTOCOL_TAIL_SECOND,    \* 0x77
  NoByte                        \* before the first bytes of a connection

ASSUME ByteAssumption ==
  /\ HOST_PROTOCOL_HEADER_FIRST \in Byte /\ HOST_PROTOCOL_HEADER_SECOND \in Byte
  /\ HOST_PROTOCOL_HEADER_FIRST # HOST_PROTOCOL_HEADER_SECOND
  /\ HOST_PROTOCOL_TAIL_FIRST = HOST_PROTOCOL_HEADER_SECOND
  /\ HOST_PROTOCOL_TAIL_SECOND = HOST_PROTOCOL_HEADER_FIRST
  /\ 0 \in Byte /\ NoByte \notin Byte

VARIABLES
  parser,   \* the connection's host_protocol_parser_t
  event,    \* what the last host_protocol_byte_push returned
  command,  \* the byte it returned through *command
  sender,   \* the host: whether the frame in progress follows another one
            \* directly (frames = 1), its bytes sent so far, its DATA byte
  answers,  \* events, each answered by a status frame, since that frame began
  window    \* the last five bytes of this connection

vars == <<parser, event, command, sender, answers, window>>

ParseStates ==
  {"WAIT_HEADER_FIRST", "WAIT_HEADER_SECOND", "WAIT_COMMAND",
   "WAIT_TAIL_FIRST", "WAIT_TAIL_SECOND"}

Parser == [state : ParseStates, command : Byte]

-----------------------------------------------------------------------------
(* The parser.                                                             *)

host_protocol_parser_reset == [state |-> "WAIT_HEADER_FIRST", command |-> 0]

At(p, state) == [state |-> state, command |-> p.command]

(* Mutants: a byte that does not fit is skipped; it is never the header of *)
(* the next frame.                                                         *)
resync_in_place(p, byte) == p

resync_from_scratch(p, byte) == At(p, "WAIT_HEADER_FIRST")

host_protocol_resync(p, byte) ==
  At(p, IF byte = HOST_PROTOCOL_HEADER_FIRST
        THEN "WAIT_HEADER_SECOND" ELSE "WAIT_HEADER_FIRST")

(* The byte the parser must see to go on, in the states that test one.     *)
Expected(state) ==
  CASE state = "WAIT_HEADER_FIRST" -> HOST_PROTOCOL_HEADER_FIRST
    [] state = "WAIT_HEADER_SECOND" -> HOST_PROTOCOL_HEADER_SECOND
    [] state = "WAIT_TAIL_FIRST" -> HOST_PROTOCOL_TAIL_FIRST
    [] OTHER -> HOST_PROTOCOL_TAIL_SECOND

(* host_protocol_byte_push: the parser after the byte ...                  *)
Pushed(p, byte) ==
  CASE p.state = "WAIT_COMMAND" ->
         [state |-> "WAIT_TAIL_FIRST", command |-> byte]
    [] p.state # "WAIT_COMMAND" /\ byte # Expected(p.state) ->
         host_protocol_resync(p, byte)
    [] p.state = "WAIT_HEADER_FIRST" /\ byte = Expected(p.state) ->
         At(p, "WAIT_HEADER_SECOND")
    [] p.state = "WAIT_HEADER_SECOND" /\ byte = Expected(p.state) ->
         At(p, "WAIT_COMMAND")
    [] p.state = "WAIT_TAIL_FIRST" /\ byte = Expected(p.state) ->
         At(p, "WAIT_TAIL_SECOND")
    [] p.state = "WAIT_TAIL_SECOND" /\ byte = Expected(p.state) ->
         host_protocol_parser_reset

(* Mutants: noise before a header is answered; a broken tail is not.       *)
event_on_noise(p, byte) ==
  CASE p.state # "WAIT_COMMAND" /\ byte # Expected(p.state) -> "FRAME_ERROR"
    [] p.state = "WAIT_TAIL_SECOND" /\ byte = Expected(p.state) -> "COMMAND"
    [] OTHER -> "NONE"

event_silent_tail(p, byte) ==
  IF p.state = "WAIT_TAIL_SECOND" /\ byte = Expected(p.state) THEN "COMMAND" ELSE "NONE"

(* ... and the event it returns.                                           *)
Event(p, byte) ==
  CASE p.state \in {"WAIT_TAIL_FIRST", "WAIT_TAIL_SECOND"}
         /\ byte # Expected(p.state) -> "FRAME_ERROR"
    [] p.state = "WAIT_TAIL_SECOND" /\ byte = Expected(p.state) -> "COMMAND"
    [] OTHER -> "NONE"

host_protocol_byte_push(byte) ==
  /\ parser' = Pushed(parser, byte)
  /\ event' = Event(parser, byte)
  /\ command' = IF event' = "COMMAND" THEN parser.command ELSE command
  /\ window' = [i \in 1..5 |-> IF i = 5 THEN byte ELSE window[i + 1]]

-----------------------------------------------------------------------------
(* The host.                                                               *)

Frame(data) ==
  [i \in 1..5 |-> CASE i = 1 -> HOST_PROTOCOL_HEADER_FIRST
                    [] i = 2 -> HOST_PROTOCOL_HEADER_SECOND
                    [] i = 3 -> data
                    [] i = 4 -> HOST_PROTOCOL_TAIL_FIRST
                    [] i = 5 -> HOST_PROTOCOL_TAIL_SECOND]

NewSender == [frames |-> 0, sent |-> 0, data |-> 0]

(* The server answers every event with one status frame.                   *)
Answer(before) == answers' = IF event' = "NONE" THEN before ELSE before + 1

(* A byte outside any frame, or a frame given up: the count starts again.  *)
Stray(byte) ==
  /\ sender' = NewSender
  /\ answers' = 0
  /\ host_protocol_byte_push(byte)

FrameStart(data) ==
  /\ sender.sent \in {0, 5}
  /\ sender' = [frames |-> IF sender.sent = 5 THEN 1 ELSE 0, sent |-> 1, data |-> data]
  /\ host_protocol_byte_push(HOST_PROTOCOL_HEADER_FIRST)
  /\ Answer(0)

FrameByte ==
  /\ sender.sent \in 1..4
  /\ sender' = [frames |-> sender.frames, sent |-> sender.sent + 1, data |-> sender.data]
  /\ host_protocol_byte_push(Frame(sender.data)[sender.sent + 1])
  /\ Answer(answers)

(* The connection is closed or accepted anew: its parser slot is reset.    *)
Reconnect ==
  /\ parser' = host_protocol_parser_reset
  /\ event' = "NONE"
  /\ sender' = NewSender
  /\ answers' = 0
  /\ window' = [i \in 1..5 |-> NoByte]
  /\ UNCHANGED command

Init ==
  /\ parser = host_protocol_parser_reset
  /\ event = "NONE"
  /\ command = 0
  /\ sender = NewSender
  /\ answers = 0
  /\ window = [i \in 1..5 |-> NoByte]

Next ==
  \/ \E byte \in Byte : Stray(byte)
  \/ \E data \in Byte : FrameStart(data)
  \/ FrameByte
  \/ Reconnect

Spec == Init /\ [][Next]_vars

-----------------------------------------------------------------------------
(* Properties.                                                             *)

TypeOK ==
  /\ parser \in Parser
  /\ event \in {"NONE", "COMMAND", "FRAME_ERROR"}
  /\ command \in Byte
  /\ sender \in [frames : 0..1, sent : 0..5, data : Byte]
  /\ answers \in 0..2
  /\ window \in [1..5 -> Byte \cup {NoByte}]

(* A command comes from five consecutive bytes of one connection that form *)
(* a frame around it: resynchronisation never joins the head of one frame  *)
(* to the tail of another with something between them.                     *)
CommandWasFramed == event = "COMMAND" => window = Frame(command)

(* Whatever came before, of two frames sent back to back the second is     *)
(* recognised: its command is returned at its last byte.                   *)
ResyncByNextFrame ==
  sender.frames = 1 /\ sender.sent = 5 => event = "COMMAND" /\ command = sender.data
(* No frame is lost in silence: by its last byte the host has been sent a  *)
(* status, if only an error provoked by what preceded the frame.           *)
EveryFrameAnswered == sender.sent = 5 => answers >= 1

=============================================================================
