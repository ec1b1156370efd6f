----------------------------- MODULE MidiParser -----------------------------
(***************************************************************************)
(* The incremental parser of the serial MIDI byte stream.  A byte is a     *)
(* number; what is kept between two bytes is one record.  Each byte gives  *)
(* at most one message.  The model keeps every byte received and compares  *)
(* the message a byte gives with a definition that looks at the whole      *)
(* stream instead of at a state.                                           *)
(***************************************************************************)
EXTENDS Integers, Sequences, SequencesExt

CONSTANTS
  Bytes,         \* the bytes the line may carry, one or two of each class
  MaxSysexBytes, \* longest exclusive message the parser keeps
  MaxStream      \* bound: bytes received in a behaviour

ParserAssumption ==
  Bytes \subseteq 0..255 /\ MaxSysexBytes \in Nat \ {0} /\ MaxStream \in Nat

None == -1
SysexStart == 240
SysexEnd == 247
IsRealtime(b) == b \in {248, 250, 251, 252, 254, 255}
IsChannel(b) == b \in 128..239
IsStatus(b) == b >= 128
(* How many data bytes follow a status byte; None: not a supported status. *)
DataBytes(b) ==
  CASE IsChannel(b) -> IF b \div 16 \in {12, 13} THEN 1 ELSE 2
    [] b \in {241, 243} -> 1
    [] b = 242 -> 2
    [] b = 246 -> 0
    [] OTHER -> None

VARIABLES
  enabled,  \* running status is enabled
  parser,   \* what the parser keeps between two bytes
  emitted,  \* the messages the last byte gave
  issues,   \* the issues the last byte gave
  stream    \* history: every byte received

vars == <<enabled, parser, emitted, issues, stream>>

Idle == [running |-> None, active |-> None, again |-> FALSE,
         data |-> <<>>, inSysex |-> FALSE, sysex |-> <<>>]
Message(status, data, again) == [status |-> status, data |-> data, again |-> again]
Result(p, ms, is) == [parser |-> p, messages |-> ms, issues |-> is]

Data == UNION {[1..n -> Bytes] : n \in 0..MaxSysexBytes}
TypeOK ==
  /\ enabled \in BOOLEAN
  /\ parser.running \in Bytes \cup {None} /\ parser.active \in Bytes \cup {None}
  /\ parser.active # None => Len(parser.data) < DataBytes(parser.active)
  /\ parser.data \in Data /\ parser.sysex \in Data
  /\ Len(emitted) <= 1 /\ stream \in Seq(Bytes)

Init ==
  /\ enabled \in BOOLEAN
  /\ parser = Idle /\ emitted = <<>> /\ issues = {} /\ stream = <<>>

-----------------------------------------------------------------------------
FinalizeIfComplete(p) ==
  IF Len(p.data) < DataBytes(p.active) THEN Result(p, <<>>, {})
  ELSE Result([p EXCEPT !.active = None, !.again = FALSE, !.data = <<>>],
              <<Message(p.active, SubSeq(p.data, 1, DataBytes(p.active)), p.again)>>, {})

ConsumeDataByte(p, b) ==
  CASE p.active # None -> FinalizeIfComplete([p EXCEPT !.data = Append(@, b)])
    [] p.active = None /\ enabled /\ p.running # None ->
         FinalizeIfComplete([p EXCEPT !.active = p.running, !.again = TRUE, !.data = <<b>>])
    [] OTHER -> Result(p, <<>>, {"data_without_status"})

\* Slip: a system message leaves the running status of the channel alone.
ConsumeStatusKeepRunning(p, b) ==
  CASE IsChannel(b) ->
         Result([Idle EXCEPT !.active = b, !.running = IF enabled THEN b ELSE None], <<>>, {})
    [] b = SysexStart -> Result([Idle EXCEPT !.inSysex = TRUE], <<>>, {})
    [] b = SysexEnd -> Result(Idle, <<>>, {"unexpected_sysex_end"})
    [] DataBytes(b) = 0 -> Result([Idle EXCEPT !.running = p.running], <<Message(b, <<>>, FALSE)>>, {})
    [] DataBytes(b) > 0 -> Result([Idle EXCEPT !.active = b], <<>>, {})
    [] OTHER -> Result(Idle, <<>>, {"unsupported_status"})
ConsumeStatusByte(p, b) ==
  CASE IsChannel(b) ->
         Result([Idle EXCEPT !.active = b, !.running = IF enabled THEN b ELSE None], <<>>, {})
    [] b = SysexStart -> Result([Idle EXCEPT !.inSysex = TRUE], <<>>, {})
    [] b = SysexEnd -> Result(Idle, <<>>, {"unexpected_sysex_end"})
    [] DataBytes(b) = 0 -> Result(Idle, <<Message(b, <<>>, FALSE)>>, {})
    [] DataBytes(b) > 0 /\ ~IsChannel(b) -> Result([Idle EXCEPT !.active = b], <<>>, {})
    [] OTHER -> Result(Idle, <<>>, {"unsupported_status"})

(* Inside an exclusive message; a status byte interrupts it and is read    *)
(* again as if it had not begun.                                           *)
LeaveSysex(p) == [p EXCEPT !.inSysex = FALSE, !.sysex = <<>>]
ConsumeSysexByte(p, b) ==
  CASE b = SysexEnd -> Result(LeaveSysex(p), <<Message(SysexStart, p.sysex, FALSE)>>, {})
    [] IsStatus(b) /\ b # SysexEnd ->
         [ConsumeStatusByte(LeaveSysex(p), b) EXCEPT !.issues = @ \cup {"sysex_interrupted"}]
    [] ~IsStatus(b) /\ Len(p.sysex) < MaxSysexBytes ->
         Result([p EXCEPT !.sysex = Append(@, b)], <<>>, {})
    [] OTHER -> Result(LeaveSysex(p), <<>>, {"sysex_too_long"})

ConsumeByte(p, b) ==
  CASE IsRealtime(b) -> Result(p, <<Message(b, <<>>, FALSE)>>, {})
    [] ~IsRealtime(b) /\ p.inSysex -> ConsumeSysexByte(p, b)
    [] ~IsRealtime(b) /\ ~p.inSysex /\ IsStatus(b) -> ConsumeStatusByte(p, b)
    [] OTHER -> ConsumeDataByte(p, b)

(* feed reads a chunk byte by byte; what is no byte is reported and        *)
(* skipped.                                                                *)
Feed(b) ==
  LET r == ConsumeByte(parser, b)
  IN /\ Len(stream) < MaxStream
     /\ parser' = r.parser /\ emitted' = r.messages /\ issues' = r.issues
     /\ stream' = Append(stream, b)
     /\ UNCHANGED enabled

Next == \E b \in Bytes : Feed(b)
Spec == Init /\ [][Next]_vars

-----------------------------------------------------------------------------
(* The reference: the bytes that are no realtime bytes, the last status    *)
(* among them, and the data that followed it.                              *)
Plain(s) == SelectSeq(s, LAMBDA b : ~IsRealtime(b))
LastStatus(s) == SelectLastInSeq(s, IsStatus)
Following(s) == SubSeq(s, LastStatus(s) + 1, Len(s))

(* The data of the message the last of these data bytes completes: data    *)
(* bytes are grouped by the length of the status, again and again under a  *)
(* running status, once otherwise.                                         *)
GroupEndsHere(status, n) ==
  /\ DataBytes(status) > 0
  /\ IF enabled /\ IsChannel(status) THEN n % DataBytes(status) = 0 ELSE n = DataBytes(status)

Expected(s) ==
  LET b == Last(s)  plain == Plain(s)  before == Front(plain)
      at == LastStatus(plain)  start == LastStatus(before)
      data == Following(plain)  n == Len(data)
  IN CASE IsRealtime(b) -> <<Message(b, <<>>, FALSE)>>
       [] b = SysexEnd ->
            IF start > 0 /\ before[start] = SysexStart /\ Len(Following(before)) <= MaxSysexBytes
            THEN <<Message(SysexStart, Following(before), FALSE)>> ELSE <<>>
       [] IsStatus(b) /\ ~IsRealtime(b) /\ b # SysexEnd ->
            IF DataBytes(b) = 0 THEN <<Message(b, <<>>, FALSE)>> ELSE <<>>
       [] OTHER ->
            IF n > 0 /\ at > 0 /\ GroupEndsHere(plain[at], n)
            THEN LET w == DataBytes(plain[at])
                 IN <<Message(plain[at], SubSeq(data, n - w + 1, n), n > w)>>
            ELSE <<>>

(* Whatever came before on the line, a byte gives the message that the     *)
(* framing of MIDI says: realtime bytes may fall anywhere and disturb      *)
(* nothing, a running status lasts until the next status, an interrupted   *)
(* or overlong exclusive message gives nothing and leaves nothing behind.  *)
FramingIsMidi == stream # <<>> => emitted = Expected(stream)
=============================================================================
