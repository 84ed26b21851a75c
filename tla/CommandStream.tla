----------------------------- MODULE CommandStream -----------------------------
(***************************************************************************)
(* streamCommand and processes.connect (src/sandbox.ts): generators of      *)
(* their own over the one of Ndjson, from which a program takes events one  *)
(* by one and which it may leave at any of them.                            *)
(***************************************************************************)
EXTENDS Ndjson

VARIABLES api,     \* "exec" for streamCommand, "connect" for processes.connect
          at,      \* where the generator is: awaiting a frame, at a yield, over
          field,   \* the members of the frame it has been through
          handed   \* the events the program was handed

commandVars == <<api, at, field, handed>>

CommandInit ==
  /\ Init
  /\ api \in {"exec", "connect"}
  /\ at = "frame" /\ field = 0 /\ handed = <<>>
-----------------------------------------------------------------------------
(* Frames *)

Fields == <<"hb", "stdout", "stderr", "error", "exit">>

(* Of the generator g: the members an event is made of, in their order.  A     *)
(* heartbeat of exec hides what comes with it; a frame of connect has a type, *)
(* and whatever is not data, an exit or a heartbeat is an error.             *)
FieldsOf(g, frame) ==
  IF g = "exec"
  THEN IF "hb" \in Range(frame) THEN {1}
       ELSE {k \in 2 .. 5 : Fields[k] \in Range(frame)}
  ELSE LET type == {k \in {1, 2, 5} : Fields[k] = frame[2]}
       IN IF type = {} THEN {4} ELSE type

(* decodeBase64Utf8 takes each frame by itself: of a character cut in two it *)
(* makes two replacement characters.                                         *)
decodeBase64Utf8(bytes) ==
  IF bytes = <<"hi64", "lo64">> THEN <<"eacute">> ELSE [i \in DOMAIN bytes |-> "?"]

(* The text of the outputs of a frame. *)
Data(g, frame) ==
  LET Among(C) == Picked(frame, {i \in DOMAIN frame : frame[i] \in C})
  IN  IF g = "exec" THEN Among({"eacute", "?", "hi64", "lo64"})
      ELSE decodeBase64Utf8(Among({"hi64", "lo64"}))

EventOf(g, k, frame) ==
  [type |-> Fields[k],
   data |-> IF Fields[k] \in {"stdout", "stderr"} THEN Data(g, frame) ELSE <<>>]

-----------------------------------------------------------------------------
(* The generator and the program *)

HasFrame == phase \in {"yield", "finalYield"}
Frame == Last(yielded)
Ahead == {k \in FieldsOf(api, Frame) : k > field}

(* for await takes a frame, or goes on with it: the next event is yielded.   *)
HandOut ==
  /\ at = "frame" /\ HasFrame /\ Ahead # {}
  /\ field' = Min(Ahead)
  /\ handed' = Append(handed, EventOf(api, field', Frame))
  /\ at' = "yield"
  /\ UNCHANGED <<vars, api>>

(* Nothing is left in the frame: for await asks for the next one.            *)
NextFrame ==
  /\ at = "frame" /\ HasFrame /\ Ahead = {}
  /\ Resume
  /\ field' = 0
  /\ UNCHANGED <<api, at, handed>>

(* The program asks for the next event. *)
Ask ==
  /\ at = "yield"
  /\ at' = "frame"
  /\ UNCHANGED <<vars, api, field, handed>>

(* The program leaves the loop without telling the generator of the frames.  *)
LeaveAlone ==
  /\ at = "yield"
  /\ at' = "over"
  /\ UNCHANGED <<vars, api, field, handed>>

(* The program breaks out of its loop, or throws in it: return() unwinds the  *)
(* for await, and that the generator of the frames.                          *)
Leave ==
  /\ at = "yield"
  /\ Stop
  /\ at' = "over"
  /\ UNCHANGED <<api, field, handed>>

(* The frames have ended, or have thrown. *)
End ==
  /\ at = "frame" /\ phase = "ended"
  /\ at' = "over"
  /\ UNCHANGED <<vars, api, field, handed>>

(* The generator of the frames goes on to its next yield. *)
Frames ==
  /\ ReadChunk \/ ReadDone \/ ReadFails \/ NextLine \/ FinalLine \/ Drain \/ Finally
  /\ UNCHANGED commandVars

CommandNext == HandOut \/ NextFrame \/ Ask \/ Leave \/ End \/ Frames

CommandSpec == CommandInit /\ [][CommandNext]_<<vars, commandVars>>
-----------------------------------------------------------------------------
(* Properties *)

(* Every variable stays in its range, and a program holds an event only      *)
(* while the generator below is at the yield of its frame.                   *)
CommandTypeOK ==
  /\ TypeOK
  /\ api \in {"exec", "connect"} /\ at \in {"frame", "yield", "over"}
  /\ field \in 0 .. 5
  /\ handed \in Seq([type : Range(Fields), data : Seq(Members)])
  /\ at = "yield" => HasFrame

(* What a program is to be handed for frames. *)
EventsOfFrame(g, frame) ==
  Picked([k \in DOMAIN Fields |-> EventOf(g, k, frame)], FieldsOf(g, frame))
EventsOfFrames(g, frames) == FlattenSeq([i \in DOMAIN frames |-> EventsOfFrame(g, frames[i])])

JsonOf(frames) == Picked(frames, {i \in DOMAIN frames : IsJson(frames[i])})

(* However the network cuts the body into chunks - in a line, in a character, *)
(* several lines in one - the next chunk is awaited only when the program    *)
(* has been handed every event of the lines that have arrived whole, and     *)
(* those alone: no output, and no error, waits in the client for more output. *)
PromptWhileReading ==
  phase = "read" =>
    LET frames == EventsOf(LinesOf(Decoded(SubSeq(body, 1, read))))
    IN  JsonOf(frames) = frames /\ handed = EventsOfFrames(api, frames)

(* What the program was handed is a beginning of the events in the body, and *)
(* all of them, those of a last line without newline included, once the      *)
(* stream ended by itself; of a line cut off by the end of the body nothing  *)
(* is handed out.                                                            *)
EventsOfBody ==
  LET text == Decoded(body)
      frames == EventsOf(Append(LinesOf(text), RestOf(text)))
      whole == JsonOf(frames)
  IN /\ IsPrefix(handed, EventsOfFrames(api, whole))
     /\ drained => frames = whole /\ handed = EventsOfFrames(api, frames)

(* No way out - the program leaving at any event, in the middle of a frame,   *)
(* too, a line that does not parse, a read that fails - leaves the generator *)
(* of the frames suspended or the body open: "cancel it so the server-side   *)
(* command or log stream is torn down" (src/ndjson.ts:54).                   *)
BodyNeverLeftOpen ==
  /\ at = "over" => phase \in {"finally", "ended"}
  /\ phase = "ended" => stream # "open"
=============================================================================
