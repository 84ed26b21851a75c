-------------------------------- MODULE Ndjson --------------------------------
(***************************************************************************)
(* readNdjson and parseLine (src/ndjson.ts): the generator behind stream(), *)
(* which turns the chunks of a response body into events.  A body is a      *)
(* sequence of symbols, each standing for the bytes of one token but for    *)
(* "hi" and "lo", the two bytes of one character "eacute".  "hi64" and       *)
(* "lo64" are the ASCII of these bytes in base64, the other words the        *)
(* members of a frame.                                                      *)
(***************************************************************************)
EXTENDS Integers, SequencesExt

CONSTANTS Lines,     \* the lines bodies are made of
          MaxLines,  \* bound on the lines of a body
          MaxChunk   \* bound on the symbols of a chunk

(* What the symbols of a frame, the characters of a text and the bytes of a    *)
(* body can be.                                                              *)
Members == {"eacute", "?", "hi64", "lo64", "hb", "stdout", "stderr", "error", "exit"}
Chars == {"{", "}", "sp", ":", "event:", "data:", "nl"} \cup Members
Symbols == Chars \cup {"hi", "lo"}

ASSUME ConstantsAssumption ==
  Lines \subseteq Seq(Symbols) /\ MaxLines \in Nat /\ MaxChunk \in Nat \ {0}

(* A line is UTF-8: both bytes of a character come, and in their order.      *)
ASSUME LinesAssumption ==
  \A line \in Lines : \A i \in DOMAIN line :
    /\ line[i] = "hi" => i < Len(line) /\ line[i + 1] = "lo"
    /\ line[i] = "lo" => i > 1 /\ line[i - 1] = "hi"

VARIABLES body,     \* what the server sends, cut off anywhere
          read,     \* how much of it reader.read() has returned
          carry,    \* bytes of an incomplete character in the TextDecoder
          buffer,   \* the local variable of readNdjson
          phase,    \* where the generator is
          yielded,  \* the events handed to the consumer
          drained,  \* the local variable of readNdjson
          stream    \* the ReadableStream

vars == <<body, read, carry, buffer, phase, yielded, drained, stream>>

Text(lines) == FlattenSeq([i \in DOMAIN lines |-> Append(lines[i], "nl")])

Init ==
  /\ \E n \in 0 .. MaxLines : \E lines \in [1 .. n -> Lines] :
       \E k \in 0 .. Len(Text(lines)) : body = SubSeq(Text(lines), 1, k)
  /\ read = 0 /\ carry = <<>> /\ buffer = <<>> /\ phase = "read"
  /\ yielded = <<>> /\ drained = FALSE /\ stream = "open"
-----------------------------------------------------------------------------
(* Parsing *)

(* The elements of s at the positions in I. *)
Picked(s, I) ==
  LET picked[n \in 0 .. Len(s)] ==
        IF n = 0 THEN <<>>
        ELSE IF n \in I THEN Append(picked[n - 1], s[n]) ELSE picked[n - 1]
  IN  picked[Len(s)]

(* The characters of bytes that begin and end with whole ones.               *)
Decoded(bytes) ==
  Picked([i \in DOMAIN bytes |-> IF bytes[i] = "hi" THEN "eacute" ELSE bytes[i]],
         {i \in DOMAIN bytes : bytes[i] # "lo"})

(* The bytes of an incomplete character at the end. *)
Incomplete(bytes) ==
  IF bytes # <<>> /\ Last(bytes) = "hi" THEN <<"hi">> ELSE <<>>

trimEnd(s) == LET ends == {i \in DOMAIN s : s[i] # "sp"}
              IN IF ends = {} THEN <<>> ELSE SubSeq(s, 1, Max(ends))
trimStart(s) == Reverse(trimEnd(Reverse(s)))
trim(s) == trimStart(trimEnd(s))

(* JSON.parse accepts one object, whatever members it holds, and nothing      *)
(* around it.                                                                *)
IsJson(s) ==
  /\ Len(s) >= 2 /\ s[1] = "{" /\ Last(s) = "}"
  /\ \A i \in 2 .. Len(s) - 1 : s[i] \in Members

(* The payload of a line, <<>> for one that is skipped. *)
parseLine(line) ==
  CASE line = <<>> -> <<>>
    [] line # <<>> /\ line[1] \in {":", "event:"} -> <<>>
    [] line # <<>> /\ line[1] = "data:" -> trimStart(Tail(line))
    [] OTHER -> line

Newlines(s) == {i \in DOMAIN s : s[i] = "nl"}
-----------------------------------------------------------------------------
(* The generator *)

(* Decodes each chunk by itself, as without { stream: true }. *)
DecodeWhole(chunk) ==
  LET whole == SubSeq(chunk, 1, Len(chunk) - Len(Incomplete(chunk)))
  IN /\ buffer' = buffer \o (IF chunk[1] = "lo" THEN <<"?">> ELSE <<>>)
                         \o Decoded(whole)
                         \o (IF Incomplete(chunk) = <<>> THEN <<>> ELSE <<"?">>)
     /\ carry' = <<>>

(* buffer += decoder.decode(chunk, { stream: true }). *)
Decode(chunk) ==
  LET bytes == carry \o chunk
      whole == SubSeq(bytes, 1, Len(bytes) - Len(Incomplete(bytes)))
  IN buffer' = buffer \o Decoded(whole) /\ carry' = Incomplete(bytes)

(* reader.read() returns a chunk. *)
ReadChunk ==
  /\ phase = "read"
  /\ \E n \in 1 .. MaxChunk :
       /\ read + n <= Len(body)
       /\ Decode(SubSeq(body, read + 1, read + n))
       /\ read' = read + n
  /\ phase' = "lines"
  /\ UNCHANGED <<body, yielded, drained, stream>>

(* It returns done, and decode() flushes a character cut off as U+FFFD.      *)
ReadDone ==
  /\ phase = "read" /\ read = Len(body)
  /\ buffer' = IF carry = <<>> THEN buffer ELSE Append(buffer, "?")
  /\ carry' = <<>> /\ phase' = "final" /\ stream' = "closed"
  /\ UNCHANGED <<body, read, yielded, drained>>

(* It rejects: the connection broke or the signal of the request fired.      *)
ReadFails ==
  /\ phase = "read"
  /\ phase' = "finally" /\ stream' = "errored"
  /\ UNCHANGED <<body, read, carry, buffer, yielded, drained>>

(* Hands out a line that parseLine() skips as well. *)
EmitSkipped(payload, here, next) ==
  IF payload = <<>> \/ IsJson(payload)
  THEN phase' = here /\ yielded' = Append(yielded, payload)
  ELSE phase' = "finally" /\ UNCHANGED yielded

(* The event of a line is yielded, a skipped line passed over; JSON.parse    *)
(* throws on any other.                                                      *)
Emit(payload, here, next) ==
  IF payload = <<>> THEN phase' = next /\ UNCHANGED yielded
  ELSE IF IsJson(payload)
  THEN phase' = here /\ yielded' = Append(yielded, payload)
  ELSE phase' = "finally" /\ UNCHANGED yielded

(* One round of the inner loop. *)
NextLine ==
  /\ phase = "lines"
  /\ IF Newlines(buffer) = {} THEN phase' = "read" /\ UNCHANGED <<buffer, yielded>>
     ELSE LET i == Min(Newlines(buffer))
          IN /\ Emit(parseLine(trim(SubSeq(buffer, 1, i - 1))), "yield", "lines")
             /\ buffer' = SubSeq(buffer, i + 1, Len(buffer))
  /\ UNCHANGED <<body, read, carry, drained, stream>>

(* What is left after the last newline. *)
FinalLine ==
  /\ phase = "final"
  /\ Emit(parseLine(trim(buffer)), "finalYield", "drained")
  /\ UNCHANGED <<body, read, carry, buffer, drained, stream>>

(* Takes one event per chunk: an if in place of the inner while. *)
ResumeReading ==
  /\ phase \in {"yield", "finalYield"}
  /\ phase' = IF phase = "yield" THEN "read" ELSE "drained"
  /\ UNCHANGED <<body, read, carry, buffer, yielded, drained, stream>>

(* The consumer asks for the next event. *)
Resume ==
  /\ phase \in {"yield", "finalYield"}
  /\ phase' = IF phase = "yield" THEN "lines" ELSE "drained"
  /\ UNCHANGED <<body, read, carry, buffer, yielded, drained, stream>>

(* It breaks out of its loop, or throws in it. *)
Stop ==
  /\ phase \in {"yield", "finalYield"}
  /\ phase' = "finally"
  /\ UNCHANGED <<body, read, carry, buffer, yielded, drained, stream>>

Drain ==
  /\ phase = "drained"
  /\ drained' = TRUE /\ phase' = "finally"
  /\ UNCHANGED <<body, read, carry, buffer, yielded, stream>>

(* finally: releaseLock() after a clean drain, else await cancel(), whose     *)
(* failure is swallowed; it does nothing to a stream closed or errored.      *)
Finally ==
  /\ phase = "finally"
  /\ phase' = "ended"
  /\ stream' = IF ~drained /\ stream = "open" THEN "cancelled" ELSE stream
  /\ UNCHANGED <<body, read, carry, buffer, yielded, drained>>

Next == \/ ReadChunk \/ ReadDone \/ ReadFails \/ NextLine \/ FinalLine
        \/ Resume \/ Stop \/ Drain \/ Finally

Spec == Init /\ [][Next]_vars
-----------------------------------------------------------------------------
(* Properties.  Who consumes the events is in CommandStream, and so are the  *)
(* properties of what arrives there.                                         *)

(* Every variable stays in its range, and an event is never undefined.       *)
TypeOK ==
  /\ read \in 0 .. Len(body) /\ carry \in {<<>>, <<"hi">>}
  /\ buffer \in Seq(Chars) /\ drained \in BOOLEAN
  /\ yielded \in Seq(Seq(Chars)) /\ \A i \in DOMAIN yielded : yielded[i] # <<>>
  /\ stream \in {"open", "closed", "errored", "cancelled"}
  /\ phase \in {"read", "lines", "yield", "final", "finalYield", "drained",
                "finally", "ended"}

(* The whole lines of a text, and what follows the last of them.             *)
LinesOf(text) ==
  LET ends == Picked([i \in DOMAIN text |-> i], Newlines(text))
  IN [k \in DOMAIN ends |->
        SubSeq(text, IF k = 1 THEN 1 ELSE ends[k - 1] + 1, ends[k] - 1)]
RestOf(text) == SubSeq(text, Max(Newlines(text) \cup {0}) + 1, Len(text))

(* The events of lines: their payloads, but for the lines skipped.           *)
Payloads(lines) == [k \in DOMAIN lines |-> parseLine(trim(lines[k]))]
EventsOf(lines) ==
  LET payloads == Payloads(lines)
  IN  Picked(payloads, {k \in DOMAIN lines : payloads[k] # <<>>})
=============================================================================
