---------------------------- MODULE MCCommandStream ----------------------------
(* Lines for model-checking CommandStream.                                   *)
EXTENDS CommandStream

(* A blank line; frames: output with a non-ASCII character, output of a       *)
(* character cut in two, output and exit in one frame and with a carriage    *)
(* return, a heartbeat with output, one without a member; the SSE framings   *)
(* that are skipped or stripped; and a line that is not JSON.                *)
MCLines ==
  {<<>>, <<"{", "stdout", "hi", "lo", "}">>, <<"{", "stdout", "hi64", "}">>,
   <<"{", "exit", "stderr", "}", "sp">>, <<"{", "hb", "stdout", "}">>,
   <<"data:", "sp", "{", "error", "}">>, <<"data:">>, <<":", "{", "}">>,
   <<"event:", "{", "}">>, <<"{">>}
=============================================================================
