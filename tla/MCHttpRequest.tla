----------------------------- MODULE MCHttpRequest -----------------------------
(* Option sets for model-checking HttpRequest.  2xx, final, refused and      *)
(* ambiguous statuses are represented by one member each.                    *)
EXTENDS ClientOperations

MCStatuses == {200, 404, 429, 500}

(* Every operation of the SDK, one at a time, with every choice of its caller. *)
OperationOptions == UNION {OptionsOf(op) : op \in Operations}
AllOptions == OperationOptions

(* Deletions made with the default policy. *)
Deletions ==
  {o \in OptionsOf(Remove) : o.maxRetries = MaxRetries /\ o.retry /\ o.timed}

(* Runs of a command with the default policy. *)
Commands ==
  {o \in OptionsOf(CommandOperations.runCommand) :
     o.maxRetries = MaxRetries /\ o.retry /\ o.timed}
=============================================================================
