---------------------------- MODULE MCSandboxHandle ----------------------------
(* Method sets for model-checking SandboxHandle.                             *)
EXTENDS SandboxHandle, TLC

(* The methods that write #data in different ways, and the waits. *)
Writers == {"refresh", "pause", "resume", "destroy", "resize", "fork", "ingressOn",
            "ingressOff", "waitUntilRunning", "waitUntilDestroyed"}

Symmetry == Permutations(Calls)
=============================================================================
