------------------------------ MODULE ProgramText ------------------------------
(***************************************************************************)
(* What can be read off the text of a program before it is run: in which   *)
(* order it deletes, and which sandboxes are up, paused or serving when it *)
(* comes to a step.  ProgramTextProofs shows what follows for its runs.    *)
(***************************************************************************)
EXTENDS ResourcePrograms

(* Bases are deleted in cleanups, where no deletion of a sandbox comes after  *)
(* the first of them and no creation of one in a later block.                *)
BasesLast(text) ==
  \A b \in DOMAIN text :
    /\ \A j \in DOMAIN text[b].body :
         text[b].body[j].do \in {"delete", "sweep", "keep"} =>
           text[b].body[j].on \cap Bases = {}
    /\ \A j \in DOMAIN text[b].cleanup :
         text[b].cleanup[j].do \in {"delete", "sweep"} /\ text[b].cleanup[j].on \cap Bases # {} =>
           /\ \A i \in DOMAIN text[b].cleanup :
                i >= j /\ text[b].cleanup[i].do = "delete" => text[b].cleanup[i].on \subseteq Bases
           /\ \A c \in DOMAIN text : c > b => Created(text[c].body) \subseteq Bases

(* The programs that clean up after themselves delete bases last. *)
OrderedPrograms == \A p \in CleanPrograms : BasesLast(Programs[p])

-----------------------------------------------------------------------------
(* What is known of the resources at a place of the text, whichever way the   *)
(* program got there: which are up, which are paused, whose server listens.  *)
Facts == [up : SUBSET Resources, paused : SUBSET Resources, listening : SUBSET Resources]
NoFacts == [up |-> {}, paused |-> {}, listening |-> {}]

Implies(f, g) ==
  g.up \subseteq f.up /\ g.paused \subseteq f.paused /\ g.listening \subseteq f.listening

(* A step that moves sandboxes leaves what was known of them in doubt.       *)
Moves(s) ==
  IF s.do \in {"create", "pause", "resume", "selfPause", "selfDelete", "recover", "delete", "sweep"}
    THEN s.on ELSE {}
Boots(s) == IF s.do = "serve" THEN s.on ELSE {}

KeptBy(s, f) ==
  [up |-> f.up \ Moves(s), paused |-> f.paused \ Moves(s), listening |-> f.listening \ Boots(s)]

(* What a step shows that has succeeded. *)
GainedBy(s) ==
  [up |-> IF s.do \in {"awaitRunning", "recover"} \/ (s.do = "create" /\ s.births = "up")
            THEN s.on ELSE {},
   paused |-> IF s.do = "awaitPaused" THEN s.on ELSE {},
   listening |-> IF s.do = "awaitPort" THEN s.on ELSE {}]

Both(f, g) ==
  [up |-> f.up \cup g.up, paused |-> f.paused \cup g.paused,
   listening |-> f.listening \cup g.listening]

After(s, f) == Both(KeptBy(s, f), GainedBy(s))

(* outline[j] is known before step j: it follows from what was known before   *)
(* each step that leads there, and the last entry is known behind the steps. *)
StepsOutlined(steps, outline) ==
  /\ outline \in [1 .. Len(steps) + 1 -> Facts]
  /\ \A j \in DOMAIN steps :
       /\ steps[j].do # "raise" =>
            /\ j + steps[j].ok <= Len(steps) + 1
            /\ Implies(After(steps[j], outline[j]), outline[j + steps[j].ok])
       /\ \A n \in steps[j].fail \ {0} :
            /\ j + n <= Len(steps) + 1
            /\ Implies(KeptBy(steps[j], outline[j]), outline[j + n])

(* A step needs what it calls to be up, paused or listening. *)
Supported(s, f) ==
  /\ s.do \in {"call", "serve", "fetch", "pause"} => s.on \subseteq f.up
  /\ s.do = "create" /\ s.from # "none" => s.from \in f.paused
  /\ s.do = "fetch" => s.on \subseteq f.listening

(* An outline of a program runs through its bodies and cleanups in turn.  The *)
(* calls of a cleanup need nothing: it may have been entered by a throw.     *)
Outlines(outline, text) ==
  /\ DOMAIN outline = DOMAIN text
  /\ outline[1].body[1] = NoFacts
  /\ \A b \in DOMAIN text :
       LET body == text[b].body
           cleanup == text[b].cleanup
       IN
       /\ StepsOutlined(body, outline[b].body) /\ StepsOutlined(cleanup, outline[b].cleanup)
       /\ Implies(outline[b].body[Len(body) + 1], outline[b].cleanup[1])
       /\ b + 1 \in DOMAIN text =>
            Implies(outline[b].cleanup[Len(cleanup) + 1], outline[b + 1].body[1])
       /\ \A j \in DOMAIN body : Supported(body[j], outline[b].body[j])
       /\ \A j \in DOMAIN cleanup : cleanup[j].do \notin {"fetch", "create"}
=============================================================================
