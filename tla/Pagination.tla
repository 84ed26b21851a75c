------------------------------ MODULE Pagination ------------------------------
(***************************************************************************)
(* iteratePages and extractPage (src/http.ts): one walk over a list         *)
(* endpoint by offset and limit.  The walk is a generator: it requests a    *)
(* page when the consumer has taken the rows of the one before, so rows are *)
(* created and deleted between two pages - by the consumer, too, when it    *)
(* deletes what it was handed.                                              *)
(***************************************************************************)
EXTENDS Integers, FiniteSets, SequencesExt, FiniteSetsExt

CONSTANTS PageLimit,  \* rows asked for at most per request: 500 in the code
          Caps,       \* values of page.cap, None for undefined
          None,       \* undefined
          MaxRows     \* bound on the rows that ever exist

ASSUME ConstantsAssumption ==
  /\ PageLimit \in Nat \ {0}
  /\ Caps \subseteq Nat \cup {None} /\ None \notin Nat
  /\ MaxRows \in Nat

VARIABLES list,     \* the rows of the collection, in the order of the server
          deleted,  \* rows deleted since the walk began
          initial,  \* rows 1 .. initial existed when it began
          shape,    \* what the endpoint answers with: the "paged" envelope, an
                    \* "untotalled" one, or the "whole" list
          cap,      \* page.cap
          phase,    \* "request", "page" in hand, "done", "failed", "stopped"
          offset,   \* the local variable of iteratePages
          page,     \* rows of the page not handed out yet, its size and total
          yielded   \* the rows handed to the consumer

listVars == <<list, deleted>>
fixedVars == <<initial, shape, cap>>
vars == <<listVars, fixedVars, phase, offset, page, yielded>>

Shapes == {"paged", "untotalled", "whole"}

NoPage == [items |-> <<>>, size |-> 0, total |-> None]

Init ==
  /\ initial \in 0 .. MaxRows
  /\ list = [i \in 1 .. initial |-> i]
  /\ deleted = {}
  /\ shape \in Shapes
  /\ cap \in Caps
  /\ phase = "request" /\ offset = 0 /\ page = NoPage /\ yielded = <<>>

Ended == phase \in {"done", "failed", "stopped"}

(* Every row there has been. *)
Ever == ToSet(list) \cup deleted

(* A row is created anywhere in the order of the list. *)
Create ==
  /\ ~Ended /\ Cardinality(Ever) < MaxRows
  /\ \E i \in 1 .. Len(list) + 1 :
       list' = InsertAt(list, i, Cardinality(Ever) + 1)
  /\ UNCHANGED <<deleted, fixedVars, phase, offset, page, yielded>>

Delete ==
  /\ ~Ended
  /\ \E i \in DOMAIN list : /\ list' = RemoveAt(list, i)
                            /\ deleted' = deleted \cup {list[i]}
  /\ UNCHANGED <<fixedVars, phase, offset, page, yielded>>
-----------------------------------------------------------------------------
pageSize == IF cap = None THEN PageLimit ELSE Min({cap, PageLimit})

(* Rows in a page: the server may cut a page short, but returns a row when    *)
(* there is one; a limit of 0 means no rows, or the default of the server.   *)
PageLengths ==
  LET left == Max({0, Len(list) - offset})
  IN IF left = 0 THEN {0}
     ELSE IF pageSize = 0 THEN 0 .. left
     ELSE 1 .. Min({pageSize, left})

(* Takes a missing total for -1. *)
extractPageTotal(n) ==
  IF shape = "whole" THEN [items |-> list, size |-> Len(list), total |-> -1]
  ELSE [items |-> SubSeq(list, offset + 1, offset + n), size |-> n,
        total |-> IF shape = "paged" THEN Len(list) ELSE -1]

(* extractPage of a reply with n rows: a bare array or a legacy wrapper holds *)
(* the whole list and no total; an envelope may come without a numeric one.  *)
extractPage(n) ==
  IF shape = "whole" THEN [items |-> list, size |-> Len(list), total |-> None]
  ELSE [items |-> SubSeq(list, offset + 1, offset + n), size |-> n,
        total |-> IF shape = "paged" THEN Len(list) ELSE None]

(* The request of the page, repeated by requestRaw as it may be, resolves.   *)
RequestPage ==
  /\ phase = "request"
  /\ \E n \in PageLengths : page' = extractPage(n)
  /\ phase' = "page"
  /\ UNCHANGED <<listVars, fixedVars, offset, yielded>>

(* It rejects, or no shape is recognised, and the generator throws.          *)
RequestFails ==
  /\ phase = "request"
  /\ phase' = "failed"
  /\ UNCHANGED <<listVars, fixedVars, offset, page, yielded>>

(* Counts the rows before the one handed out. *)
CapPassed == cap # None /\ Len(yielded) >= cap

(* cap !== undefined && ++yielded >= cap, with the row handed out counted.   *)
CapReached == cap # None /\ Len(yielded) + 1 >= cap

(* yield item: the consumer takes one row and comes back. *)
Take ==
  /\ phase = "page" /\ page.items # <<>>
  /\ yielded' = Append(yielded, Head(page.items))
  /\ page' = [page EXCEPT !.items = Tail(@)]
  /\ phase' = IF CapReached THEN "done" ELSE "page"
  /\ UNCHANGED <<listVars, fixedVars, offset>>

(* The consumer breaks out of its loop. *)
Stop ==
  /\ phase = "page"
  /\ phase' = "stopped"
  /\ UNCHANGED <<listVars, fixedVars, offset, page, yielded>>

(* A walk that trusts the total alone. *)
LastPageByTotal == page.total = None \/ offset + page.size >= page.total

LastPage ==
  page.total = None \/ page.size = 0 \/ offset + page.size >= page.total

(* Counts pages where the server counts rows. *)
AdvanceByPageNumber == offset' = offset + 1

(* Steps by the size asked for, not by the rows received. *)
AdvanceByPageSize == offset' = offset + pageSize

Advance == offset' = offset + page.size

(* The page is used up: the walk is over, or goes on behind its rows.        *)
NextPage ==
  /\ phase = "page" /\ page.items = <<>>
  /\ IF LastPage THEN phase' = "done" /\ UNCHANGED <<offset, page>>
     ELSE phase' = "request" /\ Advance /\ page' = NoPage
  /\ UNCHANGED <<listVars, fixedVars, yielded>>

Walk == RequestPage \/ RequestFails \/ Take \/ Stop \/ NextPage

Next == Walk \/ Create \/ Delete

Spec == Init /\ [][Next]_vars

(* Requests settle, and the consumer keeps asking for rows.                  *)
FairSpec == Spec /\ WF_vars(Walk)
-----------------------------------------------------------------------------
(* Properties *)

Repeats == Len(yielded) - Cardinality(ToSet(yielded))
Created == Cardinality(Ever) - initial

(* Rows there from the beginning of the walk to now that were not yielded.   *)
Missed == (1 .. initial) \ (deleted \cup ToSet(yielded))

(* Every variable stays in its range. *)
TypeOK ==
  /\ list \in Seq(1 .. MaxRows) /\ yielded \in Seq(1 .. MaxRows)
  /\ deleted \subseteq 1 .. MaxRows
  /\ initial \in 0 .. MaxRows /\ shape \in Shapes /\ cap \in Caps
  /\ phase \in {"request", "page", "done", "failed", "stopped"}
  /\ offset \in 0 .. MaxRows
  /\ page.items \in Seq(1 .. MaxRows) /\ page.size \in 0 .. MaxRows
  /\ page.total \in (0 .. MaxRows) \cup {None}

(* A walk that ended short of its cap handed out every row that was there     *)
(* all along, but for one row at most per row deleted meanwhile, wherever    *)
(* rows were created and however short the pages were.  An envelope without  *)
(* a total ends the walk after its page, as a whole list does.               *)
EachDeletionCostsOneRow ==
  phase = "done" /\ shape # "untotalled" /\ (cap = None \/ Len(yielded) < cap) =>
    Cardinality(Missed) <= Cardinality(deleted)

(* A row is handed out again at most once per row created meanwhile: without  *)
(* creations the walk repeats nothing.                                       *)
EachCreationRepeatsOneRow == Repeats <= Created

(* "return at most `cap` rows" (src/http.ts:150), also when the page that      *)
(* reaches the cap holds more: the whole list, or what the server makes of a *)
(* limit of 0.  But a cap of 0 lets one row through, as the count is looked   *)
(* at behind the yield.                                                      *)
CapKept == cap # None => Len(yielded) <= Max({cap, 1})

(* The walk ends, also when a page comes without the rows its total promises  *)
(* (there is a bound on the rows created meanwhile, MaxRows).                *)
WalkEnds == <>Ended
=============================================================================
