---------------------------- MODULE MyReservations ----------------------------
(***************************************************************************)
(* A student's lists of reservations and of watches on the reserve page    *)
(* (web/frontend/src/components/MyReservationsCard.tsx, with               *)
(* hooks/usePagedItems.ts, Pagination.tsx and ConfirmDialog.tsx).          *)
(*                                                                         *)
(* Both lists are loaded whole when the page opens, when a booking or a    *)
(* watch bumps reloadSignal and after a cancellation, and cut into pages   *)
(* by the client.  They share nothing else, so a behaviour follows one of  *)
(* them.  Answers may overtake each other or be lost.                      *)
(***************************************************************************)
EXTENDS Integers, Sequences, SequencesExt, FiniteSets, FiniteSetsExt

CONSTANTS
  Ids,       \* rows the server may come to hold for the student, in order
  PageSize,
  MaxCalls,  \* bound: requests under way
  None       \* no list yet, no dialog, no answer yet

VARIABLES
  list,     \* the list this behaviour follows
  held,     \* the server's side: future, held or gone, per row
  items,    \* the rows on screen, over all pages
  page,
  pending,  \* the row the open dialog names
  calls,    \* requests under way, in the order they were sent
  latest,   \* the newest load: under way, answered last; or lost, or its
            \* answer overwritten
  told      \* rows the student was told are cancelled

vars == <<list, held, items, page, pending, calls, latest, told>>

-----------------------------------------------------------------------------
(* usePagedItems                                                           *)

TotalPages(rows) == Max({1, (Cardinality(rows) + PageSize - 1) \div PageSize})
PageItems ==
  LET from == (page - 1) * PageSize + 1
  IN  {r \in items : Cardinality({q \in items : q <= r}) \in from..page * PageSize}
PageKept(p, rows) == p  \* a slip: the page stays when the list shrinks
Clamped(p, rows) == Min({p, TotalPages(rows)})

Listed == items # None

(* Pagination: only neighbouring pages can be reached.                     *)
SetPage(p) ==
  /\ Listed /\ TotalPages(items) > 1
  /\ p \in {page - 1, page + 1} \cap 1..TotalPages(items)
  /\ page' = p
  /\ UNCHANGED <<list, held, items, pending, calls, latest, told>>

-----------------------------------------------------------------------------
Request(kind, r) == [kind |-> kind, row |-> r, reply |-> None]
Room == Len(calls) < MaxCalls
UnderWay(kind) == {i \in DOMAIN calls : calls[i].kind = kind}

Load(cs) ==
  /\ calls' = Append(cs, Request("load", None))
  /\ latest' = "asked"

(* The parent bumps reloadSignal.                                          *)
Reload ==
  /\ Room
  /\ Load(calls)
  /\ UNCHANGED <<list, held, items, page, pending, told>>

(* The dialog keeps the row it was opened for, also when the list changes  *)
(* behind it, and can be dismissed while its cancellation is under way.    *)
AskToCancel(r) ==
  /\ list = "reservations" /\ pending = None
  /\ pending' = r
  /\ UNCHANGED <<list, held, items, page, calls, latest, told>>
Dismiss ==
  /\ pending # None
  /\ pending' = None
  /\ UNCHANGED <<list, held, items, page, calls, latest, told>>

Cancel(r) ==
  /\ Room
  /\ calls' = Append(calls, Request("cancel", r))
  /\ UNCHANGED <<list, held, items, page, pending, latest, told>>
ConfirmCancel == pending # None /\ UnderWay("cancel") = {} /\ Cancel(pending)

(* A watch is cancelled without a question, as often as it is pressed.     *)
HandleCancelWatch(r) == list = "watches" /\ Cancel(r)

-----------------------------------------------------------------------------
HeldRows == {r \in Ids : held[r] = "held"}
(* A reservation that has ended can still be cancelled and a watch that is *)
(* inactive too; one that was cancelled or deleted is refused.             *)
Replies(c) ==
  IF c.kind = "load" THEN {HeldRows}
  ELSE {"ok"} \cup (IF held[c.row] = "held" THEN {} ELSE {"refused"})
Serve(i) ==
  LET c == calls[i]
  IN  /\ c.reply = None
      /\ \E reply \in Replies(c) : calls' = [calls EXCEPT ![i].reply = reply]
      /\ held' = IF c.kind = "cancel" THEN [held EXCEPT ![c.row] = "gone"] ELSE held
      /\ UNCHANGED <<list, items, page, pending, latest, told>>

(* Bookings and auto-bookings appear; rows end or are cancelled elsewhere. *)
Appear(r) ==
  /\ held[r] = "future" /\ \A q \in Ids : q < r => held[q] # "future"
  /\ held' = [held EXCEPT ![r] = "held"]
  /\ UNCHANGED <<list, items, page, pending, calls, latest, told>>
Vanish(r) ==
  /\ held[r] = "held"
  /\ held' = [held EXCEPT ![r] = "gone"]
  /\ UNCHANGED <<list, items, page, pending, calls, latest, told>>

-----------------------------------------------------------------------------
Newest(i) == i = Max(UnderWay("load"))
Show(rows, i) ==
  /\ items' = rows
  /\ page' = Clamped(page, rows)
  /\ calls' = RemoveAt(calls, i)
  /\ latest' = CASE latest = "asked" /\ Newest(i) -> "answered"
                 [] latest = "answered" -> "overwritten"
                 [] OTHER -> latest
  /\ UNCHANGED <<list, held, pending, told>>

(* A cancellation that succeeds closes whatever dialog is open by now.     *)
CancelToldOnly(r, rest) ==  \* a slip: the list is not loaded again
  /\ told' = told \cup {r}
  /\ pending' = None
  /\ calls' = rest
  /\ UNCHANGED <<list, held, items, page, latest>>
CancelTold(r, rest) ==
  /\ told' = told \cup {r}
  /\ pending' = None
  /\ Load(rest)
  /\ UNCHANGED <<list, held, items, page>>
Toast(rest) ==
  /\ calls' = rest
  /\ UNCHANGED <<list, held, items, page, pending, latest, told>>

Arrive(i) ==
  /\ calls[i].reply # None
  /\ IF calls[i].kind = "load" THEN Show(calls[i].reply, i)
     ELSE IF calls[i].reply = "ok" THEN CancelTold(calls[i].row, RemoveAt(calls, i))
     ELSE Toast(RemoveAt(calls, i))

(* The request or its answer is lost: the student cannot tell which.       *)
Lose(i) ==
  /\ calls' = RemoveAt(calls, i)
  /\ latest' = IF calls[i].kind = "load" /\ latest = "asked" /\ Newest(i)
               THEN "lost" ELSE latest
  /\ UNCHANGED <<list, held, items, page, pending, told>>

-----------------------------------------------------------------------------
Init ==
  /\ list \in {"reservations", "watches"}
  /\ held \in [Ids -> {"held", "future"}]
  /\ \A q, r \in Ids : q < r /\ held[r] = "held" => held[q] = "held"
  /\ items = None /\ page = 1 /\ pending = None /\ told = {}
  /\ calls = <<Request("load", None)>> /\ latest = "asked"

Next ==
  \/ \E p \in 1..Cardinality(Ids) : SetPage(p)
  \/ Reload
  \/ Listed /\ \E r \in PageItems : AskToCancel(r) \/ HandleCancelWatch(r)
  \/ Dismiss
  \/ ConfirmCancel
  \/ \E i \in DOMAIN calls : Serve(i) \/ Arrive(i) \/ Lose(i)
  \/ \E r \in Ids : Appear(r) \/ Vanish(r)
Spec == Init /\ [][Next]_vars

-----------------------------------------------------------------------------
(* Properties                                                              *)

(* However the list shrinks under the student, rows that are there can be  *)
(* seen: the page on screen is empty only when the whole list is.          *)
NeverAnEmptyPage == Listed /\ items # {} => PageItems # {}

(* What the student was told is cancelled is off the screen once the       *)
(* newest load is the last to have been answered.  A load that fails       *)
(* leaves the row there, and an older load answered after the newest       *)
(* brings it back: both are left out.                                      *)
CancelledIsGone == Listed /\ latest = "answered" => items \cap told = {}
=============================================================================
