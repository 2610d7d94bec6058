----------------------------- MODULE AdminLists -----------------------------
(***************************************************************************)
(* The administrator's lists of reservations, watches and feedback         *)
(* (web/frontend/src/pages/admin/AdminReservationsPage.tsx,                *)
(* AdminWatchesPage.tsx, AdminFeedbackPage.tsx).                           *)
(*                                                                         *)
(* The three pages are built alike: filters, one page of rows loaded from  *)
(* the server for the filters and the page number chosen, and a dialog     *)
(* that names the row to cancel or delete.  list says which of them a      *)
(* behaviour follows.  Answers may overtake each other or be lost.         *)
(***************************************************************************)
EXTENDS Integers, Sequences, FiniteSets, FiniteSetsExt

CONSTANTS
  Rows,      \* ids of the table's rows, in the order they are listed
  Entry,     \* user, server, gpu and category of each row
  FilterBy,  \* per column, the values the administrator filters by
  PageSize,
  MaxCalls,  \* bound: requests under way
  All,       \* a filter that lets everything through
  None       \* no dialog, no answer yet

Columns == {"user", "server", "gpu", "category"}
Offered(column) == FilterBy[column] \cup {All}
NoFilters == [column \in Columns |-> All]

VARIABLES
  list,     \* "reservations", "watches" or "feedback"
  live,     \* the server's side: rows neither cancelled, ended nor deleted
  filters, page,
  shown,    \* the rows on screen: the question they answer and, of the
            \* answer, the rows, which of them were live, how many match;
            \* after: who asked, the view or a finished cancellation
  pending,  \* what the open dialog names: a row, or All of the student's
  calls,    \* requests under way, in the order they were sent
  latest    \* the newest load: under way, answered last; or lost, or its
            \* answer overwritten

vars == <<list, live, filters, page, shown, pending, calls, latest>>

-----------------------------------------------------------------------------
(* What each page asks for.  Cancelled and matched watches stay listed.    *)
Passes(r, f, columns) == \A column \in columns : f[column] \in {All, Entry[r][column]}
Matching(f) ==
  CASE list = "reservations" -> {r \in live : Passes(r, f, {"user", "server", "gpu"})}
    [] list = "watches" -> {r \in Rows : Passes(r, f, {"user", "server", "gpu"})}
    [] list = "feedback" -> {r \in live : Passes(r, f, {"user", "category"})}

PageOf(rows, p) ==
  {r \in rows : Cardinality({q \in rows : q <= r}) \in (p - 1) * PageSize + 1..p * PageSize}
Answer(f, p) ==
  LET rows == PageOf(Matching(f), p)
  IN  [rows |-> rows, live |-> rows \cap live, total |-> Cardinality(Matching(f))]

TotalPages(total) == Max({1, (total + PageSize - 1) \div PageSize})

(* Which rows on screen have a button to cancel or delete them.            *)
ReservationButtons == shown.rows
WatchButtons == shown.live
FeedbackButtons == shown.rows
Buttons ==
  CASE list = "reservations" -> ReservationButtons
    [] list = "watches" -> WatchButtons
    [] list = "feedback" -> FeedbackButtons

-----------------------------------------------------------------------------
Load(f, p, after) ==
  [kind |-> "load", of |-> [filters |-> f, page |-> p], after |-> after, reply |-> None]
Cancellation(kind, target) ==
  [kind |-> kind, of |-> [filters |-> filters, page |-> page], target |-> target,
   reply |-> None]
UnderWay(kinds) == {i \in DOMAIN calls : calls[i].kind \in kinds}
CancelKinds == {"cancel", "cancel of user"}

(* The effects of a render with filters f, whose own effects lead to       *)
(* filters g and the first page: it loads for f and the old page and then, *)
(* if that differs, for g and the first page.                              *)
ChangedSaveGpu(f, p) ==  \* a slip: the gpu is not among the dependencies
  p # page \/ [f EXCEPT !.gpu = All] # [filters EXCEPT !.gpu = All]
Changed(f, p) == f # filters \/ p # page
Loads(f, g, p) ==
  LET first == IF Changed(f, page) THEN <<Load(f, page, "view")>> ELSE <<>>
  IN  IF <<g, p>> # <<f, page>> THEN Append(first, Load(g, p, "view")) ELSE first
View(f, g, p) ==
  /\ filters' = g /\ page' = p
  /\ calls' = calls \o Loads(f, g, p)
  /\ Len(calls') <= MaxCalls
  /\ latest' = IF Loads(f, g, p) = <<>> THEN latest ELSE "asked"
  /\ UNCHANGED <<list, live, shown, pending>>

Free == pending = None
SetUser(u) ==
  LET f == [filters EXCEPT !.user = u] IN Free /\ f # filters /\ View(f, f, 1)
SetServer(s) ==
  LET f == [filters EXCEPT !.server = s]
  IN  /\ Free /\ list # "feedback" /\ f # filters
      /\ View(f, [f EXCEPT !.gpu = All], 1)
(* The GPUs offered may still be those of a server chosen before.          *)
SetGpu(g) ==
  LET f == [filters EXCEPT !.gpu = g]
  IN  /\ Free /\ list # "feedback" /\ filters.server # All /\ f # filters
      /\ View(f, f, 1)
SetCategory(c) ==
  LET f == [filters EXCEPT !.category = c]
  IN  Free /\ list = "feedback" /\ f # filters /\ View(f, f, 1)

(* The number of the page is not held against the number of pages.         *)
SetPage(p) ==
  /\ Free /\ TotalPages(shown.total) > 1
  /\ \/ p = page - 1 /\ page > 1
     \/ p = page + 1 /\ page < TotalPages(shown.total)
  /\ View(filters, filters, p)

-----------------------------------------------------------------------------
(* Cancelling and deleting                                                 *)

AskAbout(target) ==
  /\ Free
  /\ pending' = target
  /\ UNCHANGED <<list, live, filters, page, shown, calls, latest>>
Dismiss ==
  /\ ~Free
  /\ pending' = None
  /\ UNCHANGED <<list, live, filters, page, shown, calls, latest>>

Send(kind, target) ==
  /\ Len(calls) < MaxCalls
  /\ calls' = Append(calls, Cancellation(kind, target))
  /\ UNCHANGED <<list, live, filters, page, shown, pending, latest>>

(* The dialog holds on to the row it was opened for.                       *)
Confirm ==
  /\ pending \in Rows /\ UnderWay(CancelKinds) = {}
  /\ Send("cancel", pending)

OfUser(u) == {r \in Rows : Entry[r].user = u}
AskAboutUser ==
  list = "reservations" /\ filters.user # All /\ shown.total > 0 /\ AskAbout(All)
ConfirmCancelForUser ==
  /\ pending = All /\ UnderWay(CancelKinds) = {}
  /\ Send("cancel of user", filters.user)

(* After the phrase has been typed.                                        *)
HandleCancelAll ==
  /\ list = "reservations" /\ filters.user = All /\ shown.total > 0 /\ Free
  /\ Send("cancel all", All)

Hit(c) ==
  CASE c.kind = "cancel" -> live \cap {c.target}
    [] c.kind = "cancel of user" -> live \cap OfUser(c.target)
    [] c.kind = "cancel all" -> live

(* A reservation that has ended can still be cancelled and a watch that is *)
(* inactive too; one that was cancelled or deleted is refused.             *)
Outcomes(c) ==
  IF c.kind # "cancel" \/ Hit(c) # {} THEN {"ok"}
  ELSE {"refused"} \cup (IF list = "feedback" THEN {} ELSE {"ok"})

Serve(i) ==
  LET c == calls[i]
  IN  /\ c.reply = None
      /\ IF c.kind = "load"
         THEN /\ calls' = [calls EXCEPT ![i].reply = Answer(c.of.filters, c.of.page)]
              /\ UNCHANGED live
         ELSE /\ \E outcome \in Outcomes(c) :
                   calls' = [calls EXCEPT ![i].reply = outcome]
              /\ live' = live \ Hit(c)
      /\ UNCHANGED <<list, filters, page, shown, pending, latest>>

(* Rows end and are cancelled elsewhere.                                   *)
Elsewhere(r) ==
  /\ r \in live
  /\ live' = live \ {r}
  /\ UNCHANGED <<list, filters, page, shown, pending, calls, latest>>

-----------------------------------------------------------------------------
(* Answers                                                                 *)

Newest(i) == i = Max(UnderWay({"load"}))
Rest(i) == SubSeq(calls, 1, i - 1) \o SubSeq(calls, i + 1, Len(calls))
Show(i) ==
  LET c == calls[i]
  IN  /\ shown' = [of |-> c.of, after |-> c.after, rows |-> c.reply.rows,
                   live |-> c.reply.live, total |-> c.reply.total]
      /\ calls' = Rest(i)
      /\ latest' = CASE latest = "asked" /\ Newest(i) -> "answered"
                     [] latest = "answered" -> "overwritten"
                     [] OTHER -> latest
      /\ UNCHANGED <<list, live, filters, page, pending>>

(* The dialog is closed and the list loaded again, for the filters and the *)
(* page of when the cancellation was sent.                                 *)
Cancelled(c, rest) ==
  /\ pending' = CASE c.kind = "cancel" /\ pending \in Rows -> None
                  [] c.kind = "cancel of user" /\ pending = All -> None
                  [] OTHER -> pending
  /\ calls' = Append(rest, Load(c.of.filters, c.of.page, "cancellation"))
  /\ latest' = "asked"
  /\ UNCHANGED <<list, live, filters, page, shown>>

Arrive(i) ==
  /\ calls[i].reply # None
  /\ IF calls[i].kind = "load" THEN Show(i)
     ELSE IF calls[i].reply = "ok" THEN Cancelled(calls[i], Rest(i))
     ELSE /\ calls' = Rest(i)
          /\ UNCHANGED <<list, live, filters, page, shown, pending, latest>>

Lose(i) ==
  /\ calls' = Rest(i)
  /\ latest' = IF calls[i].kind = "load" /\ latest = "asked" /\ Newest(i)
               THEN "lost" ELSE latest
  /\ UNCHANGED <<list, live, filters, page, shown, pending>>

-----------------------------------------------------------------------------
Init ==
  /\ list \in {"reservations", "watches", "feedback"}
  /\ live = Rows
  /\ filters = NoFilters /\ page = 1
  /\ shown = [of |-> None, after |-> "view", rows |-> {}, live |-> {}, total |-> 0]
  /\ pending = None
  /\ calls = <<Load(NoFilters, 1, "view")>> /\ latest = "asked"

Next ==
  \/ \E u \in Offered("user") : SetUser(u)
  \/ \E s \in Offered("server") : SetServer(s)
  \/ \E g \in Offered("gpu") : SetGpu(g)
  \/ \E c \in Offered("category") : SetCategory(c)
  \/ \E p \in 1..Cardinality(Rows) : SetPage(p)
  \/ \E r \in Buttons : AskAbout(r)
  \/ AskAboutUser
  \/ Dismiss
  \/ Confirm
  \/ ConfirmCancelForUser
  \/ HandleCancelAll
  \/ \E i \in DOMAIN calls : Serve(i) \/ Arrive(i) \/ Lose(i)
  \/ \E r \in Rows : Elsewhere(r)
Spec == Init /\ [][Next]_vars

-----------------------------------------------------------------------------
(* Properties                                                              *)

(* The rows on screen are those of the filters and the page chosen, as     *)
(* soon as the newest load is the last to have been answered; only the     *)
(* load after a cancellation can be for filters left meanwhile.            *)
ListFits ==
  latest = "answered" =>
    \/ shown.of = [filters |-> filters, page |-> page]
    \/ shown.after = "cancellation"
=============================================================================
