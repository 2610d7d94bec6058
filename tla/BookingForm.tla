----------------------------- MODULE BookingForm -----------------------------
(***************************************************************************)
(* The booking form of the reserve page (web/frontend/src/pages/           *)
(* ReservePage.tsx): the slots it offers, the window it submits, and the   *)
(* answers about the selected GPU that it shows.                           *)
(*                                                                         *)
(* Slots lie on a grid of UTC instants while days are those of the lab's   *)
(* zone, Offset ticks ahead of UTC, so local midnight need not be a slot.  *)
(* The list of slots is computed when the chosen day changes, or starts or *)
(* stops being today, and then kept.  Answers may overtake each other, and *)
(* any of them may be lost.                                                *)
(*                                                                         *)
(* Which GPUs can be picked is the subject of Glance.  The chart beside    *)
(* the form and the RAM and wording in it, which enter what is sent and    *)
(* nothing else, are left out.                                             *)
(***************************************************************************)
EXTENDS Integers, Sequences, SequencesExt, FiniteSetsExt

CONSTANTS
  Gpus,
  Slot, Hour, Day, Offset,  \* ticks of a slot, an hour, a day; ahead of UTC
  Horizon,                  \* booking_horizon_days
  Durations,                \* ticks of the hours a student types; any number goes
  MaxTime,                  \* bound: the clock stops here
  MaxCalls,                 \* bound: requests under way
  None                      \* no GPU, nothing shown

VARIABLES
  now,
  form,    \* selected GPU; day, start and length of the form; text typed
  offered, \* the memoised slots: day, whether it was today, the slots
  free,    \* the window whose free RAM is shown
  calls,   \* requests under way, in the order they were sent
  latest   \* the question about the window: not due, due after the debounce,
           \* asked, answered last; or lost, or its answer overwritten

vars == <<now, form, offered, free, calls, latest>>

-----------------------------------------------------------------------------
(* The calendar                                                            *)

LocalDay(t) == (t + Offset) \div Day
Midnight(day) == day * Day - Offset
Today == LocalDay(now)
LastDay == Today + Horizon

(* The slots of the 24 hours of a day, none of them before notBefore.      *)
SlotOptions(day, notBefore) ==
  {t \in Midnight(day)..(Midnight(day) + Day - 1) :
     t % Slot = 0 /\ t >= notBefore}

-----------------------------------------------------------------------------
(* Rendering: f is the form a handler leaves, cs the requests under way,   *)
(* told the free RAM it has set, about what that answers.                  *)

(* useMemo: computed again when the day, or whether it is today, changes.  *)
Offer(f) ==
  IF offered.day = f.day /\ offered.today = (f.day = Today) THEN offered
  ELSE [day |-> f.day, today |-> f.day = Today,
        slots |-> SlotOptions(f.day, IF f.day = Today THEN now ELSE Midnight(f.day))]

(* The effect that moves a start which is not offered to the first slot.   *)
StartKept(f, slots) == f  \* a slip: left as it is
StartFixed(f, slots) ==
  IF slots # {} /\ f.start \notin slots THEN [f EXCEPT !.start = Min(slots)]
  ELSE f

Window(f) == [gpu |-> f.gpu, start |-> f.start, length |-> f.length]
Question(kind, f) == [kind |-> kind, on |-> Window(f), reply |-> None]

(* The effect of the window: a changed one hides the free RAM and restarts *)
(* the debounce, be it changed by the handler (f) or by the start that the *)
(* render after it corrects (g).                                           *)
WindowMoved(f) == f.gpu # form.gpu  \* a slip: start and length forgotten
WindowChanged(f) == Window(f) # Window(form)
Render(f, cs, told, about) ==
  LET o == Offer(f)
      g == StartFixed(f, o.slots)
      moved == WindowChanged(f) \/ WindowChanged(g)
  IN  /\ form' = g
      /\ offered' = o
      /\ calls' = cs
      /\ Len(calls') <= MaxCalls
      /\ free' = IF moved THEN None ELSE told
      /\ latest' = IF ~moved THEN about
                   ELSE IF g.gpu = None THEN "not due" ELSE "due"

Edit(f) == Render(f, calls, free, latest) /\ UNCHANGED now

-----------------------------------------------------------------------------
(* The student                                                             *)

Shown == form.gpu # None
Pick(g) == form.gpu # g /\ Edit([form EXCEPT !.gpu = g])
Deselected == Shown /\ Edit([form EXCEPT !.gpu = None])
PickDate(day) == Shown /\ day # form.day /\ Edit([form EXCEPT !.day = day])
PickStart(t) ==
  Shown /\ offered.slots # {} /\ t # form.start /\ Edit([form EXCEPT !.start = t])
TypeHours(d) == Shown /\ d # form.length /\ Edit([form EXCEPT !.length = d])
TypeText(typed) == Shown /\ typed # form.text /\ Edit([form EXCEPT !.text = typed])

UnderWay(kind) == {i \in DOMAIN calls : calls[i].kind = kind}

(* The description is filled in and no earlier press is under way.         *)
Press(kind) ==
  /\ Shown /\ form.text
  /\ UnderWay(kind) = {}
  /\ Render(form, Append(calls, Question(kind, form)), free, latest)
  /\ UNCHANGED now
HandleSubmit == Press("create")
HandleCreateWatch == Press("watch")

(* 300 ms after the last change of the window.                             *)
Ask ==
  /\ latest = "due"
  /\ Len(calls) < MaxCalls
  /\ latest' = "asked"
  /\ calls' = Append(calls, Question("free", form))
  /\ UNCHANGED <<now, form, offered, free>>

-----------------------------------------------------------------------------
(* The server: a window that is empty, in the past or off the grid at      *)
(* either end is refused, and any may be.                                  *)
Acceptable(w) ==
  /\ 0 < w.length /\ now <= w.start
  /\ w.start % Slot = 0 /\ (w.start + w.length) % Slot = 0
Serve(i) ==
  /\ calls[i].kind = "create" /\ calls[i].reply = None
  /\ \E reply \in {"ok", "refused"} :
       /\ reply = "ok" => Acceptable(calls[i].on)
       /\ calls' = [calls EXCEPT ![i].reply = reply]
  /\ UNCHANGED <<now, form, offered, free, latest>>

(* resetForm: the defaults of a fresh page.                                *)
Reset == [form EXCEPT !.day = LocalDay(now + Hour), !.start = now + Hour,
                      !.length = Hour, !.text = FALSE]

(* A booking that succeeds empties the form, whatever is in it by now.     *)
Booked(rest) == Render(Reset, rest, free, latest)
FreeRamTold(c, rest, newest) ==
  Render(form, rest, c.on,
         CASE latest = "asked" /\ newest -> "answered"
           [] latest = "answered" -> "overwritten"
           [] OTHER -> latest)
OnlyToast(rest) == Render(form, rest, free, latest)

(* Only the answer to a booking says more than that it has come.           *)
Answered(i) == calls[i].kind = "create" => calls[i].reply # None
Newest(i) == UnderWay("free") = {} \/ i = Max(UnderWay("free"))
Arrive(i) ==
  LET c == calls[i]
      rest == RemoveAt(calls, i)
  IN  /\ Answered(i)
      /\ CASE c.kind = "free" -> FreeRamTold(c, rest, Newest(i))
           [] c.kind = "create" /\ c.reply = "ok" -> Booked(rest)
           [] OTHER -> OnlyToast(rest)
      /\ UNCHANGED now

(* Nothing handles a lost question; a lost booking or watch is a toast.    *)
Lose(i) ==
  LET c == calls[i]
      rest == RemoveAt(calls, i)
  IN  /\ IF c.kind \in {"create", "watch"} THEN OnlyToast(rest)
         ELSE /\ calls' = rest
              /\ latest' = IF c.kind = "free" /\ latest = "asked" /\ Newest(i)
                           THEN "lost" ELSE latest
              /\ UNCHANGED <<form, offered, free>>
      /\ UNCHANGED now

Tick ==
  /\ now < MaxTime
  /\ now' = now + 1
  /\ UNCHANGED <<form, offered, free, calls, latest>>

-----------------------------------------------------------------------------
(* The page once the regulation has arrived.                               *)
Init ==
  /\ now = 0
  /\ LET day == LocalDay(now + Hour)
         slots == SlotOptions(day, IF day = Today THEN now ELSE Midnight(day))
     IN  /\ offered = [day |-> day, today |-> day = Today, slots |-> slots]
         /\ form = [gpu |-> None, day |-> day, start |-> Min(slots), length |-> Hour,
                    text |-> FALSE]
  /\ free = None /\ calls = <<>> /\ latest = "not due"

FormNext ==
  \/ \E g \in Gpus : Pick(g)
  \/ Deselected
  \/ \E day \in Today..LastDay : PickDate(day)
  \/ \E t \in offered.slots : PickStart(t)
  \/ \E d \in Durations : TypeHours(d)
  \/ \E typed \in BOOLEAN : TypeText(typed)
  \/ HandleSubmit
  \/ HandleCreateWatch
  \/ Ask

AnswerNext == \E i \in DOMAIN calls : Serve(i) \/ Arrive(i) \/ Lose(i)

Next == FormNext \/ AnswerNext \/ Tick
Spec == Init /\ [][Next]_vars

-----------------------------------------------------------------------------
(* Properties                                                              *)

(* The start the form would submit lies on the slot grid of the server, in *)
(* any zone, whatever was reset, left over from another day or never       *)
(* offered.  The end is that start and the length typed, any number, and   *)
(* may lie off the grid: then the server refuses it (Acceptable).          *)
StartOnGrid == form.start % Slot = 0

(* The free RAM on screen is that of the window on screen as soon as the   *)
(* question about that window is the last to have been answered: only an   *)
(* answer that comes late or never can make it another window's.           *)
FreeRamFits == latest = "answered" => free = Window(form)
=============================================================================
