------------------------------- MODULE Session -------------------------------
(***************************************************************************)
(* The signed-in session of the web client, over the accounts of the lab   *)
(* (web/frontend/src/api/client.ts, auth/, pages/LoginPage.tsx,            *)
(* pages/ChangePasswordPage.tsx, App.tsx, and the answers of deps.py and   *)
(* routers/auth.py).                                                       *)
(*                                                                         *)
(* Every tab of the browser shows the user it last heard about, while the  *)
(* token its requests carry lives in localStorage, which all tabs share.   *)
(* A request is sent with the token of that moment, is looked at by the    *)
(* server some time later, and its answer arrives some time after that, in *)
(* any order, or never.  A 401, whichever request it answers, removes the  *)
(* token and the user shown; a wrong password is answered 401 as well.     *)
(***************************************************************************)
EXTENDS Accounts, FiniteSets

CONSTANTS
  Tabs,
  OpenedAt,   \* pages a tab may be opened or reloaded at
  MaxTokens,  \* bound: tokens issued
  MaxLoads,   \* bound: how often tabs are opened or reloaded
  MaxCalls,   \* bound: requests under way at once
  None        \* no token, no user, no answer yet

Pages == {"home", "password", "admin"}
Serials == 1..MaxTokens
Token == [sub : Ids, serial : Serials]
Shown == [id : Ids, admin : BOOLEAN]
Kinds == {"me", "meAfterLogin", "login", "poll", "password", "admin"}

ASSUME OpenedAtAssumption == OpenedAt \subseteq Pages \cup {"login"}
ASSUME BoundsAssumption == MaxTokens \in Nat /\ MaxLoads \in Nat
ASSUME NoneAssumption == None \notin Token \cup Shown

TabRow == [page : Pages \cup {"login", "closed"}, user : Shown \cup {None},
           loading : BOOLEAN]

(* What the server says, and a request under way.                          *)
Answer == [status : {"ok", "401", "403"}, user : Shown \cup {None},
           token : Token \cup {None}]
CallRow == [tab : Tabs, kind : Kinds, token : Token \cup {None},
            reply : Answer \cup {None}, form : BOOLEAN]

VARIABLES
  token,    \* localStorage: dml_token
  issued,   \* tokens issued so far
  expired,  \* the first tokens issued are past their lifetime: how many
  tab,      \* per tab: its page, the user shown, loading
  calls,    \* requests under way; form: the form that sent it is still there
  loads     \* how often a tab was opened or reloaded

sessionVars == <<token, issued, expired, tab, calls, loads>>
vars == <<users, boot, token, issued, expired, tab, calls, loads>>

-----------------------------------------------------------------------------
(* The server                                                              *)

Valid(k) == k # None /\ k.serial > expired /\ SignsIn(k.sub)

Status(s) == [status |-> s, user |-> None, token |-> None]
NewTokens ==
  {[sub |-> i, serial |-> issued + 1] :
     i \in {j \in Ids : issued < MaxTokens /\ SignsIn(j)}}

(* What a request may be answered.  login stands for every name and        *)
(* password typed, password for every current password typed; poll and     *)
(* admin for the requests of the student's and the administrator's pages.  *)
LoginReplies ==
  {Status("401")} \cup {[Status("ok") EXCEPT !.token = k] : k \in NewTokens}
SignedInReplies(c) ==
  CASE c.kind \in {"me", "meAfterLogin"} ->
         {[Status("ok") EXCEPT
             !.user = [id |-> c.token.sub, admin |-> users[c.token.sub].admin]]}
    [] c.kind = "password" -> {Status("ok"), Status("401")}
    [] c.kind = "admin" ->
         {Status(IF users[c.token.sub].admin THEN "ok" ELSE "403")}
    [] OTHER -> {Status("ok")}
Replies(c) ==
  IF c.kind = "login" THEN LoginReplies
  ELSE IF Valid(c.token) THEN SignedInReplies(c)
  ELSE {Status("401")}

Serve(c) ==
  /\ c.reply = None
  /\ \E reply \in Replies(c) :
       /\ calls' = (calls \ {c}) \cup {[c EXCEPT !.reply = reply, !.token = None]}
       /\ issued' = IF reply.token # None THEN issued + 1 ELSE issued
  /\ UNCHANGED <<users, boot, token, expired, tab, loads>>

(* All tokens live equally long: they expire in the order of their issue.  *)
Expire ==
  /\ expired < issued
  /\ expired' = expired + 1
  /\ UNCHANGED <<users, boot, token, issued, tab, calls, loads>>

-----------------------------------------------------------------------------
(* Routing and sending                                                     *)

(* Where the router takes a tab, given what it shows.                      *)
Routed(r) ==
  IF r.page = "login" THEN IF r.user = None THEN "login" ELSE "home"
  ELSE IF r.page = "closed" \/ r.loading THEN r.page
  ELSE IF r.user = None THEN "login"
  ELSE IF r.page = "admin" /\ ~r.user.admin THEN "home" ELSE r.page

(* Tab t becomes r, with cs under way; a page that is left takes its form  *)
(* with it.                                                                *)
Becomes(t, r, cs) ==
  LET page == Routed(r)
  IN  /\ tab' = [tab EXCEPT ![t] = [r EXCEPT !.page = page]]
      /\ calls' = IF page = tab[t].page THEN cs
                  ELSE {IF c.tab = t THEN [c EXCEPT !.form = FALSE] ELSE c :
                          c \in cs}

FormKinds == {"login", "meAfterLogin", "password"}
Call(t, kind, k) ==
  [tab |-> t, kind |-> kind, token |-> k, reply |-> None,
   form |-> kind \in FormKinds]
Room == Cardinality(calls) < MaxCalls
NeverBusy(t) == FALSE  \* a slip: the button stays enabled
Busy(t) ==
  \E c \in calls : c.tab = t /\ c.form

Send(t, kind) ==
  /\ Room
  /\ calls' = calls \cup {Call(t, kind, token)}
  /\ UNCHANGED <<users, boot, token, issued, expired, tab, loads>>

(* The page is loaded: refreshUser asks who the stored token belongs to.   *)
(* What an earlier load of the tab had under way is never heard of again.  *)
Open(t, page) ==
  LET rest == {c \in calls : c.tab # t}
  IN  /\ loads < MaxLoads
      /\ loads' = loads + 1
      /\ IF token = None
         THEN Becomes(t, [page |-> page, user |-> None, loading |-> FALSE], rest)
         ELSE Becomes(t, [page |-> page, user |-> None, loading |-> TRUE],
                      rest \cup {Call(t, "me", token)})
      /\ UNCHANGED <<users, boot, token, issued, expired>>

Navigate(t, page) ==
  /\ tab[t].user # None
  /\ page = "admin" => tab[t].user.admin
  /\ Becomes(t, [tab[t] EXCEPT !.page = page], calls)
  /\ UNCHANGED <<users, boot, token, issued, expired, loads>>

SubmitLogin(t) ==
  /\ tab[t].page = "login" /\ ~Busy(t)
  /\ Send(t, "login")

SubmitPassword(t) ==
  /\ tab[t].page = "password" /\ ~tab[t].loading /\ ~Busy(t)
  /\ Send(t, "password")

(* The availability card asks again every 20 seconds.                      *)
Poll(t) == tab[t].page = "home" /\ ~tab[t].loading /\ Send(t, "poll")
AdminRequest(t) ==
  tab[t].page = "admin" /\ ~tab[t].loading /\ Send(t, "admin")

Logout(t) ==
  /\ tab[t].user # None
  /\ token' = None
  /\ Becomes(t, [tab[t] EXCEPT !.user = None], calls)
  /\ UNCHANGED <<users, boot, issued, expired, loads>>

-----------------------------------------------------------------------------
(* Answers                                                                 *)

(* request(): what an answer with status s does before its caller sees it. *)
TokenUnlessRefused(s) ==  \* a slip: whatever fails costs the session
  IF s = "ok" THEN token ELSE None
TokenAfter(s) == IF s = "401" THEN None ELSE token
UserKept(t, s) == tab[t].user  \* a slip: nobody listens to the event
UserAfter(t, s) == IF s = "401" THEN None ELSE tab[t].user

(* refreshUser: only a user it is told of is shown, and loading ends.      *)
Refreshed(t, reply) ==
  [tab[t] EXCEPT !.user = IF reply.status = "ok" THEN reply.user ELSE None,
                 !.loading = FALSE]

Handle(c, reply) ==
  LET t == c.tab
      rest == calls \ {c}
  IN  /\ CASE c.kind \in {"me", "meAfterLogin"} ->
                /\ token' = TokenAfter(reply.status)
                /\ Becomes(t, Refreshed(t, reply), rest)
           [] c.kind = "login" /\ reply.status = "ok" ->
                /\ token' = reply.token
                /\ Becomes(t, tab[t],
                           rest \cup {[Call(t, "meAfterLogin", reply.token)
                                         EXCEPT !.form = c.form]})
           [] OTHER ->
                /\ token' = TokenAfter(reply.status)
                /\ Becomes(t, [tab[t] EXCEPT !.user = UserAfter(t, reply.status)],
                           rest)
      /\ UNCHANGED <<users, boot, issued, expired, loads>>

Arrive(c) == c.reply # None /\ Handle(c, c.reply)

(* The network loses the request or its answer, or the server fails.       *)
Fail(c) == Handle(c, Status("0"))

-----------------------------------------------------------------------------
ClientInit ==
  /\ token = None /\ issued = 0 /\ expired = 0 /\ calls = {} /\ loads = 0
  /\ tab = [t \in Tabs |-> [page |-> "closed", user |-> None, loading |-> FALSE]]
Init == AccountsInit /\ ClientInit

ServerNext ==
  \/ AccountsNext /\ UNCHANGED sessionVars
  \/ Expire
  \/ \E c \in calls : Serve(c)

TabNext(t) ==
  \/ \E page \in OpenedAt : Open(t, page)
  \/ \E page \in Pages : Navigate(t, page)
  \/ SubmitLogin(t)
  \/ SubmitPassword(t)
  \/ Poll(t)
  \/ AdminRequest(t)
  \/ Logout(t)

AnswerNext == \E c \in calls : Arrive(c) \/ Fail(c)

Next == ServerNext \/ (\E t \in Tabs : TabNext(t)) \/ AnswerNext

(* Every request ends: fetch resolves or rejects.  The poll is a timer of  *)
(* the browser (strong fairness, for it waits while MaxCalls requests are  *)
(* under way), and the network does not lose every one of its requests.    *)
Asked(t, kind) == {c \in calls : c.tab = t /\ c.kind = kind}
FirstAnswer(t) == \E c \in Asked(t, "me") : Arrive(c) \/ Fail(c)
PollServed(t) == \E c \in Asked(t, "poll") : Serve(c)
PollArrives(t) == \E c \in Asked(t, "poll") : Arrive(c)
Fairness ==
  /\ WF_vars(AnswerNext)
  /\ \A t \in Tabs : /\ WF_vars(FirstAnswer(t))
                     /\ SF_vars(Poll(t))
                     /\ SF_vars(PollServed(t))
                     /\ SF_vars(PollArrives(t))

Spec == Init /\ [][Next]_vars /\ Fairness

-----------------------------------------------------------------------------
(* Properties                                                              *)

TypeOK ==
  /\ AccountsTypeOK
  /\ token \in Token \cup {None}
  /\ issued \in 0..MaxTokens /\ expired \in 0..issued /\ loads \in 0..MaxLoads
  /\ tab \in [Tabs -> TabRow]
  /\ calls \subseteq CallRow

(* A tab that is the only one of its browser never acts for an account     *)
(* other than the one it shows: its requests carry that account's token or *)
(* none, whatever answers of earlier sessions are still under way.  This   *)
(* is for tabs opened at other pages than /login: opened there with a      *)
(* token stored, a tab may log in before that token's account is known,    *)
(* and then shows that account while it acts for the new one.              *)
ActsAsShown ==
  \A t \in Tabs :
    (\A o \in Tabs \ {t} : tab[o].page = "closed") =>
      (tab[t].user # None /\ token # None => token.sub = tab[t].user.id)

(* A session that still works ends only because someone logs out or an     *)
(* answer says 401: no failed request and no refusal costs it.             *)
SessionOutlivesFailures ==
  [][Valid(token) /\ token' = None =>
       \/ \E t \in Tabs : Logout(t)
       \/ \E c \in calls : Arrive(c) /\ c.reply.status = "401"]_vars

(* The reserve page does not go on showing a user whose session is dead:   *)
(* the poll's own 401 drops it.                                            *)
SessionsHeal ==
  \A t \in Tabs :
    tab[t].page = "home" /\ tab[t].user # None /\ ~Valid(token)
      ~> tab[t].page # "home" \/ tab[t].user = None \/ Valid(token)
=============================================================================
