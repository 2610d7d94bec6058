---------------------------- MODULE Session_proofs ----------------------------
(***************************************************************************)
(* Proofs about Accounts, Session and the overview beside it (MCLive), for *)
(* every set of usernames and any number of accounts, tabs, tokens,        *)
(* reloads, GPUs and requests under way.  Fairness plays no part in them.  *)
(***************************************************************************)
EXTENDS MCLive, TLAPS

-----------------------------------------------------------------------------
(***************************************************************************)
(* The accounts.                                                           *)
(***************************************************************************)

LEMMA TypeInit == AccountsInit => AccountsTypeOK
  BY DEF AccountsInit, AccountsTypeOK

LEMMA CreatedType ==
  ASSUME AccountsTypeOK, NEW n \in Names, NEW admin \in BOOLEAN,
         CreatedAs(n, admin)
  PROVE  users' \in [Ids -> User \cup {NoUser}]
  BY DEF CreatedAs, AccountsTypeOK, User

(* A switch of one flag of an account that exists.                         *)
LEMMA SwitchedType ==
  ASSUME AccountsTypeOK, NEW i \in Ids, NEW on \in BOOLEAN, Exists(i),
         \/ users' = [users EXCEPT ![i].active = on]
         \/ users' = [users EXCEPT ![i].admin = on]
  PROVE  users' \in [Ids -> User \cup {NoUser}]
<1>1. users[i] \in User
  BY DEF AccountsTypeOK, Exists
<1>2. /\ [users[i] EXCEPT !.active = on] \in User
      /\ [users[i] EXCEPT !.admin = on] \in User
  BY <1>1 DEF User
<1> QED
  BY <1>2 DEF AccountsTypeOK

LEMMA TypeStep ==
  AccountsTypeOK /\ [AccountsNext]_accountVars => AccountsTypeOK'
<1> SUFFICES ASSUME AccountsTypeOK, [AccountsNext]_accountVars
             PROVE  AccountsTypeOK'
  OBVIOUS
<1>1. ASSUME NEW n \in Names, NEW password \in BOOLEAN, Start(n, password)
      PROVE  AccountsTypeOK'
  BY <1>1, CreatedType DEF Start, AccountsTypeOK
<1>2. ASSUME NEW actor \in Ids, NEW n \in Names, CreateUser(actor, n)
      PROVE  AccountsTypeOK'
  BY <1>2, CreatedType DEF CreateUser, AccountsTypeOK
<1>3. ASSUME NEW actor \in Ids, NEW i \in Ids, NEW on \in BOOLEAN,
             SetActive(actor, i, on) \/ SetAdmin(actor, i, on)
      PROVE  AccountsTypeOK'
  BY <1>3, SwitchedType DEF SetActive, SetAdmin, AccountsTypeOK
<1>4. ASSUME NEW actor \in Ids, NEW i \in Ids, DeleteAccount(actor, i)
      PROVE  AccountsTypeOK'
  BY <1>4 DEF DeleteAccount, AccountsTypeOK
<1>5. CASE UNCHANGED accountVars
  BY <1>5 DEF accountVars, AccountsTypeOK
<1> QED
  BY <1>1, <1>2, <1>3, <1>4, <1>5 DEF AccountsNext

(* The users table keeps its schema.                                       *)
THEOREM AccountsTyped == AccountsSpec => []AccountsTypeOK
  BY TypeInit, TypeStep, PTL DEF AccountsSpec

-----------------------------------------------------------------------------
(***************************************************************************)
(* Where a request leaves an account i as it is.                           *)
(***************************************************************************)
SameAccount(i) == users'[i] = users[i]

LEMMA NewLeavesOthers ==
  ASSUME AccountsTypeOK, NEW n \in Names, NEW admin \in BOOLEAN,
         CreatedAs(n, admin), NEW i \in Ids, Exists(i)
  PROVE  SameAccount(i)
  BY DEF CreatedAs, IsNewId, AccountsTypeOK, SameAccount, Ids

(* Whoever may take rights away from an administrator is the bootstrap     *)
(* administrator, and cannot be the one who loses them.                    *)
LEMMA BootstrapStays ==
  ASSUME AccountsTypeOK, [AccountsNext]_accountVars, NEW i \in BootAdmins
  PROVE  i \in Admins' /\ users'[i].name = users[i].name
<1>1. /\ i \in Ids /\ Exists(i) /\ users[i].active /\ users[i].admin
      /\ IsBootstrapAdmin(i) /\ users[i] \in User
  BY DEF BootAdmins, Admins, SignsIn, Exists, AccountsTypeOK
<1>2. SUFFICES ASSUME ~SameAccount(i) PROVE FALSE
  BY <1>1, <1>2 DEF SameAccount, Admins, SignsIn, Exists
<1>3. ASSUME NEW n \in Names, NEW password \in BOOLEAN, Start(n, password)
      PROVE  FALSE
  BY <1>1, <1>2, <1>3, NewLeavesOthers DEF Start, SameAccount
<1>4. ASSUME NEW actor \in Ids, NEW n \in Names, CreateUser(actor, n)
      PROVE  FALSE
  BY <1>1, <1>2, <1>4, NewLeavesOthers DEF CreateUser
<1>5. ASSUME NEW actor \in Ids, NEW j \in Ids, NEW on \in BOOLEAN,
             SetActive(actor, j, on)
      PROVE  FALSE
  <2>1. j # i \/ on
    BY <1>1, <1>5 DEF SetActive
  <2>2. users'[i] = users[i]
    BY <1>1, <1>5, <2>1 DEF SetActive, AccountsTypeOK, User
  <2> QED
    BY <1>2, <2>2 DEF SameAccount
<1>6. ASSUME NEW actor \in Ids, NEW j \in Ids, NEW on \in BOOLEAN,
             SetAdmin(actor, j, on)
      PROVE  FALSE
  <2>1. j # i \/ on
    BY <1>1, <1>6 DEF SetAdmin
  <2>2. users'[i] = users[i]
    BY <1>1, <1>6, <2>1 DEF SetAdmin, AccountsTypeOK, User
  <2> QED
    BY <1>2, <2>2 DEF SameAccount
<1>7. ASSUME NEW actor \in Ids, NEW j \in Ids, DeleteAccount(actor, j)
      PROVE  FALSE
  BY <1>1, <1>2, <1>7 DEF DeleteAccount, AccountsTypeOK, SameAccount
<1>8. CASE UNCHANGED accountVars
  BY <1>2, <1>8 DEF accountVars, SameAccount
<1> QED
  BY <1>3, <1>4, <1>5, <1>6, <1>7, <1>8 DEF AccountsNext

(* Any other administrator is only touched by a bootstrap administrator,   *)
(* who stays one.                                                          *)
LEMMA SomeAdminStays ==
  ASSUME AccountsTypeOK, [AccountsNext]_accountVars, Admins # {}
  PROVE  Admins' # {}
<1>1. CASE BootAdmins # {}
  BY <1>1, BootstrapStays
<1>2. CASE BootAdmins = {}
  <2>1. PICK i \in Admins : TRUE
    OBVIOUS
  <2>2. /\ i \in Ids /\ Exists(i) /\ users[i].active /\ users[i].admin
        /\ users[i] \in User
    BY <2>1 DEF Admins, SignsIn, Exists, AccountsTypeOK
  <2>3. SUFFICES ASSUME ~SameAccount(i) PROVE FALSE
    BY <2>1, <2>3 DEF SameAccount, Admins, SignsIn, Exists
  <2>4. ASSUME NEW n \in Names, NEW password \in BOOLEAN, Start(n, password)
        PROVE  FALSE
    BY <2>2, <2>3, <2>4, NewLeavesOthers DEF Start, SameAccount
  <2>5. ASSUME NEW actor \in Ids, NEW n \in Names, CreateUser(actor, n)
        PROVE  FALSE
    BY <2>2, <2>3, <2>5, NewLeavesOthers DEF CreateUser
  <2>6. ASSUME NEW actor \in Ids, NEW j \in Ids, NEW on \in BOOLEAN,
               SetActive(actor, j, on)
        PROVE  FALSE
    <3>1. j # i \/ on
      BY <1>2, <2>2, <2>6 DEF SetActive
    <3>2. users'[i] = users[i]
      BY <2>2, <2>6, <3>1 DEF SetActive, AccountsTypeOK, User
    <3> QED
      BY <2>3, <3>2 DEF SameAccount
  <2>7. ASSUME NEW actor \in Ids, NEW j \in Ids, NEW on \in BOOLEAN,
               SetAdmin(actor, j, on)
        PROVE  FALSE
    <3>1. j # i \/ on
      BY <1>2, <2>2, <2>7 DEF SetAdmin
    <3>2. users'[i] = users[i]
      BY <2>2, <2>7, <3>1 DEF SetAdmin, AccountsTypeOK, User
    <3> QED
      BY <2>3, <3>2 DEF SameAccount
  <2>8. ASSUME NEW actor \in Ids, NEW j \in Ids, DeleteAccount(actor, j)
        PROVE  FALSE
    BY <1>2, <2>2, <2>3, <2>8 DEF DeleteAccount, AccountsTypeOK, SameAccount
  <2>9. CASE UNCHANGED accountVars
    BY <2>3, <2>9 DEF accountVars, SameAccount
  <2> QED
    BY <2>4, <2>5, <2>6, <2>7, <2>8, <2>9 DEF AccountsNext
<1> QED
  BY <1>1, <1>2

(* Nobody can be locked out of administering the lab.                      *)
THEOREM NeverLockedOut == AccountsSpec => AdminRemains
<1>1. AccountsTypeOK /\ [AccountsNext]_accountVars =>
        [Admins # {} => Admins' # {}]_accountVars
  BY SomeAdminStays
<1> QED
  BY <1>1, AccountsTyped, PTL DEF AccountsSpec, AdminRemains

(* Only a restart under another name ends the bootstrap's protection.      *)
THEOREM BootstrapProtected == AccountsSpec => BootstrapIsSafe
<1>1. AccountsTypeOK /\ [AccountsNext]_accountVars =>
        [boot' = boot => BootAdmins \subseteq BootAdmins']_accountVars
  <2> SUFFICES ASSUME AccountsTypeOK, [AccountsNext]_accountVars, boot' = boot,
                      NEW i \in BootAdmins
               PROVE  i \in BootAdmins'
    OBVIOUS
  <2>1. i \in Admins' /\ users'[i].name = users[i].name
    BY BootstrapStays
  <2> QED
    BY <2>1 DEF BootAdmins, IsBootstrapAdmin
<1> QED
  BY <1>1, AccountsTyped, PTL DEF AccountsSpec, BootstrapIsSafe

-----------------------------------------------------------------------------
LEMMA NamesStep ==
  AccountsTypeOK /\ NamesUnique /\ [AccountsNext]_accountVars => NamesUnique'
<1> SUFFICES ASSUME AccountsTypeOK, NamesUnique, [AccountsNext]_accountVars
             PROVE  NamesUnique'
  OBVIOUS
<1>1. ASSUME NEW n \in Names, NEW admin \in BOOLEAN, CreatedAs(n, admin),
             ~Taken(n)
      PROVE  NamesUnique'
  <2>1. PICK k \in Ids : users' = [users EXCEPT ![k] =
                           [name |-> n, admin |-> admin, active |-> TRUE]]
    BY <1>1 DEF CreatedAs
  <2>2. users'[k].name = n /\ \A i \in Ids \ {k} : users'[i] = users[i]
    BY <2>1 DEF AccountsTypeOK
  <2> QED
    BY <1>1, <2>2 DEF NamesUnique, Taken, Exists
<1>2. ASSUME \A i \in Ids : Exists(i)' => /\ Exists(i)
                                          /\ users'[i].name = users[i].name
      PROVE  NamesUnique'
  BY <1>2 DEF NamesUnique
<1>3. ASSUME NEW n \in Names, NEW password \in BOOLEAN, Start(n, password)
      PROVE  NamesUnique'
  BY <1>1, <1>2, <1>3 DEF Start, Exists
<1>4. ASSUME NEW actor \in Ids, NEW n \in Names, CreateUser(actor, n)
      PROVE  NamesUnique'
  BY <1>1, <1>4 DEF CreateUser
<1>5. ASSUME NEW actor \in Ids, NEW i \in Ids, NEW on \in BOOLEAN,
             SetActive(actor, i, on) \/ SetAdmin(actor, i, on)
      PROVE  NamesUnique'
  <2>1. users[i] \in User
    BY <1>5 DEF SetActive, SetAdmin, Exists, AccountsTypeOK
  <2>2. \A j \in Ids : Exists(j)' => /\ Exists(j)
                                     /\ users'[j].name = users[j].name
    BY <1>5, <2>1 DEF SetActive, SetAdmin, Exists, AccountsTypeOK, User
  <2> QED
    BY <2>2, <1>2
<1>6. ASSUME NEW actor \in Ids, NEW i \in Ids, DeleteAccount(actor, i)
      PROVE  NamesUnique'
  <2>1. \A j \in Ids : Exists(j)' => /\ Exists(j)
                                     /\ users'[j].name = users[j].name
    BY <1>6 DEF DeleteAccount, Exists, AccountsTypeOK
  <2> QED
    BY <2>1, <1>2
<1>7. CASE UNCHANGED accountVars
  BY <1>7, <1>2 DEF accountVars, Exists
<1> QED
  BY <1>3, <1>4, <1>5, <1>6, <1>7 DEF AccountsNext

(* Usernames name one account each.                                        *)
THEOREM NamesStayUnique == AccountsSpec => []NamesUnique
<1>1. AccountsInit => NamesUnique
  BY DEF AccountsInit, NamesUnique, Exists
<1> QED
  BY <1>1, NamesStep, AccountsTyped, PTL DEF AccountsSpec

-----------------------------------------------------------------------------
(***************************************************************************)
(* A tab t that shows r while localStorage holds k and the requests cs are *)
(* under way, where t is the only tab of its browser.                      *)
(*                                                                         *)
(* Nobody is shown beside a request that is still finding out who signed   *)
(* in, there is one such request at most, and it will say whose token it   *)
(* is that is stored when its answer is heard, or that there is none.      *)
(***************************************************************************)
Signing(c) == c.kind \in {"me", "meAfterLogin", "login"}
SpeaksFor(c, k) ==
  /\ c.reply = None => k = None \/ c.token = None \/ c.token.sub = k.sub
  /\ c.reply # None /\ c.reply.status = "ok" =>
       k = None \/ (c.reply.user # None /\ c.reply.user.id = k.sub)
CallOK(t, r, k, c) ==
  /\ c.tab = t
  /\ Signing(c) => r.user = None
  /\ r.loading => c.kind = "me"
  /\ c.kind = "me" => r.loading
  /\ c.kind \in {"login", "meAfterLogin"} => r.page = "login" /\ c.form
  /\ c.kind \in {"me", "meAfterLogin"} => SpeaksFor(c, k)

(* What the router is given, and what it makes of it.                      *)
UnroutedOK(t, r, k, cs) ==
  /\ r.user # None => ~r.loading /\ (k # None => k.sub = r.user.id)
  /\ r.page = "login" => ~r.loading
  /\ \A c \in cs : CallOK(t, r, k, c)
  /\ \A c, d \in cs : Signing(c) /\ Signing(d) => c = d
RoutedOK(t, r, k, cs) ==
  /\ UnroutedOK(t, r, k, cs)
  /\ r.user # None => r.page # "login"

Alone(t) == \A o \in Tabs \ {t} : tab[o].page = "closed"
AloneOK == \A t \in Tabs : Alone(t) => RoutedOK(t, tab[t], token, calls)

(* A tab that is not open shows nobody and waits for nothing.              *)
ClosedOK ==
  \A t \in Tabs : tab[t].page = "closed" =>
    tab[t].user = None /\ ~tab[t].loading /\ \A c \in calls : c.tab # t

(* Whoever signs in is given a token.                                      *)
TokensGiven ==
  \A c \in calls :
    c.kind = "login" /\ c.reply # None /\ c.reply.status = "ok" =>
      c.reply.token # None

SessionTyped == TypeOK /\ TokensGiven
TabsOK == ClosedOK /\ AloneOK
SessionInv == SessionTyped /\ TabsOK

-----------------------------------------------------------------------------
(***************************************************************************)
(* What the router does to a tab and to the forms of the page it leaves.   *)
(***************************************************************************)
Formless(t, page, c) ==
  IF page # tab[t].page /\ c.tab = t THEN [c EXCEPT !.form = FALSE] ELSE c

LEMMA FormlessFields ==
  ASSUME NEW t, NEW page, NEW c \in CallRow
  PROVE  /\ Formless(t, page, c) \in CallRow
         /\ Formless(t, page, c).tab = c.tab
         /\ Formless(t, page, c).kind = c.kind
         /\ Formless(t, page, c).token = c.token
         /\ Formless(t, page, c).reply = c.reply
  BY DEF Formless, CallRow

LEMMA RoutedPage ==
  ASSUME NEW r \in TabRow
  PROVE  /\ Routed(r) \in Pages \cup {"login", "closed"}
         /\ r.page # "closed" => Routed(r) # "closed"
         /\ r.user # None => Routed(r) # "login"
         /\ Routed(r) = "login" => r.page = "login" \/ ~r.loading
         /\ r.page = "login" /\ r.user = None => Routed(r) = "login"
<1>1. r.page \in Pages \cup {"login", "closed"}
  BY DEF TabRow
<1>2. CASE r.page = "login"
  BY <1>2 DEF Routed, Pages
<1>3. CASE r.page # "login"
  <2>1. Routed(r) \in {r.page, "login", "home"}
    BY <1>3 DEF Routed
  <2>2. r.page # "closed" => Routed(r) # "closed"
    BY <2>1
  <2>3. r.user # None \/ r.loading => Routed(r) # "login"
    BY <1>3 DEF Routed
  <2> QED
    BY <1>1, <1>3, <2>1, <2>2, <2>3 DEF Pages
<1> QED
  BY <1>2, <1>3

LEMMA BecomesForm ==
  ASSUME NEW t \in Tabs, NEW r \in TabRow, NEW cs \in SUBSET CallRow,
         tab \in [Tabs -> TabRow], Becomes(t, r, cs)
  PROVE  /\ tab' \in [Tabs -> TabRow]
         /\ \A o \in Tabs \ {t} : tab'[o] = tab[o]
         /\ tab'[t].page = Routed(r) /\ tab'[t].user = r.user
         /\ tab'[t].loading = r.loading
         /\ calls' = {Formless(t, Routed(r), c) : c \in cs}
<1>1. Routed(r) \in Pages \cup {"login", "closed"}
  BY RoutedPage
<1> DEFINE q == [r EXCEPT !.page = Routed(r)]
<1>2. /\ q \in TabRow /\ q.page = Routed(r) /\ q.user = r.user
      /\ q.loading = r.loading
  BY <1>1 DEF TabRow
<1>3. tab' = [tab EXCEPT ![t] = q]
  BY DEF Becomes
<1> HIDE DEF q
<1>4. calls' = {Formless(t, Routed(r), c) : c \in cs}
  <2>1. CASE Routed(r) = tab[t].page
    <3>1. \A c \in cs : Formless(t, Routed(r), c) = c
      BY <2>1 DEF Formless
    <3>2. calls' = cs
      BY <2>1 DEF Becomes
    <3> QED
      BY <3>1, <3>2
  <2>2. CASE Routed(r) # tab[t].page
    BY <2>2 DEF Becomes, Formless
  <2> QED
    BY <2>1, <2>2
<1> QED
  BY <1>2, <1>3, <1>4

(* Types, and the tabs that are closed.                                    *)
LEMMA BecomesTyped ==
  ASSUME NEW t \in Tabs, NEW r \in TabRow, NEW cs \in SUBSET CallRow,
         tab \in [Tabs -> TabRow], Becomes(t, r, cs), TokensGiven,
         \A c \in cs : c \in calls \/ c.reply = None
  PROVE  tab' \in [Tabs -> TabRow] /\ calls' \subseteq CallRow /\ TokensGiven'
<1>1. /\ tab' \in [Tabs -> TabRow]
      /\ calls' = {Formless(t, Routed(r), c) : c \in cs}
  BY BecomesForm
<1>2. calls' \subseteq CallRow
  BY <1>1, FormlessFields
<1>3. ASSUME NEW c \in calls', c.kind = "login", c.reply # None,
             c.reply.status = "ok"
      PROVE  c.reply.token # None
  <2>1. PICK d \in cs : c = Formless(t, Routed(r), d)
    BY <1>1
  <2>2. d.kind = c.kind /\ d.reply = c.reply
    BY <2>1, FormlessFields
  <2> QED
    BY <1>3, <2>2 DEF TokensGiven
<1> QED
  BY <1>1, <1>2, <1>3 DEF TokensGiven

LEMMA BecomesClosed ==
  ASSUME NEW t \in Tabs, NEW r \in TabRow, NEW cs \in SUBSET CallRow,
         tab \in [Tabs -> TabRow], Becomes(t, r, cs), ClosedOK,
         r.page # "closed", \A c \in cs : c \in calls \/ c.tab = t
  PROVE  ClosedOK'
<1>1. /\ \A o \in Tabs \ {t} : tab'[o] = tab[o]
      /\ tab'[t].page # "closed"
      /\ calls' = {Formless(t, Routed(r), c) : c \in cs}
  BY BecomesForm, RoutedPage
<1> SUFFICES ASSUME NEW o \in Tabs, tab'[o].page = "closed"
             PROVE  /\ tab'[o].user = None /\ ~tab'[o].loading
                    /\ \A c \in calls' : c.tab # o
  BY DEF ClosedOK
<1>2. o # t /\ tab[o].page = "closed" /\ tab'[o] = tab[o]
  BY <1>1
<1>3. \A c \in cs : c.tab # o
  BY <1>2 DEF ClosedOK
<1>4. \A c \in cs : Formless(t, Routed(r), c).tab # o
  BY <1>3, FormlessFields
<1> QED
  BY <1>1, <1>2, <1>4 DEF ClosedOK

(* The tab that acts is open afterwards: any other tab has company.        *)
LEMMA BecomesAlone ==
  ASSUME NEW t \in Tabs, NEW r \in TabRow, NEW cs \in SUBSET CallRow,
         tab \in [Tabs -> TabRow], Becomes(t, r, cs), r.page # "closed",
         Alone(t) => UnroutedOK(t, r, token', cs),
         Alone(t) => \A c \in cs : c.kind \in {"login", "meAfterLogin"} =>
                       tab[t].page = "login"
  PROVE  AloneOK'
<1>1. /\ \A o \in Tabs \ {t} : tab'[o] = tab[o]
      /\ tab'[t].page = Routed(r) /\ tab'[t].user = r.user
      /\ tab'[t].loading = r.loading
      /\ calls' = {Formless(t, Routed(r), c) : c \in cs}
  BY BecomesForm
<1>2. Routed(r) # "closed"
  BY RoutedPage
<1> SUFFICES ASSUME NEW o \in Tabs, Alone(o)'
             PROVE  RoutedOK(o, tab[o], token, calls)'
  BY DEF AloneOK
<1>3. o = t /\ Alone(t)
  BY <1>1, <1>2 DEF Alone
<1>4. UnroutedOK(t, r, token', cs)
  BY <1>3
<1>5. /\ tab'[t].user # None => /\ ~tab'[t].loading /\ tab'[t].page # "login"
                                /\ token' # None => token'.sub = tab'[t].user.id
      /\ tab'[t].page = "login" => ~tab'[t].loading
  BY <1>1, <1>4, RoutedPage DEF UnroutedOK
<1>6. ASSUME NEW d \in cs
      PROVE  CallOK(t, tab'[t], token', Formless(t, Routed(r), d))
  <2>1. CallOK(t, r, token', d)
    BY <1>4 DEF UnroutedOK
  <2> DEFINE c == Formless(t, Routed(r), d)
  <2>2. /\ c.tab = d.tab /\ c.kind = d.kind /\ c.token = d.token
        /\ c.reply = d.reply
    BY FormlessFields
  <2>3. d.kind \in {"login", "meAfterLogin"} => c.form /\ Routed(r) = "login"
    <3> SUFFICES ASSUME d.kind \in {"login", "meAfterLogin"}
                 PROVE  c.form /\ Routed(r) = "login"
      OBVIOUS
    <3>1. r.page = "login" /\ d.form /\ r.user = None
      BY <2>1 DEF CallOK, Signing
    <3>2. Routed(r) = "login" /\ tab[t].page = "login"
      BY <1>3, <3>1, RoutedPage
    <3> QED
      BY <3>1, <3>2 DEF Formless
  <2> HIDE DEF c
  <2>4. c.kind \in {"me", "meAfterLogin"} => SpeaksFor(c, token')
    BY <2>1, <2>2 DEF CallOK, SpeaksFor
  <2>5. CallOK(t, tab'[t], token', c)
    BY <1>1, <2>1, <2>2, <2>3, <2>4 DEF CallOK, Signing
  <2> QED
    BY <2>5 DEF c
<1>7. ASSUME NEW c \in calls', NEW d \in calls', Signing(c), Signing(d)
      PROVE  c = d
  <2>1. PICK x \in cs, y \in cs : /\ c = Formless(t, Routed(r), x)
                                  /\ d = Formless(t, Routed(r), y)
    BY <1>1
  <2>2. x.kind = c.kind /\ y.kind = d.kind
    BY <2>1, FormlessFields
  <2>3. x = y
    BY <1>4, <1>7, <2>2 DEF UnroutedOK, Signing
  <2> QED
    BY <2>1, <2>3
<1>8. \A c \in calls' : CallOK(t, tab'[t], token', c)
  BY <1>1, <1>6
<1>9. RoutedOK(t, tab'[t], token', calls')
  BY <1>5, <1>7, <1>8 DEF RoutedOK, UnroutedOK
<1> QED
  BY <1>3, <1>9

-----------------------------------------------------------------------------
(***************************************************************************)
(* What the server says.                                                   *)
(***************************************************************************)
LEMMA StatusTyped ==
  ASSUME NEW s \in {"ok", "401", "403"}
  PROVE  /\ Status(s) \in Answer /\ Status(s).status = s
         /\ Status(s).token = None /\ Status(s).user = None
  BY DEF Status, Answer

LEMMA LoginAnswered ==
  ASSUME TypeOK, NEW a \in LoginReplies
  PROVE  /\ a \in Answer
         /\ a.status = "ok" => a.token # None
         /\ a.token # None => issued < MaxTokens
<1>1. CASE a = Status("401")
  BY <1>1, StatusTyped
<1>2. ASSUME NEW k \in NewTokens, a = [Status("ok") EXCEPT !.token = k]
      PROVE  /\ a \in Answer /\ a.token = k /\ k # None
             /\ issued < MaxTokens
  <2>1. issued < MaxTokens /\ issued + 1 \in Serials
    BY BoundsAssumption DEF NewTokens, TypeOK, Serials
  <2>2. k \in Token
    BY <2>1 DEF NewTokens, Token
  <2>3. k # None
    BY <2>2, NoneAssumption
  <2> QED
    BY <1>2, <2>1, <2>2, <2>3 DEF Status, Answer
<1> QED
  BY <1>1, <1>2 DEF LoginReplies

LEMMA SignedInAnswered ==
  ASSUME TypeOK, NEW c \in calls, Valid(c.token), NEW a \in SignedInReplies(c)
  PROVE  /\ a \in Answer /\ a.token = None
         /\ c.kind \in {"me", "meAfterLogin"} =>
              a.user # None /\ a.user.id = c.token.sub
<1> DEFINE u == [id |-> c.token.sub, admin |-> users[c.token.sub].admin]
<1>1. c \in CallRow
  BY DEF TypeOK
<1>2. c.token \in Token /\ c.token.sub \in Ids
  BY <1>1 DEF Valid, CallRow, Token
<1>3. users[c.token.sub] \in User
  BY <1>2 DEF Valid, SignsIn, Exists, TypeOK, AccountsTypeOK
<1>4. u \in Shown /\ u.id = c.token.sub
  BY <1>2, <1>3 DEF Shown, User
<1>5. u # None
  BY <1>4, NoneAssumption
<1>6. CASE c.kind \in {"me", "meAfterLogin"}
  <2>1. a = [Status("ok") EXCEPT !.user = u]
    BY <1>6 DEF SignedInReplies
  <2> HIDE DEF u
  <2> QED
    BY <1>4, <1>5, <2>1 DEF Status, Answer
<1>7. CASE c.kind \notin {"me", "meAfterLogin"}
  <2>1. \E s \in {"ok", "401", "403"} : a = Status(s)
    BY <1>7 DEF SignedInReplies
  <2> QED
    BY <1>7, <2>1, StatusTyped
<1> QED
  BY <1>6, <1>7

LEMMA Answered ==
  ASSUME TypeOK, NEW c \in calls, NEW a \in Replies(c)
  PROVE  /\ a \in Answer
         /\ a.token # None => issued < MaxTokens
         /\ c.kind = "login" /\ a.status = "ok" => a.token # None
         /\ c.kind \in {"me", "meAfterLogin"} /\ a.status = "ok" =>
              c.token # None /\ a.user # None /\ a.user.id = c.token.sub
<1>1. CASE c.kind = "login"
  BY <1>1, LoginAnswered DEF Replies
<1>2. CASE c.kind # "login" /\ Valid(c.token)
  BY <1>2, SignedInAnswered DEF Replies, Valid
<1>3. CASE c.kind # "login" /\ ~Valid(c.token)
  BY <1>3, StatusTyped DEF Replies
<1> QED
  BY <1>1, <1>2, <1>3

(* The request c once it has been answered a.                              *)
LEMMA ServeForm ==
  ASSUME TypeOK, NEW c \in calls, Serve(c)
  PROVE  \E d \in CallRow :
           /\ calls' = (calls \ {c}) \cup {d}
           /\ d.tab = c.tab /\ d.kind = c.kind /\ d.form = c.form
           /\ d.token = None /\ d.reply \in Replies(c)
           /\ issued' = IF d.reply.token # None THEN issued + 1 ELSE issued
<1>1. PICK a \in Replies(c) :
        /\ calls' = (calls \ {c}) \cup {[c EXCEPT !.reply = a, !.token = None]}
        /\ issued' = IF a.token # None THEN issued + 1 ELSE issued
  BY DEF Serve
<1> DEFINE d == [c EXCEPT !.reply = a, !.token = None]
<1>2. c \in CallRow /\ a \in Answer
  BY Answered DEF TypeOK
<1>3. /\ d \in CallRow /\ d.tab = c.tab /\ d.kind = c.kind /\ d.form = c.form
      /\ d.token = None /\ d.reply = a
  BY <1>2 DEF CallRow
<1>4. calls' = (calls \ {c}) \cup {d}
  BY <1>1
<1> HIDE DEF d
<1> QED
  BY <1>1, <1>3, <1>4

LEMMA ServeTyped ==
  ASSUME SessionTyped, NEW c \in calls, Serve(c)
  PROVE  SessionTyped'
<1>1. PICK d \in CallRow :
        /\ calls' = (calls \ {c}) \cup {d}
        /\ d.tab = c.tab /\ d.kind = c.kind /\ d.reply \in Replies(c)
        /\ issued' = IF d.reply.token # None THEN issued + 1 ELSE issued
  BY ServeForm DEF SessionTyped
<1>2. issued' \in 0..MaxTokens /\ expired' \in 0..issued'
  <2>1. d.reply.token # None => issued < MaxTokens
    BY <1>1, Answered DEF SessionTyped
  <2>2. issued \in 0..MaxTokens /\ expired \in 0..issued
    BY DEF SessionTyped, TypeOK
  <2>3. issued' \in 0..MaxTokens /\ issued' >= issued
    BY <1>1, <2>1, <2>2, BoundsAssumption
  <2>4. expired' = expired
    BY DEF Serve
  <2> QED
    BY <2>2, <2>3, <2>4, BoundsAssumption
<1>3. calls' \subseteq CallRow
  BY <1>1 DEF SessionTyped, TypeOK
<1>4. TokensGiven'
  BY <1>1, Answered DEF SessionTyped, TokensGiven
<1>5. TypeOK'
  BY <1>2, <1>3 DEF Serve, SessionTyped, TypeOK, AccountsTypeOK
<1> QED
  BY <1>4, <1>5 DEF SessionTyped

LEMMA ServeStep ==
  ASSUME SessionInv, NEW c \in calls, Serve(c)
  PROVE  SessionInv'
<1>0. TypeOK
  BY DEF SessionInv, SessionTyped
<1>1. PICK d \in CallRow :
        /\ calls' = (calls \ {c}) \cup {d}
        /\ d.tab = c.tab /\ d.kind = c.kind /\ d.form = c.form
        /\ d.token = None /\ d.reply \in Replies(c)
  BY <1>0, ServeForm
<1>2. tab' = tab /\ token' = token
  BY DEF Serve
<1>3. ClosedOK'
  BY <1>1, <1>2 DEF SessionInv, TabsOK, ClosedOK
<1>4. ASSUME NEW t \in Tabs, Alone(t)'
      PROVE  RoutedOK(t, tab[t], token, calls)'
  <2>1. Alone(t)
    BY <1>2, <1>4 DEF Alone
  <2>2. RoutedOK(t, tab[t], token, calls)
    BY <2>1 DEF SessionInv, TabsOK, AloneOK
  <2>3. CallOK(t, tab[t], token, c)
    BY <2>2 DEF RoutedOK, UnroutedOK
  <2>4. d.kind \in {"me", "meAfterLogin"} => SpeaksFor(d, token)
    <3> SUFFICES ASSUME d.kind \in {"me", "meAfterLogin"}
                 PROVE  SpeaksFor(d, token)
      OBVIOUS
    <3>1. c.reply = None
      BY DEF Serve
    <3>2. token = None \/ c.token = None \/ c.token.sub = token.sub
      BY <1>1, <2>3, <3>1 DEF CallOK, SpeaksFor
    <3>3. d.reply.status = "ok" =>
            /\ c.token # None
            /\ d.reply.user # None /\ d.reply.user.id = c.token.sub
      BY <1>0, <1>1, Answered
    <3> QED
      BY <1>1, <3>2, <3>3 DEF SpeaksFor
  <2>5. CallOK(t, tab[t], token, d)
    BY <1>1, <2>3, <2>4 DEF CallOK, Signing
  <2>6. \A e \in calls' : CallOK(t, tab[t], token, e)
    BY <1>1, <2>2, <2>5 DEF RoutedOK, UnroutedOK
  <2>7. \A e, f \in calls' : Signing(e) /\ Signing(f) => e = f
    <3>1. Signing(d) => Signing(c)
      BY <1>1 DEF Signing
    <3>2. \A e, f \in calls : Signing(e) /\ Signing(f) => e = f
      BY <2>2 DEF RoutedOK, UnroutedOK
    <3> QED
      BY <1>1, <3>1, <3>2
  <2> QED
    BY <1>2, <2>2, <2>6, <2>7 DEF RoutedOK, UnroutedOK
<1>5. AloneOK'
  BY <1>4 DEF AloneOK
<1> QED
  BY <1>3, <1>5, ServeTyped DEF SessionInv, TabsOK

-----------------------------------------------------------------------------
(***************************************************************************)
(* The types, whatever page a tab is opened at.                            *)
(***************************************************************************)
LEMMA CallTyped ==
  ASSUME NEW t \in Tabs, NEW kind \in Kinds, NEW k \in Token \cup {None}
  PROVE  /\ Call(t, kind, k) \in CallRow
         /\ Call(t, kind, k).tab = t /\ Call(t, kind, k).kind = kind
         /\ Call(t, kind, k).token = k /\ Call(t, kind, k).reply = None
         /\ Call(t, kind, k).form = (kind \in FormKinds)
  BY DEF Call, CallRow

(* A tab becomes r: what is left to show of the types.                     *)
LEMMA BecomesKeepsTypes ==
  ASSUME SessionTyped, NEW t \in Tabs, NEW r \in TabRow,
         NEW cs \in SUBSET CallRow, Becomes(t, r, cs),
         \A c \in cs : c \in calls \/ c.reply = None,
         UNCHANGED <<users, boot, issued, expired>>,
         token' \in Token \cup {None}, loads' \in 0..MaxLoads
  PROVE  SessionTyped'
<1>1. tab' \in [Tabs -> TabRow] /\ calls' \subseteq CallRow /\ TokensGiven'
  BY BecomesTyped DEF SessionTyped, TypeOK
<1> QED
  BY <1>1 DEF SessionTyped, TypeOK, AccountsTypeOK

LEMMA SendTyped ==
  ASSUME SessionTyped, NEW t \in Tabs, NEW kind \in Kinds, Send(t, kind)
  PROVE  SessionTyped'
<1>1. calls' = calls \cup {Call(t, kind, token)}
  BY DEF Send
<1>2. Call(t, kind, token) \in CallRow /\ Call(t, kind, token).reply = None
  BY CallTyped DEF SessionTyped, TypeOK
<1>3. TokensGiven'
  BY <1>1, <1>2 DEF SessionTyped, TokensGiven
<1>4. TypeOK'
  BY <1>1, <1>2 DEF Send, SessionTyped, TypeOK, AccountsTypeOK
<1> QED
  BY <1>3, <1>4 DEF SessionTyped

(* The tab a page load leaves, and what it has under way.                  *)
Opened(page) == [page |-> page, user |-> None, loading |-> token # None]
UnderWay(t) ==
  {c \in calls : c.tab # t} \cup
  (IF token = None THEN {} ELSE {Call(t, "me", token)})

LEMMA OpenForm ==
  ASSUME TypeOK, NEW t \in Tabs, NEW page \in OpenedAt, Open(t, page)
  PROVE  /\ Opened(page) \in TabRow /\ UnderWay(t) \in SUBSET CallRow
         /\ Becomes(t, Opened(page), UnderWay(t))
         /\ \A c \in UnderWay(t) : c \in calls \/ c.reply = None
         /\ loads' \in 0..MaxLoads
<1>1. Opened(page) \in TabRow
  BY OpenedAtAssumption DEF Opened, TabRow
<1>2. /\ UnderWay(t) \in SUBSET CallRow
      /\ \A c \in UnderWay(t) : c \in calls \/ c.reply = None
  <2>1. /\ Call(t, "me", token) \in CallRow
        /\ Call(t, "me", token).reply = None
    BY CallTyped DEF TypeOK, Kinds
  <2> QED
    BY <2>1 DEF UnderWay, TypeOK
<1>3. Becomes(t, Opened(page), UnderWay(t))
  <2>1. CASE token = None
    <3>1. UnderWay(t) = {c \in calls : c.tab # t}
      BY <2>1 DEF UnderWay
    <3>2. Opened(page) = [page |-> page, user |-> None, loading |-> FALSE]
      BY <2>1 DEF Opened
    <3> QED
      BY <2>1, <3>1, <3>2 DEF Open
  <2>2. CASE token # None
    <3>1. UnderWay(t) = {c \in calls : c.tab # t} \cup {Call(t, "me", token)}
      BY <2>2 DEF UnderWay
    <3>2. Opened(page) = [page |-> page, user |-> None, loading |-> TRUE]
      BY <2>2 DEF Opened
    <3> QED
      BY <2>2, <3>1, <3>2 DEF Open
  <2> QED
    BY <2>1, <2>2
<1>4. loads' \in 0..MaxLoads
  BY BoundsAssumption DEF Open, TypeOK
<1> QED
  BY <1>1, <1>2, <1>3, <1>4

(* Whatever is heard by whoever sent c: an answer, or that there is none.  *)
Heard(c, a) ==
  \/ c.reply # None /\ a = c.reply
  \/ a = Status("0")

(* What tab c.tab becomes when it hears a, and what is still under way.    *)
Hearer(c, a) ==
  IF c.kind \in {"me", "meAfterLogin"} THEN Refreshed(c.tab, a)
  ELSE IF c.kind = "login" /\ a.status = "ok" THEN tab[c.tab]
  ELSE [tab[c.tab] EXCEPT !.user = UserAfter(c.tab, a.status)]
Pursued(c, a) ==
  IF c.kind = "login" /\ a.status = "ok"
  THEN (calls \ {c}) \cup
       {[Call(c.tab, "meAfterLogin", a.token) EXCEPT !.form = c.form]}
  ELSE calls \ {c}
TokenHeard(c, a) ==
  IF c.kind = "login" /\ a.status = "ok" THEN a.token
  ELSE TokenAfter(a.status)

LEMMA HeardTyped ==
  ASSUME TypeOK, TokensGiven, NEW c \in calls, NEW a, Heard(c, a)
  PROVE  /\ a.user \in Shown \cup {None} /\ a.token \in Token \cup {None}
         /\ c.kind = "login" /\ a.status = "ok" => a.token \in Token
<1>1. c \in CallRow
  BY DEF TypeOK
<1>2. CASE c.reply # None /\ a = c.reply
  <2>1. a \in Answer
    BY <1>1, <1>2 DEF CallRow
  <2> QED
    BY <1>2, <2>1 DEF Answer, TokensGiven
<1>3. CASE a = Status("0")
  BY <1>3 DEF Status
<1> QED
  BY <1>2, <1>3 DEF Heard

LEMMA HandleForm ==
  ASSUME TypeOK, TokensGiven, NEW c \in calls, NEW a, Heard(c, a), Handle(c, a)
  PROVE  /\ c.tab \in Tabs /\ Hearer(c, a) \in TabRow
         /\ Pursued(c, a) \in SUBSET CallRow
         /\ \A d \in Pursued(c, a) : d \in calls \/ d.reply = None
         /\ Becomes(c.tab, Hearer(c, a), Pursued(c, a))
         /\ token' = TokenHeard(c, a) /\ token' \in Token \cup {None}
         /\ UNCHANGED <<users, boot, issued, expired, loads>>
<1>1. c \in CallRow /\ c.tab \in Tabs /\ c.form \in BOOLEAN
  BY DEF TypeOK, CallRow
<1>2. tab[c.tab] \in TabRow
  BY <1>1 DEF TypeOK
<1>3. Hearer(c, a) \in TabRow
  BY <1>2, HeardTyped DEF Hearer, Refreshed, UserAfter, TabRow
<1>4. /\ Pursued(c, a) \in SUBSET CallRow
      /\ \A d \in Pursued(c, a) : d \in calls \/ d.reply = None
  <2> DEFINE m == Call(c.tab, "meAfterLogin", a.token)
  <2>1. m \in CallRow /\ m.reply = None
    BY <1>1, CallTyped, HeardTyped DEF Kinds
  <2> HIDE DEF m
  <2>2. [m EXCEPT !.form = c.form] \in CallRow
    BY <1>1, <2>1 DEF CallRow
  <2>3. [m EXCEPT !.form = c.form].reply = None
    BY <2>1 DEF CallRow
  <2>4. Pursued(c, a) \subseteq calls \cup {[m EXCEPT !.form = c.form]}
    BY DEF Pursued, m
  <2> QED
    BY <2>2, <2>3, <2>4 DEF TypeOK
<1>5. /\ Becomes(c.tab, Hearer(c, a), Pursued(c, a))
      /\ token' = TokenHeard(c, a)
  <2>1. CASE c.kind \in {"me", "meAfterLogin"}
    BY <2>1 DEF Handle, Hearer, Pursued, TokenHeard
  <2>2. CASE c.kind = "login" /\ a.status = "ok"
    BY <2>2 DEF Handle, Hearer, Pursued, TokenHeard
  <2>3. CASE /\ c.kind \notin {"me", "meAfterLogin"}
             /\ ~(c.kind = "login" /\ a.status = "ok")
    BY <2>3 DEF Handle, Hearer, Pursued, TokenHeard
  <2> QED
    BY <2>1, <2>2, <2>3
<1>6. token' \in Token \cup {None}
  BY <1>5, HeardTyped DEF TokenHeard, TokenAfter, TypeOK
<1>7. UNCHANGED <<users, boot, issued, expired, loads>>
  BY DEF Handle
<1> QED
  BY <1>1, <1>3, <1>4, <1>5, <1>6, <1>7

(* What a tab shows once another page or nobody is shown.                  *)
LEMMA TabChanged ==
  ASSUME TypeOK, NEW t \in Tabs
  PROVE  /\ \A page \in Pages :
              LET r == [tab[t] EXCEPT !.page = page]
              IN  /\ r \in TabRow /\ r.page = page /\ r.user = tab[t].user
                  /\ r.loading = tab[t].loading
         /\ LET r == [tab[t] EXCEPT !.user = None]
            IN  /\ r \in TabRow /\ r.page = tab[t].page /\ r.user = None
                /\ r.loading = tab[t].loading
<1>1. tab[t] \in TabRow
  BY DEF TypeOK
<1> QED
  BY <1>1 DEF TabRow

LEMMA AccountsKeepTypes ==
  ASSUME SessionTyped, AccountsNext, UNCHANGED sessionVars
  PROVE  SessionTyped'
<1>1. AccountsTypeOK'
  BY TypeStep DEF SessionTyped, TypeOK
<1> QED
  BY <1>1 DEF SessionTyped, TypeOK, TokensGiven, sessionVars

LEMMA TypedStep == SessionTyped /\ [Next]_vars => SessionTyped'
<1> SUFFICES ASSUME SessionTyped, [Next]_vars PROVE SessionTyped'
  OBVIOUS
<1>0. /\ TypeOK /\ TokensGiven /\ calls \in SUBSET CallRow
      /\ token \in Token \cup {None} /\ loads \in 0..MaxLoads
  BY DEF SessionTyped, TypeOK
<1>1. CASE AccountsNext /\ UNCHANGED sessionVars
  BY <1>1, AccountsKeepTypes
<1>2. CASE Expire
  <2>1. expired' \in 0..issued'
    BY <1>0, <1>2, BoundsAssumption DEF Expire, TypeOK
  <2> QED
    BY <1>2, <2>1 DEF Expire, SessionTyped, TypeOK, AccountsTypeOK, TokensGiven
<1>3. ASSUME NEW c \in calls, Serve(c)
      PROVE  SessionTyped'
  BY <1>3, ServeTyped
<1>4. ASSUME NEW t \in Tabs, TabNext(t)
      PROVE  SessionTyped'
  <2>1. ASSUME NEW page \in OpenedAt, Open(t, page)
        PROVE  SessionTyped'
    <3>1. UNCHANGED <<users, boot, issued, expired>> /\ token' = token
      BY <2>1 DEF Open
    <3> QED
      BY <1>0, <2>1, <3>1, OpenForm, BecomesKeepsTypes
  <2>2. ASSUME NEW page \in Pages, Navigate(t, page)
        PROVE  SessionTyped'
    <3>1. /\ UNCHANGED <<users, boot, issued, expired, loads>> /\ token' = token
          /\ Becomes(t, [tab[t] EXCEPT !.page = page], calls)
      BY <2>2 DEF Navigate
    <3>2. [tab[t] EXCEPT !.page = page] \in TabRow
      BY <1>0, TabChanged
    <3> QED
      BY <1>0, <3>1, <3>2, BecomesKeepsTypes
  <2>3. CASE \E kind \in Kinds : Send(t, kind)
    BY <2>3, SendTyped
  <2>4. CASE Logout(t)
    <3>1. /\ UNCHANGED <<users, boot, issued, expired, loads>> /\ token' = None
          /\ Becomes(t, [tab[t] EXCEPT !.user = None], calls)
      BY <2>4 DEF Logout
    <3>2. [tab[t] EXCEPT !.user = None] \in TabRow
      BY <1>0, TabChanged
    <3> QED
      BY <1>0, <3>1, <3>2, BecomesKeepsTypes
  <2> QED
    BY <1>4, <2>1, <2>2, <2>3, <2>4
    DEF TabNext, SubmitLogin, SubmitPassword, Poll, AdminRequest, Kinds
<1>5. ASSUME NEW c \in calls, NEW a, Heard(c, a), Handle(c, a)
      PROVE  SessionTyped'
  <2>1. /\ c.tab \in Tabs /\ Hearer(c, a) \in TabRow
        /\ Pursued(c, a) \in SUBSET CallRow
        /\ \A d \in Pursued(c, a) : d \in calls \/ d.reply = None
        /\ Becomes(c.tab, Hearer(c, a), Pursued(c, a))
        /\ token' \in Token \cup {None}
        /\ UNCHANGED <<users, boot, issued, expired, loads>>
    BY <1>0, <1>5, HandleForm
  <2> QED
    BY <1>0, <2>1, BecomesKeepsTypes
<1>6. CASE UNCHANGED vars
  BY <1>6 DEF vars, SessionTyped, TypeOK, TokensGiven, AccountsTypeOK
<1>7. ASSUME NEW c \in calls, Arrive(c) \/ Fail(c)
      PROVE  SessionTyped'
  BY <1>5, <1>7 DEF Arrive, Fail, Heard
<1> QED
  BY <1>1, <1>2, <1>3, <1>4, <1>6, <1>7 DEF Next, ServerNext, AnswerNext

LEMMA TypedInit == Init => SessionTyped
<1> SUFFICES ASSUME Init PROVE SessionTyped
  OBVIOUS
<1>1. AccountsTypeOK
  BY TypeInit DEF Init
<1>2. tab \in [Tabs -> TabRow]
  BY DEF Init, ClientInit, TabRow
<1>3. /\ token = None /\ issued = 0 /\ expired = 0 /\ loads = 0 /\ calls = {}
  BY DEF Init, ClientInit
<1>4. issued \in 0..MaxTokens /\ expired \in 0..issued /\ loads \in 0..MaxLoads
  BY <1>3, BoundsAssumption
<1> QED
  BY <1>1, <1>2, <1>3, <1>4 DEF SessionTyped, TypeOK, TokensGiven

(* The state of the client and of its requests keeps its types.            *)
THEOREM SessionTypesKept == Spec => []TypeOK
<1>1. SessionTyped => TypeOK
  BY DEF SessionTyped
<1> QED
  BY <1>1, TypedInit, TypedStep, PTL DEF Spec

(***************************************************************************)
(* A session that works is ended by a logout or by a 401: whoever signs    *)
(* in again replaces the token, and no other status removes it.            *)
(***************************************************************************)
LEMMA OutlivesStep ==
  SessionTyped /\ [Next]_vars =>
    [Valid(token) /\ token' = None =>
       \/ \E t \in Tabs : Logout(t)
       \/ \E c \in calls : Arrive(c) /\ c.reply.status = "401"]_vars
<1> SUFFICES ASSUME SessionTyped, Next, Valid(token), token' = None,
                    ~\E t \in Tabs : Logout(t)
             PROVE  \E c \in calls : Arrive(c) /\ c.reply.status = "401"
  OBVIOUS
<1>1. TypeOK /\ TokensGiven /\ token # None
  BY DEF SessionTyped, Valid
<1>2. ~(AccountsNext /\ UNCHANGED sessionVars) /\ ~Expire
  BY <1>1 DEF sessionVars, Expire
<1>3. \A c \in calls : ~Serve(c)
  BY <1>1 DEF Serve
<1>4. \A t \in Tabs : ~TabNext(t)
  <2> SUFFICES ASSUME NEW t \in Tabs, TabNext(t) PROVE FALSE
    OBVIOUS
  <2>1. \A page \in OpenedAt : ~Open(t, page)
    BY <1>1 DEF Open
  <2>2. \A page \in Pages : ~Navigate(t, page)
    BY <1>1 DEF Navigate
  <2>3. \A kind \in Kinds : ~Send(t, kind)
    BY <1>1 DEF Send
  <2>4. /\ ~SubmitLogin(t) /\ ~SubmitPassword(t)
        /\ ~Poll(t) /\ ~AdminRequest(t)
    BY <2>3 DEF SubmitLogin, SubmitPassword, Poll, AdminRequest, Kinds
  <2> QED
    BY <2>1, <2>2, <2>4 DEF TabNext
<1>5. PICK c \in calls : Arrive(c) \/ Fail(c)
  BY <1>2, <1>3, <1>4 DEF Next, ServerNext, AnswerNext
<1>6. ASSUME NEW a, Heard(c, a), Handle(c, a)
      PROVE  a.status = "401"
  <2>1. token' = TokenHeard(c, a)
    BY <1>1, <1>6, HandleForm
  <2>2. c.kind = "login" /\ a.status = "ok" => a.token # None
    BY <1>1, <1>6, HeardTyped, NoneAssumption
  <2> QED
    BY <1>1, <2>1, <2>2 DEF TokenHeard, TokenAfter
<1>7. ~Fail(c)
  BY <1>6 DEF Fail, Heard, Status
<1> QED
  BY <1>5, <1>6, <1>7 DEF Arrive, Heard

(* No failed request and no refusal costs a session that works.            *)
THEOREM SessionsOutliveFailures == Spec => SessionOutlivesFailures
<1>1. SessionTyped /\ [Next]_vars =>
        [Valid(token) /\ token' = None =>
           \/ \E t \in Tabs : Logout(t)
           \/ \E c \in calls : Arrive(c) /\ c.reply.status = "401"]_vars
  BY OutlivesStep
<1> QED
  BY <1>1, TypedInit, TypedStep, PTL DEF Spec, SessionOutlivesFailures

-----------------------------------------------------------------------------
(***************************************************************************)
(* Who is shown, in a browser whose tabs are opened at pages that wait for *)
(* the first answer.                                                       *)
(***************************************************************************)
LEMMA UnchangedTabs ==
  ASSUME TabsOK, tab' = tab, calls' = calls, token' = token
  PROVE  TabsOK'
<1>1. ClosedOK'
  BY DEF TabsOK, ClosedOK
<1>2. ASSUME NEW t \in Tabs, Alone(t)'
      PROVE  RoutedOK(t, tab[t], token, calls)'
  <2>1. RoutedOK(t, tab[t], token, calls)
    BY <1>2 DEF TabsOK, AloneOK, Alone
  <2> QED
    BY <2>1 DEF RoutedOK, UnroutedOK
<1> QED
  BY <1>1, <1>2 DEF TabsOK, AloneOK

LEMMA AloneTab ==
  ASSUME TabsOK, NEW t \in Tabs, Alone(t)
  PROVE  RoutedOK(t, tab[t], token, calls)
  BY DEF TabsOK, AloneOK

(* A request that starts: c is no other than the one signing in, if it is  *)
(* one, and a tab that is loading sends none.                              *)
LEMMA SendStep ==
  ASSUME SessionTyped, TabsOK, NEW t \in Tabs,
         NEW kind \in Kinds \ {"me", "meAfterLogin"}, Send(t, kind),
         tab[t].page # "closed",
         Alone(t) => ~tab[t].loading,
         Alone(t) /\ kind = "login" => /\ tab[t].page = "login"
                                       /\ \A c \in calls : ~Signing(c)
  PROVE  TabsOK'
<1> DEFINE d == Call(t, kind, token)
<1>1. /\ d.tab = t /\ d.kind = kind /\ d.token = token
      /\ d.reply = None /\ d.form = (kind \in FormKinds)
  BY CallTyped DEF SessionTyped, TypeOK
<1>2. calls' = calls \cup {d} /\ tab' = tab /\ token' = token
  BY DEF Send
<1> HIDE DEF d
<1>3. ClosedOK'
  BY <1>1, <1>2 DEF TabsOK, ClosedOK
<1>4. ASSUME NEW o \in Tabs, Alone(o)'
      PROVE  RoutedOK(o, tab[o], token, calls)'
  <2>1. o = t /\ Alone(t)
    BY <1>2, <1>4 DEF Alone
  <2>2. RoutedOK(t, tab[t], token, calls)
    BY <2>1, AloneTab
  <2>3. CallOK(t, tab[t], token, d)
    <3>1. ~tab[t].loading /\ kind \notin {"me", "meAfterLogin"}
      BY <2>1
    <3>2. kind = "login" => tab[t].page = "login" /\ tab[t].user = None
      BY <2>1, <2>2 DEF RoutedOK
    <3> QED
      BY <1>1, <3>1, <3>2 DEF CallOK, Signing, FormKinds
  <2>4. \A c \in calls' : CallOK(t, tab[t], token, c)
    BY <1>2, <2>2, <2>3 DEF RoutedOK, UnroutedOK
  <2>5. \A c, e \in calls' : Signing(c) /\ Signing(e) => c = e
    <3>1. Signing(d) => \A c \in calls : ~Signing(c)
      BY <1>1, <2>1 DEF Signing
    <3>2. \A c, e \in calls : Signing(c) /\ Signing(e) => c = e
      BY <2>2 DEF RoutedOK, UnroutedOK
    <3> QED
      BY <1>2, <3>1, <3>2
  <2> QED
    BY <1>2, <2>1, <2>2, <2>4, <2>5 DEF RoutedOK, UnroutedOK
<1> QED
  BY <1>3, <1>4 DEF TabsOK, AloneOK

LEMMA SubmitStep ==
  ASSUME SessionTyped, TabsOK, NEW t \in Tabs,
         SubmitLogin(t) \/ SubmitPassword(t) \/ Poll(t) \/ AdminRequest(t)
  PROVE  TabsOK'
<1>1. CASE SubmitLogin(t)
  <2>1. Send(t, "login") /\ tab[t].page = "login" /\ ~Busy(t)
    BY <1>1 DEF SubmitLogin
  <2>2. ASSUME Alone(t)
        PROVE  ~tab[t].loading /\ \A c \in calls : ~Signing(c)
    <3>1. RoutedOK(t, tab[t], token, calls)
      BY <2>2, AloneTab
    <3>2. ~tab[t].loading
      BY <2>1, <3>1 DEF RoutedOK, UnroutedOK
    <3>3. \A c \in calls : CallOK(t, tab[t], token, c)
      BY <3>1 DEF RoutedOK, UnroutedOK
    <3>4. \A c \in calls : ~Signing(c)
      BY <2>1, <3>2, <3>3 DEF CallOK, Signing, Busy
    <3> QED
      BY <3>2, <3>4
  <2> QED
    BY <2>1, <2>2, SendStep DEF Kinds
<1>2. CASE SubmitPassword(t)
  BY <1>2, SendStep DEF SubmitPassword, Kinds
<1>3. CASE Poll(t)
  BY <1>3, SendStep DEF Poll, Kinds
<1>4. CASE AdminRequest(t)
  BY <1>4, SendStep DEF AdminRequest, Kinds
<1> QED
  BY <1>1, <1>2, <1>3, <1>4

(* A tab becomes r: what is left to show of who is shown.                  *)
LEMMA BecomesStep ==
  ASSUME SessionTyped, TabsOK, NEW t \in Tabs, NEW r \in TabRow,
         NEW cs \in SUBSET CallRow, Becomes(t, r, cs), r.page # "closed",
         \A c \in cs : c \in calls \/ c.tab = t,
         Alone(t) => UnroutedOK(t, r, token', cs),
         Alone(t) => \A c \in cs : c.kind \in {"login", "meAfterLogin"} =>
                       tab[t].page = "login"
  PROVE  TabsOK'
<1>1. tab \in [Tabs -> TabRow]
  BY DEF SessionTyped, TypeOK
<1>2. ClosedOK'
  BY <1>1, BecomesClosed DEF TabsOK
<1>3. AloneOK'
  BY <1>1, BecomesAlone
<1> QED
  BY <1>2, <1>3 DEF TabsOK

(* A page load: the tab hears nothing any more of what it had asked.       *)
LEMMA OpenStep ==
  ASSUME SessionTyped, TabsOK, OpenedAt \subseteq Pages,
         NEW t \in Tabs, NEW page \in OpenedAt, Open(t, page)
  PROVE  TabsOK'
<1>0. TypeOK /\ token \in Token \cup {None} /\ token' = token
  BY DEF SessionTyped, TypeOK, Open
<1>1. /\ Opened(page) \in TabRow /\ UnderWay(t) \in SUBSET CallRow
      /\ Becomes(t, Opened(page), UnderWay(t))
  BY <1>0, OpenForm
<1>2. /\ Opened(page).page = page /\ Opened(page).user = None
      /\ Opened(page).loading = (token # None)
      /\ page \notin {"login", "closed"}
  BY DEF Opened, Pages
<1>3. \A c \in UnderWay(t) : c \in calls \/ c.tab = t
  <2>1. Call(t, "me", token).tab = t
    BY <1>0, CallTyped DEF Kinds
  <2> QED
    BY <2>1 DEF UnderWay
<1>4. ASSUME Alone(t)
      PROVE  /\ UnroutedOK(t, Opened(page), token', UnderWay(t))
             /\ \A c \in UnderWay(t) : c.kind \notin {"login", "meAfterLogin"}
  <2>1. \A c \in calls : c.tab = t
    BY <1>4, AloneTab DEF RoutedOK, UnroutedOK, CallOK
  <2> DEFINE d == Call(t, "me", token)
  <2>2. UnderWay(t) = IF token = None THEN {} ELSE {d}
    BY <2>1 DEF UnderWay
  <2>3. d.tab = t /\ d.kind = "me" /\ d.token = token /\ d.reply = None
    BY <1>0, CallTyped DEF Kinds
  <2> HIDE DEF d
  <2>4. token # None => CallOK(t, Opened(page), token, d)
    BY <1>2, <2>3 DEF CallOK, Signing, SpeaksFor
  <2>5. \A c \in UnderWay(t) :
          /\ CallOK(t, Opened(page), token, c)
          /\ c.kind \notin {"login", "meAfterLogin"}
    BY <2>2, <2>3, <2>4
  <2>6. \A c, e \in UnderWay(t) : c = e
    BY <2>2
  <2> QED
    BY <1>0, <1>2, <2>5, <2>6 DEF UnroutedOK
<1> QED
  BY <1>1, <1>2, <1>3, <1>4, BecomesStep

(* Somebody is shown, so nothing under way is about who is signed in.      *)
LEMMA LeaveStep ==
  ASSUME SessionTyped, TabsOK, NEW t \in Tabs, tab[t].user # None,
         \/ \E page \in Pages : Navigate(t, page)
         \/ Logout(t)
  PROVE  TabsOK'
<1>0. TypeOK /\ calls \in SUBSET CallRow /\ tab[t].page # "closed"
  BY DEF SessionTyped, TypeOK, TabsOK, ClosedOK
<1>1. ASSUME Alone(t)
      PROVE  /\ RoutedOK(t, tab[t], token, calls)
             /\ \A c \in calls : c.tab = t /\ ~Signing(c)
             /\ ~tab[t].loading
  BY <1>1, AloneTab DEF RoutedOK, UnroutedOK, CallOK
<1>2. ASSUME NEW page \in Pages, Navigate(t, page)
      PROVE  TabsOK'
  <2> DEFINE r == [tab[t] EXCEPT !.page = page]
  <2>1. /\ r \in TabRow /\ r.page = page /\ r.user = tab[t].user
        /\ r.loading = tab[t].loading
    BY <1>0, TabChanged
  <2>2. Becomes(t, r, calls) /\ token' = token
    BY <1>2 DEF Navigate
  <2> HIDE DEF r
  <2>3. page \notin {"login", "closed"}
    BY DEF Pages
  <2>4. Alone(t) => UnroutedOK(t, r, token', calls)
    BY <1>1, <2>1, <2>2, <2>3 DEF RoutedOK, UnroutedOK, CallOK, Signing
  <2>5. Alone(t) => \A c \in calls : c.kind \notin {"login", "meAfterLogin"}
    BY <1>1 DEF Signing
  <2> QED
    BY <1>0, <2>1, <2>2, <2>3, <2>4, <2>5, BecomesStep
<1>3. CASE Logout(t)
  <2> DEFINE r == [tab[t] EXCEPT !.user = None]
  <2>1. /\ r \in TabRow /\ r.page = tab[t].page /\ r.user = None
        /\ r.loading = tab[t].loading
    BY <1>0, TabChanged
  <2>2. Becomes(t, r, calls) /\ token' = None
    BY <1>3 DEF Logout
  <2> HIDE DEF r
  <2>3. Alone(t) => UnroutedOK(t, r, token', calls)
    BY <1>1, <2>1, <2>2 DEF RoutedOK, UnroutedOK, CallOK, Signing
  <2>4. Alone(t) => \A c \in calls : c.kind \notin {"login", "meAfterLogin"}
    BY <1>1 DEF Signing
  <2> QED
    BY <1>0, <2>1, <2>2, <2>3, <2>4, BecomesStep
<1> QED
  BY <1>2, <1>3

(* What is heard is about whoever is signed in now, or nobody is.          *)
LEMMA HandleStep ==
  ASSUME SessionTyped, TabsOK, NEW c \in calls, NEW a, Heard(c, a), Handle(c, a)
  PROVE  TabsOK'
<1> DEFINE t == c.tab
           r == Hearer(c, a)
           cs == Pursued(c, a)
<1>1. /\ t \in Tabs /\ r \in TabRow /\ cs \in SUBSET CallRow
      /\ Becomes(t, r, cs) /\ token' = TokenHeard(c, a)
  BY HandleForm DEF SessionTyped
<1>2. tab[t] \in TabRow /\ tab[t].page # "closed"
  BY <1>1 DEF SessionTyped, TypeOK, TabsOK, ClosedOK
<1>3. r.page = tab[t].page
  BY <1>2 DEF Hearer, Refreshed, TabRow
<1> DEFINE m == [Call(t, "meAfterLogin", a.token) EXCEPT !.form = c.form]
<1>4. /\ m.tab = t /\ m.kind = "meAfterLogin" /\ m.token = a.token
      /\ m.reply = None /\ m.form = c.form
  BY DEF Call
<1>5. \A d \in cs : d \in calls \/ d.tab = t
  BY <1>4 DEF Pursued
<1>6. ASSUME Alone(t)
      PROVE  /\ UnroutedOK(t, r, token', cs)
             /\ \A d \in cs : d.kind \in {"login", "meAfterLogin"} =>
                  tab[t].page = "login"
  <2>1. RoutedOK(t, tab[t], token, calls)
    BY <1>1, <1>6, AloneTab
  <2>2. \A d \in calls : CallOK(t, tab[t], token, d)
    BY <2>1 DEF RoutedOK, UnroutedOK
  <2>3. Signing(c) => \A d \in calls \ {c} : ~Signing(d)
    BY <2>1 DEF RoutedOK, UnroutedOK
  <2>4. CASE c.kind \in {"me", "meAfterLogin"}
    <3>1. cs = calls \ {c} /\ token' = TokenAfter(a.status)
      BY <1>1, <2>4 DEF Pursued, TokenHeard
    <3>2. /\ ~r.loading
          /\ r.user = IF a.status = "ok" THEN a.user ELSE None
      BY <1>2, <2>4 DEF Hearer, Refreshed, TabRow
    <3>3. a.status = "ok" => token = None \/ a.user.id = token.sub
      <4>1. SpeaksFor(c, token)
        BY <2>2, <2>4 DEF CallOK
      <4> QED
        BY <4>1 DEF SpeaksFor, Heard, Status
    <3>4. \A d \in cs : d.tab = t /\ ~Signing(d)
      BY <2>2, <2>3, <2>4, <3>1 DEF CallOK, Signing
    <3>5. r.user # None => token' = None \/ token'.sub = r.user.id
      BY <3>1, <3>2, <3>3 DEF TokenAfter
    <3>6. \A d \in cs : CallOK(t, r, token', d)
      BY <3>2, <3>4 DEF CallOK, Signing
    <3> HIDE DEF r, cs, t
    <3> QED
      BY <3>2, <3>4, <3>5, <3>6 DEF UnroutedOK, Signing
  <2>5. CASE c.kind = "login" /\ a.status = "ok"
    <3>1. cs = (calls \ {c}) \cup {m} /\ token' = a.token /\ r = tab[t]
      BY <1>1, <2>5 DEF Pursued, TokenHeard, Hearer
    <3> HIDE DEF m, r, cs, t
    <3>2. r.user = None /\ r.page = "login" /\ c.form /\ ~r.loading
      BY <2>1, <2>2, <2>5, <3>1 DEF RoutedOK, UnroutedOK, CallOK, Signing
    <3>3. CallOK(t, r, token', m)
      BY <1>4, <3>1, <3>2 DEF CallOK, Signing, SpeaksFor
    <3>4. \A d \in calls \ {c} : CallOK(t, r, token', d) /\ ~Signing(d)
      BY <2>2, <2>3, <2>5, <3>1 DEF CallOK, Signing
    <3>5. \A d, e \in cs : Signing(d) /\ Signing(e) => d = e
      BY <3>1, <3>4
    <3> QED
      BY <1>3, <3>1, <3>2, <3>3, <3>4, <3>5 DEF UnroutedOK
  <2>6. CASE /\ c.kind \notin {"me", "meAfterLogin"}
             /\ ~(c.kind = "login" /\ a.status = "ok")
    <3>1. cs = calls \ {c} /\ token' \in {token, None}
      BY <1>1, <2>6 DEF Pursued, TokenHeard, TokenAfter
    <3>2. /\ r.page = tab[t].page /\ r.loading = tab[t].loading
          /\ r.user \in {tab[t].user, None}
      BY <1>2, <2>6 DEF Hearer, UserAfter, TabRow
    <3> HIDE DEF r, cs, t
    <3>3. \A d \in cs : CallOK(t, r, token', d)
      BY <2>2, <3>1, <3>2 DEF CallOK, Signing, SpeaksFor
    <3> QED
      BY <2>1, <2>2, <3>1, <3>2, <3>3 DEF RoutedOK, UnroutedOK, CallOK
  <2> QED
    BY <2>4, <2>5, <2>6
<1> HIDE DEF t, r, cs
<1> QED
  BY <1>1, <1>2, <1>3, <1>5, <1>6, BecomesStep

LEMMA TabsStep ==
  ASSUME OpenedAt \subseteq Pages
  PROVE  SessionInv /\ [Next]_vars => SessionInv'
<1> SUFFICES ASSUME SessionInv, [Next]_vars PROVE SessionInv'
  OBVIOUS
<1>0. SessionTyped /\ TabsOK /\ SessionTyped'
  BY TypedStep DEF SessionInv
<1>1. CASE (AccountsNext /\ UNCHANGED sessionVars) \/ Expire \/ UNCHANGED vars
  BY <1>0, <1>1, UnchangedTabs DEF sessionVars, vars, Expire, SessionInv
<1>2. ASSUME NEW c \in calls, Serve(c)
      PROVE  SessionInv'
  BY <1>2, ServeStep
<1>3. ASSUME NEW t \in Tabs, TabNext(t)
      PROVE  TabsOK'
  <2>1. ASSUME NEW page \in OpenedAt, Open(t, page)
        PROVE  TabsOK'
    BY <1>0, <2>1, OpenStep
  <2>2. CASE (\E page \in Pages : Navigate(t, page)) \/ Logout(t)
    BY <1>0, <2>2, LeaveStep DEF Navigate, Logout
  <2>3. CASE SubmitLogin(t) \/ SubmitPassword(t) \/ Poll(t) \/ AdminRequest(t)
    BY <1>0, <2>3, SubmitStep
  <2> QED
    BY <1>3, <2>1, <2>2, <2>3 DEF TabNext
<1>4. ASSUME NEW c \in calls, Arrive(c) \/ Fail(c)
      PROVE  TabsOK'
  BY <1>0, <1>4, HandleStep DEF Arrive, Fail, Heard
<1> QED
  BY <1>0, <1>1, <1>2, <1>3, <1>4
  DEF Next, ServerNext, AnswerNext, SessionInv

LEMMA TabsInit == Init => SessionInv
<1> SUFFICES ASSUME Init PROVE SessionInv
  OBVIOUS
<1>1. SessionTyped
  BY TypedInit
<1>2. /\ token = None /\ calls = {}
      /\ \A t \in Tabs : /\ tab[t].page = "closed" /\ tab[t].user = None
                         /\ ~tab[t].loading
  BY DEF Init, ClientInit
<1>3. \A t \in Tabs : RoutedOK(t, tab[t], token, calls)
  BY <1>2 DEF RoutedOK, UnroutedOK
<1> QED
  BY <1>1, <1>2, <1>3 DEF SessionInv, TabsOK, ClosedOK, AloneOK

(* A tab that is alone acts for the account it shows, in a browser whose   *)
(* tabs are not opened at the sign-in page: that page does not wait for    *)
(* the first answer, so one about the session before may come last.        *)
THEOREM TabsActAsShown ==
  ASSUME OpenedAt \subseteq Pages
  PROVE  Spec => []ActsAsShown
<1>1. SessionInv => ActsAsShown
  BY DEF SessionInv, TabsOK, AloneOK, Alone, RoutedOK, UnroutedOK, ActsAsShown
<1>2. SessionInv /\ [Next]_vars => SessionInv'
  BY TabsStep
<1> QED
  BY <1>1, <1>2, TabsInit, PTL DEF Spec

-----------------------------------------------------------------------------
(***************************************************************************)
(* The overview of the reserve page.  Any answer may draw it, also one     *)
(* that a later one has overtaken: what it says of the selected GPU is     *)
(* looked at in the same step.                                             *)
(***************************************************************************)
LEMMA ArrivalKeepsSelection ==
  ASSUME NEW c \in asked, Overview!Arrive(c), Overview!SelectedIsUsable
  PROVE  Overview!SelectedIsUsable'
<1>1. CASE c.superseded
  BY <1>1 DEF Overview!Arrive, Overview!SelectedIsUsable, Overview!Inactive
<1>2. CASE ~c.superseded
  <2>1. servers' = c.answer /\ c.answer # None
    BY <1>2 DEF Overview!Arrive
  <2>2. selected' # None => ~Overview!Inactive(c.answer, selected')
    BY <1>2 DEF Overview!Arrive, Overview!StillSelected
  <2> QED
    BY <2>1, <2>2 DEF Overview!SelectedIsUsable, Overview!Inactive
<1> QED
  BY <1>1, <1>2

LEMMA OverviewKeepsSelection ==
  ASSUME Overview!Next, Overview!SelectedIsUsable
  PROVE  Overview!SelectedIsUsable'
<1>1. ASSUME UNCHANGED <<servers, selected>>
      PROVE  Overview!SelectedIsUsable'
  BY <1>1 DEF Overview!SelectedIsUsable, Overview!Inactive
<1>2. ASSUME selected' = None
      PROVE  Overview!SelectedIsUsable'
  BY <1>2 DEF Overview!SelectedIsUsable
<1>3. ASSUME NEW g \in FleetGpus, Overview!HandlePick(g)
      PROVE  Overview!SelectedIsUsable'
  BY <1>3 DEF Overview!HandlePick, Overview!SelectedIsUsable, Overview!Inactive
<1> QED
  BY <1>1, <1>2, <1>3, ArrivalKeepsSelection
  DEF Overview!Next, Overview!Open, Overview!Leave, Overview!Poll,
      Overview!Reload, Overview!Serve, Overview!Lose, Overview!Switch

(* Whatever order the answers come in, the form never holds a GPU that the *)
(* overview on screen shows as switched off.                               *)
THEOREM SelectedStaysUsable == LiveSpec => []SelectedIsUsable
<1>1. LiveInit => SelectedIsUsable
  BY DEF LiveInit, OfOverview, SelectedIsUsable, Overview!Init, Overview!Blank,
         Overview!SelectedIsUsable
<1>2. SelectedIsUsable /\ [LiveNext]_liveVars => SelectedIsUsable'
  <2> SUFFICES ASSUME SelectedIsUsable, [LiveNext]_liveVars, OfOverview'
               PROVE  Overview!SelectedIsUsable'
    BY DEF SelectedIsUsable
  <2>1. OfOverview /\ Overview!SelectedIsUsable
    BY DEF SelectedIsUsable, OfOverview, LiveNext, liveVars
  <2>2. CASE Overview!Next
    BY <2>1, <2>2, OverviewKeepsSelection
  <2>3. CASE UNCHANGED liveVars
    BY <2>1, <2>3 DEF liveVars, overviewVars, Overview!SelectedIsUsable,
                      Overview!Inactive
  <2> QED
    BY <2>1, <2>2, <2>3 DEF LiveNext, OfOverview
<1> QED
  BY <1>1, <1>2, PTL DEF LiveSpec
=============================================================================
