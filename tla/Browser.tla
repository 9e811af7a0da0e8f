------------------------------ MODULE Browser ------------------------------
(***************************************************************************)
(* A tab of the web client: the session it keeps, the page it shows, what  *)
(* it has asked the server for and not got yet, and the handlers that wait *)
(* for a call to answer before they ask again for what the call changed.   *)
(*                                                                         *)
(* The server is reduced to what a tab can tell: a write goes by, and an   *)
(* answer was read before it or after it.  An answer that is shown lacks   *)
(* the writes that came after it was read; `lacks` names them, an own      *)
(* write by its act, everybody else's as "others".                         *)
(***************************************************************************)
EXTENDS Screens, Integers, FiniteSets, Functions

CONSTANTS Pages,      \* the pages the user visits, one of them the dashboard
          MaxEvents,  \* moves of the user, writes of others and faults
          MaxActs,    \* handlers begun
          MaxAsked,   \* requests for one view on their way at once
          MaxOnWire   \* requests on their way when more are asked for

ASSUME BoundsAssumption == /\ Pages \subseteq DOMAIN Screens /\ "dashboard" \in Pages
                           /\ {MaxEvents, MaxActs, MaxAsked, MaxOnWire} \subseteq Nat /\ MaxAsked > 0

VARIABLES session,    \* "out", "member" or "admin": the stored profile and token
          page,       \* the page shown
          open,       \* its dialogs, the last one on top
          filter,     \* what the user picked: a year, a status, the kinds of entries
          raised,     \* the flags that are up: what they name is disabled
          shown,      \* what each view of the page holds
          wire,       \* the requests for each view on their way, as asked
          handlers,   \* the handlers begun, as begun
          signalled,  \* a signal of the server waits for the page
          events

tab == <<session, page, open, filter, raised>>
vars == <<session, page, open, filter, raised, shown, wire, handlers, signalled, events>>

NoPage == [Screen(<<>>, <<>>, [page |-> Panel({}, {})]) EXCEPT !.admin = FALSE]
ScreenOf(pg) == IF pg = "login" THEN NoPage ELSE Screens[pg]
Views(pg) == DOMAIN ScreenOf(pg).views
view(v) == ScreenOf(page).views[v]
act(a) == ScreenOf(page).acts[a]
top == IF open = <<>> THEN "page" ELSE open[Len(open)]
panel == ScreenOf(page).panels[top]
OnScreen(v) == view(v).panel \in {"page"} \cup Range(open)

Busy(flag) == flag \in raised
Loaded(vs) == \A v \in vs : shown[v].has
Blank == \E v \in ScreenOf(page).blank : shown[v].loading \/ ~shown[v].has

-----------------------------------------------------------------------------
(* Asking, as useQuery and the screens' own effects do.                    *)

Empty == [has |-> FALSE, of |-> 1, lacks |-> {}, late |-> FALSE, failed |-> FALSE, loading |-> FALSE]
Request(f, h) == [of |-> f, by |-> h, read |-> FALSE, lacks |-> {}, late |-> FALSE, more |-> FALSE]

OnWire == FoldFunction(LAMBDA rs, n : Len(rs) + n, 0, wire)
Room(vs) == OnWire + Cardinality(vs) <= MaxOnWire /\ \A v \in vs : Len(wire[v]) < MaxAsked

\* Nothing drops a request that a newer one for the same view has overtaken.
AskedAs(vs, rs) == [v \in DOMAIN wire |-> IF v \in vs THEN Append(wire[v], rs[v]) ELSE wire[v]]
Loading(vs) == [v \in DOMAIN shown |->
                  IF v \in vs THEN [shown[v] EXCEPT !.loading = TRUE, !.failed = FALSE] ELSE shown[v]]
Asks(vs) == /\ wire' = AskedAs(vs, [v \in vs |-> Request(filter, 0)])
            /\ shown' = Loading(vs)

\* A handler's closure holds the filter and the dialogs of the render it was made in; the
\* hook asks by its latest filter all the same, a plain function by the handler's own.
Captured == {"chargeList"}
Rereads(h, vs) ==
  LET again == vs \cap handlers[h].sees
      of(v) == IF v \in Captured THEN handlers[h].filter ELSE filter
  IN /\ Room(again)
     /\ wire' = AskedAs(again, [v \in again |-> Request(of(v), h)])
     /\ shown' = Loading(again)

-----------------------------------------------------------------------------
(* The session and the router.                                             *)

\* Mutant: RequireAdmin lets every signed-in user through.
GuardedForLogin(who, pg) == IF who = "out" THEN "login" ELSE pg

\* RequireAuth, RequireAdmin.
Guarded(who, pg) ==
  CASE who = "out" -> "login"
    [] who = "member" /\ ScreenOf(pg).admin -> "dashboard"
    [] OTHER -> pg

Done == [act |-> "none", step |-> "done", here |-> FALSE, changes |-> {}, rest |-> <<>>,
         sees |-> {}, filter |-> 1]

\* Leaving a page drops its state; a call already made goes on at the server.
Left == [h \in DOMAIN handlers |->
           IF handlers[h].step = "called"
           THEN [Done EXCEPT !.step = "called", !.changes = handlers[h].changes] ELSE Done]
Mounted(pg) == {v \in Views(pg) : ScreenOf(pg).views[v].panel = "page"}
Shows(pg) ==
  /\ page' = pg /\ open' = <<>> /\ filter' = 1 /\ raised' = {} /\ signalled' = FALSE
  /\ shown' = [v \in Views(pg) |-> [Empty EXCEPT !.loading = v \in Mounted(pg)]]
  /\ wire' = [v \in Views(pg) |-> IF v \in Mounted(pg) THEN <<Request(1, 0)>> ELSE <<>>]
  /\ handlers' = Left

\* The tab rests on some page: everything asked for has come.
Init ==
  /\ session \in {"out", "member", "admin"}
  /\ page \in {Guarded(session, pg) : pg \in Pages}
  /\ open = <<>> /\ filter = 1 /\ raised = {} /\ signalled = FALSE /\ handlers = <<>>
  /\ shown = [v \in Views(page) |-> [Empty EXCEPT !.has = v \in Mounted(page)]]
  /\ wire = [v \in Views(page) |-> <<>>]
  /\ events = 0

Event == events < MaxEvents /\ events' = events + 1

\* Visiting the page shown stands for reloading it, which choosing a company does; the login
\* page may be visited signed in.
Visit(pg) ==
  /\ session # "out" /\ Event
  /\ Shows(Guarded(session, pg))
  /\ UNCHANGED session

doLogin ==
  /\ page = "login" /\ Event
  /\ session' \in {"member", "admin"}
  /\ Shows("dashboard")

logout ==
  /\ page # "login" /\ ~Blank /\ Event
  /\ session' = "out" /\ Shows("login")

\* A token the server no longer takes: the profile goes and the tab is loaded again.
onUnauthorized ==
  /\ \/ \E v \in DOMAIN wire : wire[v] # <<>>
     \/ \E h \in DOMAIN handlers : handlers[h].step = "called"
  /\ page # "login" /\ Event
  /\ session' = "out" /\ Shows("login")

-----------------------------------------------------------------------------
(* The user and the page.                                                  *)

OpenDialog(p) ==
  LET asked == {v \in DOMAIN shown : view(v).panel = p}
      new == {v \in asked : view(v).resets}
  IN /\ p \in panel.opens /\ p \notin Range(open)
     /\ Loaded(ScreenOf(page).panels[p].needs \ asked) /\ Event
     /\ open' = Append(open, p) /\ raised' = raised \cup ({view(v).raises : v \in asked} \ {NoFlag})
     /\ Room(asked)
     /\ wire' = AskedAs(asked, [v \in asked |-> Request(filter, 0)])
     /\ shown' = [v \in DOMAIN shown |->
                    IF v \in asked
                    THEN [(IF v \in new THEN Empty ELSE shown[v])
                            EXCEPT !.loading = TRUE, !.failed = FALSE]
                    ELSE shown[v]]
     /\ UNCHANGED <<session, page, filter, handlers, signalled>>

Closed(p) ==
  IF p \in Range(open)
  THEN LET i == CHOOSE j \in DOMAIN open : open[j] = p
       IN [j \in 1..(Len(open) - 1) |-> IF j < i THEN open[j] ELSE open[j + 1]]
  ELSE open
CloseDialog ==
  /\ open # <<>> /\ ~Busy(panel.locked) /\ Event
  /\ open' = Closed(top)
  /\ UNCHANGED <<session, page, filter, raised, shown, wire, handlers, signalled>>

\* The elements of a sequence that are in a set, in their order.
Chosen(s, T) ==
  LET chosen[n \in 0..Len(s)] ==
        IF n = 0 THEN <<>>
        ELSE IF s[n] \in T THEN Append(chosen[n - 1], s[n]) ELSE chosen[n - 1]
  IN chosen[Len(s)]

\* The ledger drops the first page it waits for, the other lists what they get too late.
Pick ==
  LET picked == {v \in DOMAIN shown : view(v).picked /\ OnScreen(v)}
      kept(v) == IF view(v).grows THEN Chosen(wire[v], {r \in Range(wire[v]) : r.more}) ELSE wire[v]
  IN /\ picked # {} /\ Event
     /\ filter' = 3 - filter
     /\ \A v \in picked : Len(kept(v)) < MaxAsked
     /\ wire' = [v \in DOMAIN wire |->
                   IF v \in picked THEN Append(kept(v), Request(filter', 0)) ELSE wire[v]]
     /\ shown' = Loading(picked)
     /\ UNCHANGED <<session, page, open, raised, handlers, signalled>>

loadMore ==
  /\ \E v \in DOMAIN shown :
       /\ view(v).grows /\ shown[v].has /\ ~shown[v].loading /\ Room({v})
       /\ wire' = AskedAs({v}, [u \in {v} |-> [Request(filter, 0) EXCEPT !.more = TRUE]])
       /\ shown' = [shown EXCEPT ![v].loading = TRUE]
  /\ Event
  /\ UNCHANGED <<tab, handlers, signalled>>

Refresh ==
  /\ panel.rereads # {} /\ ~Blank /\ Room(panel.rereads) /\ Event
  /\ Asks(panel.rereads)
  /\ UNCHANGED <<tab, handlers, signalled>>

\* setInterval, and for the notices a signal or the tab's return to the front.  No tick comes while the
\* answer to the last one is on its way, and one that would change nothing is left out.
Poll(v) ==
  /\ v \in DOMAIN shown /\ view(v).polled /\ wire[v] = <<>>
  /\ ~shown[v].has \/ shown[v].lacks # {}
  /\ Asks({v})
  /\ UNCHANGED <<tab, handlers, signalled, events>>

Signal ==
  /\ signalled /\ signalled' = FALSE
  /\ Room(ScreenOf(page).stream.asks)
  /\ Asks(ScreenOf(page).stream.asks)
  /\ UNCHANGED <<tab, handlers, events>>

-----------------------------------------------------------------------------
(* Handlers and the server.                                                *)

Begin(a) ==
  /\ a \in panel.offers /\ Loaded(panel.needs) /\ ~Blank /\ ~Busy(act(a).flag)
  /\ Len(handlers) < MaxActs
  /\ raised' = raised \cup ({act(a).flag} \ {NoFlag})
  /\ handlers' = Append(handlers, [act |-> a, step |-> "called", here |-> TRUE,
                                   changes |-> act(a).changes, rest |-> act(a).then,
                                   sees |-> {v \in DOMAIN shown : OnScreen(v)}, filter |-> filter])
  /\ UNCHANGED <<session, page, open, filter, shown, wire, signalled, events>>

\* A write to parts: what is shown lacks it, and so do the answers read before it.
Write(parts, who) ==
  LET seen == {v \in DOMAIN shown : view(v).shows \cap parts # {}}
      unread == {r \in seen \X (1..MaxAsked) : r[2] \in DOMAIN wire[r[1]] /\ ~wire[r[1]][r[2]].read}
  IN \E before \in SUBSET unread :
       /\ wire' = [v \in DOMAIN wire |-> [i \in DOMAIN wire[v] |->
                     IF v \in seen /\ (wire[v][i].read \/ <<v, i>> \in before)
                     THEN [wire[v][i] EXCEPT !.read = TRUE, !.lacks = @ \cup {who}]
                     ELSE wire[v][i]]]
       /\ shown' = [v \in DOMAIN shown |->
                      IF v \in seen /\ shown[v].has THEN [shown[v] EXCEPT !.lacks = @ \cup {who}]
                      ELSE shown[v]]
       /\ signalled' \in {signalled, signalled \/ parts \cap ScreenOf(page).stream.parts # {}}

Others(part) ==
  /\ \E v \in DOMAIN shown : part \in view(v).shows
  /\ Event
  /\ Write({part}, "others")
  /\ UNCHANGED <<tab, handlers>>

\* The server does what it is called for, and the answer comes or is lost.
Serve(h) ==
  /\ handlers[h].step = "called"
  /\ \E lost \in BOOLEAN :
       /\ IF lost THEN Event ELSE UNCHANGED events
       /\ Write(handlers[h].changes,
                IF handlers[h].here /\ ~lost THEN handlers[h].act ELSE "others")
       /\ handlers' = [handlers EXCEPT ![h] =
            IF handlers[h].here THEN [@ EXCEPT !.step = IF lost THEN "refused" ELSE "answered"]
            ELSE Done]
  /\ UNCHANGED <<tab>>

Refuse(h) ==
  /\ handlers[h].step = "called"
  /\ handlers' = [handlers EXCEPT ![h] = IF handlers[h].here THEN [@ EXCEPT !.step = "refused"] ELSE Done]
  /\ UNCHANGED <<tab, shown, wire, signalled, events>>

\* The handler's flag falls at the moments its screen names, whoever holds it by then.
Lowered(a, when) == IF when \in a.falls THEN raised \ {a.flag} ELSE raised

\* On an answer the dialog closes and what it changed is asked for again, group after group.
Answer(h) ==
  /\ handlers[h].step = "answered"
  /\ open' = Closed(act(handlers[h].act).closes)
  /\ raised' = Lowered(act(handlers[h].act), "answer")
  /\ handlers' = [handlers EXCEPT ![h].step = "reading"]
  /\ shown' = [v \in DOMAIN shown |->
                 IF v \in act(handlers[h].act).patches
                 THEN [shown[v] EXCEPT !.lacks = @ \ {handlers[h].act}] ELSE shown[v]]
  /\ UNCHANGED <<session, page, filter, wire, signalled, events>>

Waits(h) == \E v \in DOMAIN wire : \E i \in DOMAIN wire[v] : wire[v][i].by = h
Reread(h) ==
  /\ handlers[h].step = "reading" /\ handlers[h].rest # <<>> /\ ~Waits(h)
  /\ Rereads(h, Head(handlers[h].rest))
  /\ handlers' = [handlers EXCEPT ![h].rest = Tail(@)]
  /\ UNCHANGED <<tab, signalled, events>>

Finish(h) ==
  /\ \/ /\ handlers[h].step = "refused"
        /\ raised' = raised \ {act(handlers[h].act).flag}
     \/ /\ handlers[h].step = "reading" /\ handlers[h].rest = <<>> /\ ~Waits(h)
        /\ raised' = Lowered(act(handlers[h].act), "end")
  /\ handlers' = [handlers EXCEPT ![h] = Done]
  /\ UNCHANGED <<session, page, open, filter, shown, wire, signalled, events>>

-----------------------------------------------------------------------------
(* Answers, in any order.                                                  *)

Without(v, i) ==
  LET older(j) == [wire[v][j] EXCEPT !.late = TRUE]
  IN [j \in 1..(Len(wire[v]) - 1) |-> IF j < i THEN older(j) ELSE wire[v][j + 1]]

Land(v, i) ==
  /\ v \in DOMAIN wire /\ i \in DOMAIN wire[v]
  /\ LET r == wire[v][i]
         s == shown[v]
     IN shown' = [shown EXCEPT ![v] =
          [s EXCEPT !.has = TRUE, !.loading = FALSE, !.of = r.of,
                    !.lacks = r.lacks \cup (IF r.more THEN s.lacks ELSE {}),
                    !.late = r.late \/ (r.more /\ s.late)]]
  /\ wire' = [wire EXCEPT ![v] = Without(v, i)]
  /\ raised' = raised \ {view(v).raises}
  /\ UNCHANGED <<session, page, open, filter, handlers, signalled, events>>

Fail(v) ==
  /\ v \in DOMAIN wire /\ wire[v] # <<>>
  /\ Event
  /\ shown' = [shown EXCEPT ![v].loading = FALSE, ![v].failed = TRUE]
  /\ wire' = [wire EXCEPT ![v] = Tail(@)]
  /\ raised' = raised \ {view(v).raises}
  /\ open' = IF view(v).raises = NoFlag THEN open ELSE Closed(view(v).panel)
  /\ UNCHANGED <<session, page, filter, handlers, signalled>>

User == \/ \E pg \in Pages \cup {"login"} : Visit(pg)
        \/ doLogin \/ logout
        \/ \E p \in DOMAIN ScreenOf(page).panels : OpenDialog(p)
        \/ CloseDialog \/ Pick \/ loadMore \/ Refresh
        \/ \E a \in DOMAIN ScreenOf(page).acts : Begin(a)
Server == \/ \E part \in Parts : Others(part)
          \/ \E h \in DOMAIN handlers : Serve(h) \/ Refuse(h)
          \/ onUnauthorized
Client == \/ \E h \in DOMAIN handlers : Answer(h) \/ Reread(h) \/ Finish(h)
          \/ \E v \in DOMAIN shown : Poll(v)
          \/ Signal
          \/ \E v \in DOMAIN wire : Fail(v) \/ \E i \in DOMAIN wire[v] : Land(v, i)
Next == User \/ Server \/ Client

\* The timers of a page fire for as long as it is shown, and a request is answered or fails.
Watched == {"bell", "badge", "pendingCount"}
Fairness == \A v \in Watched : WF_vars(Poll(v)) /\ WF_vars(Land(v, 1))

Spec == Init /\ [][Next]_vars /\ Fairness

-----------------------------------------------------------------------------
(* What the tab promises.                                                  *)

Own == (UNION {DOMAIN Screens[pg].acts : pg \in DOMAIN Screens}) \cup {"others"}

\* Types, and what the router's guards are for: a signed-out tab shows the login page and a
\* member's tab no page of the administrators, whatever was on its way when the session changed.
TypeOK ==
  /\ session \in {"out", "member", "admin"} /\ filter \in 1..2 /\ signalled \in BOOLEAN
  /\ session = "out" => page = "login"
  /\ ScreenOf(page).admin => session = "admin"
  /\ Range(open) \subseteq DOMAIN ScreenOf(page).panels
  /\ DOMAIN shown = Views(page) /\ DOMAIN wire = Views(page)
  /\ \A v \in Views(page) :
       /\ shown[v].of \in 1..2 /\ shown[v].lacks \subseteq Own
       /\ Len(wire[v]) <= MaxAsked
  /\ \A h \in DOMAIN handlers :
       handlers[h].here => handlers[h].act \in DOMAIN ScreenOf(page).acts

\* The writes whose handlers leave a view out: the ended lots after one is closed and the next release
\* after its policy changes (neither is in the list refetched), a dialog opened while the call was on
\* its way, which its handler does not know of, and the preview of the dividend, opened in place of
\* the pool's when an older preview has lowered the flag that the collection holds (as far as the
\* flags go: the previews' contents, left out here, may disable the button first).
Forgotten == {<<"doCloseNow", "ended">>, <<"savePolicy", "upcomingRelease">>,
              <<"toggleItem", "audits">>, <<"doSync", "chargeList">>,
              <<"toggleActive", "chargeList">>, <<"triggerSettle", "poolPreview">>,
              <<"runPool", "divPreview">>}

AtRest == /\ \A v \in DOMAIN wire : wire[v] = <<>>
          /\ \A h \in DOMAIN handlers : ~handlers[h].here
          /\ ~signalled

\* A tab at rest shows what its own user did: once every answer has come and every handler has
\* ended, no view on the screen was read before a write of this tab, nor by a filter given up,
\* unless its last request failed, an older answer came in after a newer one (useQuery keeps no
\* order), or the handler is one of Forgotten.
RestShowsOwn ==
  AtRest => \A v \in DOMAIN shown :
    (OnScreen(v) /\ shown[v].has /\ ~shown[v].late /\ ~shown[v].failed /\ ~view(v).polled) =>
      /\ view(v).picked /\ v \notin Captured => shown[v].of = filter
      /\ \A a \in shown[v].lacks \ {"others"} : <<a, v>> \in Forgotten

\* The bell and the badges catch up with everybody's writes: for as long as the page is shown,
\* each is again and again free of writes it lacks (TopNav, AdminTabs and the counter of charge
\* requests ask by a timer).
PolledCatchUp ==
  \A v \in Watched : []<>(v \notin DOMAIN shown \/ shown[v].lacks = {})
=============================================================================
