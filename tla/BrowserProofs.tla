--------------------------- MODULE BrowserProofs ---------------------------
(***************************************************************************)
(* For every set of pages and every bound: the guards of the router hold   *)
(* whatever was on its way, and a tab at rest shows what its own user did. *)
(*                                                                         *)
(* The second follows from what each page's table says (ScreensMade: its   *)
(* handlers ask again for all they change that is still on the screen) by  *)
(* an invariant about every view on the screen: what the answer to its     *)
(* last request will lack is owed to it by a handler that has still to ask *)
(* for it.  What a dialog's handler knows when its answer comes rests on   *)
(* how dialogs stack: the form whose call is on its way stays on top as    *)
(* long as its flag is up, and no other handler lowers a flag that falls   *)
(* at one moment only and that no preview lends (Tight).  A form without   *)
(* such a flag is covered by what its answer closes, or is Forgotten.      *)
(***************************************************************************)
EXTENDS Browser, TLAPS, SequenceTheorems, WellFoundedInduction

-----------------------------------------------------------------------------
(* The tables of the pages.                                                *)
\* A handler changes what a view shows.
Touches(views, acts, a, v) == views[v].shows \cap acts[a].changes # {}

\* The flags that the preview of a dialog raises and lowers too.
Lent == {"poolLoading", "divLoading"}

\* Nobody else lowers the flag while the handler holds it: not a preview, nor the end of a handler
\* that had let go of it.
Tight(acts, a) == acts[a].flag \notin Lent \cup {NoFlag} /\ acts[a].falls \in {{"answer"}, {"end"}}

\* It is the handler of a dialog's form, which closes on the answer, and has a flag of its own.
Modal(acts, a) == acts[a].closes # "page" /\ Tight(acts, a)

\* What it asks for again.
Again(acts, a) == UNION {acts[a].then[i] : i \in DOMAIN acts[a].then}

\* A dialog opens no page, and what can be opened from it through another, it can open itself.
PanelsFit(panels) ==
  /\ "page" \in DOMAIN panels /\ {"offers", "opens", "locked"} \subseteq DOMAIN panels["page"]
  /\ \A p \in DOMAIN panels : "page" \notin panels[p].opens
  /\ \A p \in DOMAIN panels \ {"page"}, q \in DOMAIN panels, r \in DOMAIN panels :
        q \in panels[p].opens /\ r \in panels[q].opens /\ p # r => r \in panels[p].opens

\* What becomes of a view that a handler, offered by p, changes: it is forgotten, it is asked for
\* again and the handler knew of it, its panel cannot be under p, or closes on the answer.
Covers(views, acts, panels, a, p, v) ==
  \/ <<a, v>> \in Forgotten
  \/ v \in Again(acts, a) /\ (Modal(acts, a) \/ views[v].panel \in {"page", p})
  \/ /\ Modal(acts, a) /\ views[v].panel \in DOMAIN panels \ {"page"}
     /\ p \notin panels[views[v].panel].opens
  \/ acts[a].closes # "page" /\ views[v].panel = acts[a].closes

\* A handler asks only for views of its page, covers those it changes, changes none that grows; the
\* form of a dialog is on top and holds the dialog open.
ActFits(views, acts, panels, a) ==
  /\ acts[a].then \in Seq(SUBSET DOMAIN views) /\ acts[a].changes \subseteq Parts
  /\ \A v \in DOMAIN views : views[v].grows => ~Touches(views, acts, a, v)
  /\ \A p \in DOMAIN panels : a \in panels[p].offers =>
       /\ acts[a].closes # "page" =>
            /\ p = acts[a].closes /\ panels[p].opens = {}
            /\ panels[p].locked = acts[a].flag /\ acts[a].flag # NoFlag
       /\ \A v \in DOMAIN views : Touches(views, acts, a, v) /\ ~views[v].polled =>
            Covers(views, acts, panels, a, p, v)

\* A preview lends its flag to the dialog it is shown in; handlers that share a flag let it fall
\* at the same moments.
FlagsFit(views, acts, panels) ==
  /\ \A v \in DOMAIN views : views[v].raises # NoFlag =>
        /\ views[v].raises \in Lent /\ views[v].panel \in DOMAIN panels
        /\ panels[views[v].panel].locked = views[v].raises
  /\ \A a \in DOMAIN acts, b \in DOMAIN acts :
        acts[a].flag = acts[b].flag /\ acts[a].flag # NoFlag => acts[a].falls = acts[b].falls

\* The tables of a page fit together.
WellMade(views, acts, panels) ==
  /\ PanelsFit(panels) /\ FlagsFit(views, acts, panels)
  /\ \A a \in DOMAIN acts : ActFits(views, acts, panels, a)

\* No view but the bell shows the notices.
Quiet(views) == \A v \in DOMAIN views : "notices" \notin views[v].shows

\* A whole screen.
Made(s) == {"views", "acts", "panels", "admin"} \subseteq DOMAIN s /\ WellMade(s.views, s.acts, s.panels)

\* A screen is made well when its three tables are.
LEMMA ScreenMade ==
  ASSUME NEW views, NEW acts, NEW panels, WellMade(views, acts, panels)
  PROVE  Made(Screen(views, acts, panels))
  BY DEF Made, Screen

\* What the bar over every page adds to a screen, field by field (TopNav).
LEMMA NavFields ==
  ASSUME NEW s, Made(s)
  PROVE  /\ UnderNav(s).views = With(s.views, "bell", Bell)
         /\ UnderNav(s).acts = With(s.acts, "toggleBell", toggleBell)
         /\ UnderNav(s).panels = [s.panels EXCEPT !["page"].offers = @ \cup {"toggleBell"}]
         /\ DOMAIN UnderNav(s) = DOMAIN s
  BY DEF UnderNav, Made

\* The bell asks by a timer, and its handler asks for nothing again.
LEMMA BellPlain ==
  /\ Bell.polled /\ ~Bell.grows /\ Bell.raises = NoFlag /\ toggleBell.flag = NoFlag
  /\ toggleBell.then = <<>> /\ toggleBell.changes = {"notices"} /\ toggleBell.closes = "page"
  BY DEF Bell, toggleBell, Polled, View, Patching, Act, NoticeCalls, NoticeRoutes, MarkNotificationsRead

\* So does the badge over the tabs.
LEMMA BadgePlain == Badge.polled /\ ~Badge.grows /\ Badge.raises = NoFlag
  BY DEF Badge, Polled, View

\* A view read by a timer spoils no page it is added to.
LEMMA ViewAdded ==
  ASSUME NEW views, NEW acts, NEW panels, WellMade(views, acts, panels), NEW name, NEW view0,
         view0.polled, ~view0.grows, view0.raises = NoFlag
  PROVE  WellMade(With(views, name, view0), acts, panels)
  <1> DEFINE wider == With(views, name, view0)
  <1>0. /\ DOMAIN wider = DOMAIN views \cup {name} /\ wider[name] = view0
        /\ \A v \in DOMAIN views : v # name => wider[v] = views[v]
    BY DEF With
  <1> HIDE DEF wider
  <1>1. /\ DOMAIN views \subseteq DOMAIN wider 
        /\ \A v \in DOMAIN wider : (v = name /\ wider[v] = view0) \/ (v \in DOMAIN views /\ wider[v] = views[v])
    BY <1>0
  <1>2. ASSUME NEW a \in DOMAIN acts PROVE ActFits(wider, acts, panels, a)
    <2>1. ActFits(views, acts, panels, a)
      BY DEF WellMade
    <2>2. acts[a].then \in Seq(SUBSET DOMAIN wider)
      <3>1. SUBSET DOMAIN views \subseteq SUBSET DOMAIN wider
        BY <1>1
      <3> QED BY <3>1, <2>1, SeqMonotonic DEF ActFits
    <2>3. \A v \in DOMAIN wider : wider[v].grows => ~Touches(wider, acts, a, v)
      BY <1>1, <2>1 DEF ActFits, Touches
    <2>4. ASSUME NEW p \in DOMAIN panels, a \in panels[p].offers,
                 NEW v \in DOMAIN wider, Touches(wider, acts, a, v), ~wider[v].polled
          PROVE  Covers(wider, acts, panels, a, p, v)
      <3>1. v \in DOMAIN views /\ wider[v] = views[v]
        BY <1>1, <2>4
      <3>2. Covers(views, acts, panels, a, p, v)
        BY <3>1, <2>1, <2>4 DEF ActFits, Touches
      <3> QED BY <3>1, <3>2 DEF Covers
    <2> QED BY <2>1, <2>2, <2>3, <2>4 DEF ActFits
  <1>3. FlagsFit(wider, acts, panels)
    BY <1>1 DEF WellMade, FlagsFit
  <1>4. WellMade(wider, acts, panels)
    BY <1>2, <1>3 DEF WellMade
  <1> QED BY <1>4 DEF wider

\* Nor does a handler of the page that changes what no other view of it shows.
LEMMA ActAdded ==
  ASSUME NEW views, NEW acts, NEW panels, WellMade(views, acts, panels), NEW name, NEW act0,
         act0.then = <<>>, act0.changes \subseteq Parts, act0.closes = "page", act0.flag = NoFlag,
         \A v \in DOMAIN views : views[v].shows \cap act0.changes = {} \/ (views[v].polled /\ ~views[v].grows)
  PROVE  WellMade(views, With(acts, name, act0), [panels EXCEPT !["page"].offers = @ \cup {name}])
  <1> DEFINE more == With(acts, name, act0)
             offered == [panels EXCEPT !["page"].offers = @ \cup {name}]
  <1>0. /\ DOMAIN more = DOMAIN acts \cup {name} /\ more[name] = act0
        /\ \A a \in DOMAIN acts : a # name => more[a] = acts[a]
    BY DEF With
  <1> HIDE DEF more
  <1>1. \A a \in DOMAIN more : (a = name /\ more[a] = act0) \/ (a \in DOMAIN acts \ {name} /\ more[a] = acts[a])
    BY <1>0
  <1>2. /\ DOMAIN offered = DOMAIN panels
        /\ \A p \in DOMAIN panels : /\ offered[p].opens = panels[p].opens
                                    /\ offered[p].locked = panels[p].locked
                                    /\ offered[p].offers \subseteq panels[p].offers \cup {name}
        /\ DOMAIN offered["page"] = DOMAIN panels["page"]
    BY DEF WellMade, PanelsFit
  <1> HIDE DEF offered
  <1>3. PanelsFit(offered)
    BY <1>2 DEF PanelsFit, WellMade
  <1>4. ASSUME NEW a \in DOMAIN more PROVE ActFits(views, more, offered, a)
    <2>1. CASE a = name
      <3>1. more[a] = act0
        BY <1>1, <2>1
      <3>2. more[a].then \in Seq(SUBSET DOMAIN views)
        BY <3>1, EmptySeq
      <3>3. \A v \in DOMAIN views : Touches(views, more, a, v) => views[v].polled /\ ~views[v].grows
        BY <3>1 DEF Touches
      <3> QED BY <3>1, <3>2, <3>3 DEF ActFits
    <2>2. CASE a # name
      <3>1. a \in DOMAIN acts /\ more[a] = acts[a]
        BY <1>1, <2>2
      <3>2. ActFits(views, acts, panels, a)
        BY <3>1 DEF WellMade
      <3>3. ASSUME NEW p \in DOMAIN offered, a \in offered[p].offers
            PROVE  p \in DOMAIN panels /\ a \in panels[p].offers
        BY <1>2, <3>3, <2>2
      <3>4. ASSUME NEW p \in DOMAIN offered, a \in offered[p].offers,
                   NEW v \in DOMAIN views, Touches(views, more, a, v), ~views[v].polled
            PROVE  Covers(views, more, offered, a, p, v)
        <4>1. Covers(views, acts, panels, a, p, v)
          BY <3>1, <3>2, <3>3, <3>4 DEF ActFits, Touches
        <4> QED BY <4>1, <3>1, <1>2 DEF Covers, Again, Modal, Tight
      <3>5. /\ more[a].then \in Seq(SUBSET DOMAIN views) /\ more[a].changes \subseteq Parts
            /\ \A v \in DOMAIN views : views[v].grows => ~Touches(views, more, a, v)
        BY <3>1, <3>2 DEF ActFits, Touches
      <3>6. ASSUME NEW p \in DOMAIN offered, a \in offered[p].offers, more[a].closes # "page"
            PROVE  /\ p = more[a].closes /\ offered[p].opens = {}
                   /\ offered[p].locked = more[a].flag /\ more[a].flag # NoFlag
        BY <3>1, <3>2, <3>3, <3>6, <1>2 DEF ActFits
      <3> QED BY <3>4, <3>5, <3>6 DEF ActFits
    <2> QED BY <2>1, <2>2
  <1>5. FlagsFit(views, more, offered)
    <2>1. \A v \in DOMAIN views : views[v].raises # NoFlag =>
            /\ views[v].raises \in Lent /\ views[v].panel \in DOMAIN offered
            /\ offered[views[v].panel].locked = views[v].raises
      <3>1. NoFlag \notin Lent
        BY DEF NoFlag, Lent
      <3> QED BY <1>2, <3>1 DEF WellMade, FlagsFit
    <2>2. \A a \in DOMAIN more : more[a].flag # NoFlag => a \in DOMAIN acts /\ more[a] = acts[a]
      BY <1>1
    <2>3. \A a \in DOMAIN acts, b \in DOMAIN acts :
            acts[a].flag = acts[b].flag /\ acts[a].flag # NoFlag => acts[a].falls = acts[b].falls
      BY DEF WellMade, FlagsFit
    <2>4. \A a \in DOMAIN more, b \in DOMAIN more :
            more[a].flag = more[b].flag /\ more[a].flag # NoFlag => more[a].falls = more[b].falls
      BY <2>2, <2>3
    <2> QED BY <2>1, <2>4 DEF FlagsFit
  <1>6. WellMade(views, more, offered)
    BY <1>3, <1>4, <1>5 DEF WellMade
  <1> QED BY <1>6 DEF more, offered

\* A page made well is made well under the bar.
LEMMA NavMade ==
  ASSUME NEW s, Made(s), Quiet(s.views)
  PROVE  Made(UnderNav(s))
  <1> DEFINE views == With(s.views, "bell", Bell)
  <1>1. WellMade(views, s.acts, s.panels)
    BY ViewAdded, BellPlain DEF Made
  <1>2. \A v \in DOMAIN views : views[v].shows \cap toggleBell.changes = {} \/ (views[v].polled /\ ~views[v].grows)
    BY BellPlain DEF Quiet, With
  <1>3. toggleBell.changes \subseteq Parts
    BY BellPlain DEF Parts
  <1> HIDE DEF views
  <1>4. WellMade(views, With(s.acts, "toggleBell", toggleBell), [s.panels EXCEPT !["page"].offers = @ \cup {"toggleBell"}])
    BY <1>1, <1>2, <1>3, BellPlain, ActAdded
  <1> QED BY <1>4, NavFields DEF Made, views

\* A page of the administrators is made well under the bar and the tabs.
LEMMA TabsMade ==
  ASSUME NEW s, Made(s), Quiet(s.views), "requests" # "notices"
  PROVE  Made(UnderTabs(s))
  <1> DEFINE t == [s EXCEPT !.views = With(@, "badge", Badge), !.admin = TRUE]
  <1>1. t.views = With(s.views, "badge", Badge) /\ t.acts = s.acts /\ t.panels = s.panels /\ DOMAIN t = DOMAIN s
    BY DEF Made
  <1> HIDE DEF t
  <1>2. Made(t)
    BY <1>1, ViewAdded, BadgePlain DEF Made
  <1>3. "notices" \notin Badge.shows
    BY DEF Badge, Polled, View
  <1>4. Quiet(t.views)
    BY <1>1, <1>3 DEF Quiet, With
  <1>5. Made(UnderNav(t))
    BY <1>2, <1>4, NavMade
  <1> QED BY <1>5 DEF UnderTabs, t

\* The only panel of the page of a lot.
DetailPanels == [page |-> DetailPage]

\* The dashboard: nothing is asked for again after a charge is asked for, nothing shown changes.
LEMMA DashboardMade == WellMade(DashboardViews, DashboardActs, DashboardPanels) /\ Quiet(DashboardViews)
<1> DEFINE views == DashboardViews
           acts == DashboardActs
           panels == DashboardPanels
<1>1. /\ DOMAIN views = {"balance", "auctions", "dividend", "leave"}
      /\ views.balance.shows = {"wallets"} /\ views.auctions.shows = {"running", "users"}
      /\ views.dividend.shows = {"stakes", "escrow"} /\ views.leave.shows = {"leaves"}
  BY DEF DashboardViews, View, WalletCard, RunningStrip, ForecastCard, LeaveCard, MyCalls,
         MeRoutes, DividendCalls, MyDividendRoutes, GetWalletBalance, GetUserLeave, GetMyDividend,
         listAuctions, AuctionRoutes, ListAuctions, Lots
<1>2. /\ ~views.balance.grows /\ views.balance.panel = "page" /\ ~views.auctions.grows
      /\ views.auctions.panel = "page" /\ ~views.dividend.grows /\ views.dividend.panel = "page"
      /\ ~views.leave.grows /\ views.leave.panel = "page"
      /\ views.balance.raises = "none" /\ views.auctions.raises = "none"
      /\ views.dividend.raises = "none" /\ views.leave.raises = "none"
  BY DEF DashboardViews, View, NoFlag
<1>3. \A v \in DOMAIN views : ~views[v].grows /\ "notices" \notin views[v].shows
  BY <1>1, <1>2
<1>4. /\ DOMAIN panels = {"page", "charge"}
      /\ DOMAIN panels.page = {"offers", "opens", "needs", "locked", "rereads"}
      /\ panels.page.offers = {} /\ panels.page.opens = {"charge"}
      /\ panels.charge.offers = {"submitCharge"} /\ panels.charge.opens = {}
      /\ panels.charge.locked = "charging"
  BY DEF DashboardPanels, DashboardPage, ChargePanel, Panel, Needing, Rereading, Locked
<1>5. /\ DOMAIN acts = {"submitCharge"} /\ acts.submitCharge.changes = {"charges", "ledger"}
      /\ acts.submitCharge.then = <<>> /\ acts.submitCharge.closes = "charge"
      /\ acts.submitCharge.flag = "charging"
  BY DEF DashboardActs, submitCharge, Closing, Act, ChargeCalls, MyChargeRoutes,
         SubmitChargeRequest
<1>flags. acts.submitCharge.falls = {"end"}
  BY DEF DashboardActs, submitCharge, Closing, Act, NoFlag
<1> HIDE DEF views, acts, panels
<1>6. ActFits(views, acts, panels, "submitCharge")
  <2>1. <<>> \in Seq(SUBSET {"balance", "auctions", "dividend", "leave"})
    BY EmptySeq
  <2>2. Again(acts, "submitCharge") = {}
    BY <1>5 DEF Again
  <2>3. \A p \in DOMAIN panels : "submitCharge" \in panels[p].offers =>
          p = "charge" /\ panels[p].opens = {} /\ panels[p].locked = "charging"
    BY <1>4
  <2>4. \A v \in DOMAIN views : Touches(views, acts, "submitCharge", v) /\ ~views[v].polled => v \in {}
    BY <1>1, <1>2, <1>5 DEF Touches
  <2>5. \A p \in {"charge"}, v \in {} : Covers(views, acts, panels, "submitCharge", p, v)
    BY <1>2, <1>5, <2>2, <1>flags DEF Covers, Modal, Tight, Lent, NoFlag
  <2> QED BY <1>1, <1>3, <1>5, <2>1, <2>3, <2>4, <2>5 DEF ActFits, Parts, Lots, NoFlag
<1>7. PanelsFit(panels)
  BY <1>4 DEF PanelsFit
<1>8. FlagsFit(views, acts, panels)
  <2>1. \A v \in DOMAIN views : views[v].raises = "none"
    BY <1>1, <1>2
  <2>2. \A a \in DOMAIN acts : acts[a].falls = {"end"}
    BY <1>5, <1>flags
  <2> QED BY <2>1, <2>2 DEF FlagsFit, NoFlag
<1> QED BY <1>3, <1>5, <1>6, <1>7, <1>8 DEF WellMade, Quiet, views, acts, panels

\* The page of a lot: a bid asks again for the lot and the balance.
LEMMA DetailMade == WellMade(DetailViews, DetailActs, DetailPanels) /\ Quiet(DetailViews)
<1> DEFINE views == DetailViews
           acts == DetailActs
           panels == DetailPanels
<1>1. /\ DOMAIN views = {"auction", "balance"}
      /\ views.auction.shows = {"running", "ended", "waiting", "users"}
      /\ views.balance.shows = {"wallets"}
  BY DEF DetailViews, View, ItemShowcase, BidStatus, BidForm, BidHistory, AuctionCalls,
         AuctionRoutes, GetAuctionDetail, MyCalls, MeRoutes, GetWalletBalance, Lots
<1>2. /\ ~views.auction.grows /\ views.auction.panel = "page" /\ ~views.balance.grows
      /\ views.balance.panel = "page"
      /\ views.auction.raises = "none" /\ views.balance.raises = "none"
  BY DEF DetailViews, View, NoFlag
<1>3. \A v \in DOMAIN views : ~views[v].grows /\ "notices" \notin views[v].shows
  BY <1>1, <1>2
<1>4. /\ DOMAIN panels = {"page"}
      /\ DOMAIN panels.page = {"offers", "opens", "needs", "locked", "rereads"}
      /\ panels.page.offers = {"onSubmitBid"} /\ panels.page.opens = {}
  BY DEF DetailPanels, DetailPage, Panel, Needing, Rereading, Locked
<1>5. /\ DOMAIN acts = {"onSubmitBid"}
      /\ acts.onSubmitBid.changes = {"running", "wallets", "ledger", "escrow"}
      /\ acts.onSubmitBid.then = <<{"auction", "balance"}>> /\ acts.onSubmitBid.closes = "page"
  BY DEF DetailActs, onSubmitBid, Closing, Act, AuctionCalls, AuctionRoutes, PlaceBid
<1>flags. /\ acts.onSubmitBid.flag = "submitting" /\ acts.onSubmitBid.falls = {"end"}
  BY DEF DetailActs, onSubmitBid, Closing, Act, NoFlag
<1> HIDE DEF views, acts, panels
<1>6. ActFits(views, acts, panels, "onSubmitBid")
  <2>1. <<{"auction", "balance"}>> \in Seq(SUBSET {"auction", "balance"})
    OBVIOUS
  <2>2. Again(acts, "onSubmitBid") = {"auction", "balance"}
    BY <1>5 DEF Again
  <2>3. \A p \in DOMAIN panels : "onSubmitBid" \in panels[p].offers =>
          p = "page"
    BY <1>4
  <2>4. \A v \in DOMAIN views : Touches(views, acts, "onSubmitBid", v) /\ ~views[v].polled => v \in {"auction", "balance"}
    BY <1>1, <1>2, <1>5 DEF Touches
  <2>5. \A p \in {"page"}, v \in {"auction", "balance"} : Covers(views, acts, panels, "onSubmitBid", p, v)
    BY <1>2, <1>5, <2>2, <1>flags DEF Covers, Modal, Tight, Lent, NoFlag
  <2> QED BY <1>1, <1>3, <1>5, <2>1, <2>3, <2>4, <2>5 DEF ActFits, Parts, Lots
<1>7. PanelsFit(panels)
  BY <1>4 DEF PanelsFit
<1>8. FlagsFit(views, acts, panels)
  <2>1. \A v \in DOMAIN views : views[v].raises = "none"
    BY <1>1, <1>2
  <2>2. \A a \in DOMAIN acts : acts[a].falls = {"end"}
    BY <1>5, <1>flags
  <2> QED BY <2>1, <2>2 DEF FlagsFit, NoFlag
<1> QED BY <1>3, <1>5, <1>6, <1>7, <1>8 DEF WellMade, Quiet, views, acts, panels

\* The market: an order asks again for the items, the requests and the balance.
LEMMA RedemptionMade == WellMade(RedemptionViews, RedemptionActs, RedemptionPanels) /\ Quiet(RedemptionViews)
<1> DEFINE views == RedemptionViews
           acts == RedemptionActs
           panels == RedemptionPanels
<1>1. /\ DOMAIN views = {"items", "requests", "balance"} /\ views.items.shows = {"items"}
      /\ views.requests.shows = {"requests", "items", "users"} /\ views.balance.shows = {"wallets"}
  BY DEF RedemptionViews, View, Catalogue, RequestStrip, RedemptionCalls, MarketRoutes,
         RequestRoutes, ListRedemptionItems, ListRedemptionRequests, MyCalls, MeRoutes,
         GetWalletBalance
<1>2. /\ ~views.items.grows /\ views.items.panel = "page" /\ ~views.requests.grows
      /\ views.requests.panel = "page" /\ ~views.balance.grows /\ views.balance.panel = "page"
      /\ views.items.raises = "none" /\ views.requests.raises = "none"
      /\ views.balance.raises = "none"
  BY DEF RedemptionViews, View, NoFlag
<1>3. \A v \in DOMAIN views : ~views[v].grows /\ "notices" \notin views[v].shows
  BY <1>1, <1>2
<1>4. /\ DOMAIN panels = {"page", "wish", "history", "confirm"}
      /\ DOMAIN panels.page = {"offers", "opens", "needs", "locked", "rereads"}
      /\ panels.page.offers = {"doConfirmReceived"}
      /\ panels.page.opens = {"confirm", "wish", "history"}
      /\ panels.wish.offers = {"doSubmitWish"} /\ panels.wish.opens = {}
      /\ panels.wish.locked = "wishSubmitting" /\ panels.history.offers = {}
      /\ panels.history.opens = {} /\ panels.confirm.offers = {"doSubmit"}
      /\ panels.confirm.opens = {} /\ panels.confirm.locked = "submitting"
  BY DEF RedemptionPanels, RedemptionPage, WishPanel, HistoryPanel, ConfirmPanel, Panel, Needing,
         Rereading, Locked
<1>5. /\ DOMAIN acts = {"doSubmit", "doSubmitWish", "doConfirmReceived"}
      /\ acts.doSubmit.changes = {"items", "requests", "wallets", "ledger"}
      /\ acts.doSubmit.then = <<{"items", "requests", "balance"}>>
      /\ acts.doSubmit.closes = "confirm" /\ acts.doSubmit.flag = "submitting"
      /\ acts.doSubmitWish.changes = {"requests", "wallets", "ledger"}
      /\ acts.doSubmitWish.then = <<{"requests", "balance"}>> /\ acts.doSubmitWish.closes = "wish"
      /\ acts.doSubmitWish.flag = "wishSubmitting" /\ acts.doConfirmReceived.changes = {"requests"}
      /\ acts.doConfirmReceived.then = <<{"requests"}>> /\ acts.doConfirmReceived.closes = "page"
  BY DEF RedemptionActs, doSubmit, doSubmitWish, doConfirmReceived, Closing, Act, RedemptionCalls,
         RequestRoutes, SubmitRedemptionRequest, SubmitCustomRedemptionRequest,
         ConfirmRedemptionReceived
<1>flags. /\ acts.doConfirmReceived.flag = "none" /\ acts.doSubmit.falls = {"end"}
          /\ acts.doSubmitWish.falls = {"end"} /\ acts.doConfirmReceived.falls = {"end"}
  BY DEF RedemptionActs, doSubmit, doSubmitWish, doConfirmReceived, Closing, Act, NoFlag
<1> HIDE DEF views, acts, panels
<1>6. ActFits(views, acts, panels, "doSubmit")
  <2>1. <<{"items", "requests", "balance"}>> \in Seq(SUBSET {"items", "requests", "balance"})
    OBVIOUS
  <2>2. Again(acts, "doSubmit") = {"items", "requests", "balance"}
    BY <1>5 DEF Again
  <2>3. \A p \in DOMAIN panels : "doSubmit" \in panels[p].offers =>
          p = "confirm" /\ panels[p].opens = {} /\ panels[p].locked = "submitting"
    BY <1>4
  <2>4. \A v \in DOMAIN views : Touches(views, acts, "doSubmit", v) /\ ~views[v].polled => v \in {"items", "requests", "balance"}
    BY <1>1, <1>2, <1>5 DEF Touches
  <2>5. \A p \in {"confirm"}, v \in {"items", "requests", "balance"} : Covers(views, acts, panels, "doSubmit", p, v)
    BY <1>2, <1>5, <2>2, <1>flags DEF Covers, Modal, Tight, Lent, NoFlag
  <2> QED BY <1>1, <1>3, <1>5, <2>1, <2>3, <2>4, <2>5 DEF ActFits, Parts, Lots, NoFlag
<1>7. ActFits(views, acts, panels, "doSubmitWish")
  <2>1. <<{"requests", "balance"}>> \in Seq(SUBSET {"items", "requests", "balance"})
    OBVIOUS
  <2>2. Again(acts, "doSubmitWish") = {"requests", "balance"}
    BY <1>5 DEF Again
  <2>3. \A p \in DOMAIN panels : "doSubmitWish" \in panels[p].offers =>
          p = "wish" /\ panels[p].opens = {} /\ panels[p].locked = "wishSubmitting"
    BY <1>4
  <2>4. \A v \in DOMAIN views : Touches(views, acts, "doSubmitWish", v) /\ ~views[v].polled => v \in {"requests", "balance"}
    BY <1>1, <1>2, <1>5 DEF Touches
  <2>5. \A p \in {"wish"}, v \in {"requests", "balance"} : Covers(views, acts, panels, "doSubmitWish", p, v)
    BY <1>2, <1>5, <2>2, <1>flags DEF Covers, Modal, Tight, Lent, NoFlag
  <2> QED BY <1>1, <1>3, <1>5, <2>1, <2>3, <2>4, <2>5 DEF ActFits, Parts, Lots, NoFlag
<1>8. ActFits(views, acts, panels, "doConfirmReceived")
  <2>1. <<{"requests"}>> \in Seq(SUBSET {"items", "requests", "balance"})
    OBVIOUS
  <2>2. Again(acts, "doConfirmReceived") = {"requests"}
    BY <1>5 DEF Again
  <2>3. \A p \in DOMAIN panels : "doConfirmReceived" \in panels[p].offers =>
          p = "page"
    BY <1>4
  <2>4. \A v \in DOMAIN views : Touches(views, acts, "doConfirmReceived", v) /\ ~views[v].polled => v \in {"requests"}
    BY <1>1, <1>2, <1>5 DEF Touches
  <2>5. \A p \in {"page"}, v \in {"requests"} : Covers(views, acts, panels, "doConfirmReceived", p, v)
    BY <1>2, <1>5, <2>2, <1>flags DEF Covers, Modal, Tight, Lent, NoFlag
  <2> QED BY <1>1, <1>3, <1>5, <2>1, <2>3, <2>4, <2>5 DEF ActFits, Parts, Lots
<1>9. PanelsFit(panels)
  BY <1>4 DEF PanelsFit
<1>10. FlagsFit(views, acts, panels)
  <2>1. \A v \in DOMAIN views : views[v].raises = "none"
    BY <1>1, <1>2
  <2>2. \A a \in DOMAIN acts : acts[a].falls = {"end"}
    BY <1>5, <1>flags
  <2> QED BY <2>1, <2>2 DEF FlagsFit, NoFlag
<1> QED BY <1>3, <1>5, <1>6, <1>7, <1>8, <1>9, <1>10 DEF WellMade, Quiet, views, acts, panels

\* The members and their charge requests, in three dialogs that open one another.
LEMMA AdminMembersMade == WellMade(AdminMembersViews, AdminMembersActs, AdminMembersPanels) /\ Quiet(AdminMembersViews)
<1> DEFINE views == AdminMembersViews
           acts == AdminMembersActs
           panels == AdminMembersPanels
<1>1. /\ DOMAIN views = {"members", "chargeList", "pendingCount"}
      /\ views.members.shows = {"users", "wallets", "leaves"}
      /\ views.chargeList.shows = {"charges", "users"} /\ views.pendingCount.shows = {"charges"}
  BY DEF AdminMembersViews, View, MemberColumns, LeaveBar, ChargeRows, PendingCount, In, Picked,
         Polled, MemberCalls, MemberRoutes, ListMembers, ChargeCalls, ChargeRoutes,
         ListChargeRequests
<1>2. /\ ~views.members.grows /\ views.members.panel = "page" /\ ~views.chargeList.grows
      /\ views.chargeList.panel = "charges" /\ ~views.pendingCount.grows
      /\ views.pendingCount.polled
      /\ views.members.raises = "none" /\ views.chargeList.raises = "none"
      /\ views.pendingCount.raises = "none"
  BY DEF AdminMembersViews, View, In, Picked, Polled, NoFlag
<1>3. \A v \in DOMAIN views : ~views[v].grows /\ "notices" \notin views[v].shows
  BY <1>1, <1>2
<1>4. /\ DOMAIN panels = {"page", "charges", "credit", "form"}
      /\ DOMAIN panels.page = {"offers", "opens", "needs", "locked", "rereads"}
      /\ panels.page.offers = {"doSync", "toggleActive"}
      /\ panels.page.opens = {"charges", "credit", "form"}
      /\ panels.charges.offers = {"doApproveRow", "doRejectRow"}
      /\ panels.charges.opens = {"credit"}
      /\ panels.credit.offers = {"doCredit", "doApproveRequest", "doRejectRequest"}
      /\ panels.credit.opens = {} /\ panels.credit.locked = "crediting"
      /\ panels.form.offers = {"doSave"} /\ panels.form.opens = {} /\ panels.form.locked = "saving"
  BY DEF AdminMembersPanels, AdminMembersPage, ChargeListPanel, CreditPanel, FormPanel, Panel,
         Needing, Rereading, Locked
<1>5. /\ DOMAIN acts = {"doApproveRow", "doRejectRow", "doCredit", "doApproveRequest", "doRejectRequest", "doSync", "doSave", "toggleActive"}
      /\ acts.doApproveRow.changes = {"charges", "wallets", "ledger"}
      /\ acts.doApproveRow.then = <<{"chargeList"}, {"pendingCount"}, {"members"}>>
      /\ acts.doApproveRow.closes = "page" /\ acts.doRejectRow.changes = {"charges", "ledger"}
      /\ acts.doRejectRow.then = <<{"chargeList"}, {"pendingCount"}, {"members"}>>
      /\ acts.doRejectRow.closes = "page" /\ acts.doCredit.changes = {"wallets", "ledger"}
      /\ acts.doCredit.then = <<{"members"}>> /\ acts.doCredit.closes = "credit"
      /\ acts.doCredit.flag = "crediting"
      /\ acts.doApproveRequest.changes = {"charges", "wallets", "ledger"}
      /\ acts.doApproveRequest.then = <<{"members"}, {"chargeList"}, {"pendingCount"}>>
      /\ acts.doApproveRequest.closes = "credit" /\ acts.doApproveRequest.flag = "crediting"
      /\ acts.doRejectRequest.changes = {"charges", "ledger"}
      /\ acts.doRejectRequest.then = <<{"chargeList"}, {"pendingCount"}>>
      /\ acts.doRejectRequest.closes = "credit" /\ acts.doRejectRequest.flag = "crediting"
      /\ acts.doSync.changes = {"users", "leaves"} /\ acts.doSync.then = <<{"members"}>>
      /\ acts.doSync.closes = "page" /\ acts.doSave.changes = {"users"}
      /\ acts.doSave.then = <<{"members"}>> /\ acts.doSave.closes = "form"
      /\ acts.doSave.flag = "saving" /\ acts.toggleActive.changes = {"users"}
      /\ acts.toggleActive.then = <<{"members"}>> /\ acts.toggleActive.closes = "page"
  BY DEF AdminMembersActs, doApproveRow, doRejectRow, doCredit, doApproveRequest, doRejectRequest,
         doSync, doSave, toggleActive, Closing, Act, reloadAfterRowAction, ChargeCalls,
         ChargeRoutes, ApproveChargeRequest, RejectChargeRequest, MemberCalls, MemberRoutes,
         CreditRoutes, CreditWalletAdmin, SyncMembers, ManageMembers
<1>flags. /\ acts.doApproveRow.flag = "none" /\ acts.doRejectRow.flag = "none"
          /\ acts.doSync.flag = "syncing" /\ acts.toggleActive.flag = "none"
          /\ acts.doApproveRow.falls = {"end"} /\ acts.doRejectRow.falls = {"end"}
          /\ acts.doCredit.falls = {"end"} /\ acts.doApproveRequest.falls = {"end"}
          /\ acts.doRejectRequest.falls = {"end"} /\ acts.doSync.falls = {"end"}
          /\ acts.doSave.falls = {"end"} /\ acts.toggleActive.falls = {"end"}
  BY DEF AdminMembersActs, doApproveRow, doRejectRow, doCredit, doApproveRequest, doRejectRequest,
         doSync, doSave, toggleActive, Closing, Act, NoFlag
<1> HIDE DEF views, acts, panels
<1>6. ActFits(views, acts, panels, "doApproveRow")
  <2>1. <<{"chargeList"}, {"pendingCount"}, {"members"}>> \in Seq(SUBSET {"members", "chargeList", "pendingCount"})
    OBVIOUS
  <2>2. Again(acts, "doApproveRow") = {"chargeList", "pendingCount", "members"}
    BY <1>5 DEF Again
  <2>3. \A p \in DOMAIN panels : "doApproveRow" \in panels[p].offers =>
          p = "charges"
    BY <1>4
  <2>4. \A v \in DOMAIN views : Touches(views, acts, "doApproveRow", v) /\ ~views[v].polled => v \in {"members", "chargeList"}
    BY <1>1, <1>2, <1>5 DEF Touches
  <2>5. \A p \in {"charges"}, v \in {"members", "chargeList"} : Covers(views, acts, panels, "doApproveRow", p, v)
    BY <1>2, <1>5, <2>2, <1>flags DEF Covers, Modal, Tight, Lent, NoFlag
  <2> QED BY <1>1, <1>3, <1>5, <2>1, <2>3, <2>4, <2>5 DEF ActFits, Parts, Lots
<1>7. ActFits(views, acts, panels, "doRejectRow")
  <2>1. <<{"chargeList"}, {"pendingCount"}, {"members"}>> \in Seq(SUBSET {"members", "chargeList", "pendingCount"})
    OBVIOUS
  <2>2. Again(acts, "doRejectRow") = {"chargeList", "pendingCount", "members"}
    BY <1>5 DEF Again
  <2>3. \A p \in DOMAIN panels : "doRejectRow" \in panels[p].offers =>
          p = "charges"
    BY <1>4
  <2>4. \A v \in DOMAIN views : Touches(views, acts, "doRejectRow", v) /\ ~views[v].polled => v \in {"chargeList"}
    BY <1>1, <1>2, <1>5 DEF Touches
  <2>5. \A p \in {"charges"}, v \in {"chargeList"} : Covers(views, acts, panels, "doRejectRow", p, v)
    BY <1>2, <1>5, <2>2, <1>flags DEF Covers, Modal, Tight, Lent, NoFlag
  <2> QED BY <1>1, <1>3, <1>5, <2>1, <2>3, <2>4, <2>5 DEF ActFits, Parts, Lots
<1>8. ActFits(views, acts, panels, "doCredit")
  <2>1. <<{"members"}>> \in Seq(SUBSET {"members", "chargeList", "pendingCount"})
    OBVIOUS
  <2>2. Again(acts, "doCredit") = {"members"}
    BY <1>5 DEF Again
  <2>3. \A p \in DOMAIN panels : "doCredit" \in panels[p].offers =>
          p = "credit" /\ panels[p].opens = {} /\ panels[p].locked = "crediting"
    BY <1>4
  <2>4. \A v \in DOMAIN views : Touches(views, acts, "doCredit", v) /\ ~views[v].polled => v \in {"members"}
    BY <1>1, <1>2, <1>5 DEF Touches
  <2>5. \A p \in {"credit"}, v \in {"members"} : Covers(views, acts, panels, "doCredit", p, v)
    BY <1>2, <1>5, <2>2, <1>flags DEF Covers, Modal, Tight, Lent, NoFlag
  <2> QED BY <1>1, <1>3, <1>5, <2>1, <2>3, <2>4, <2>5 DEF ActFits, Parts, Lots, NoFlag
<1>9. ActFits(views, acts, panels, "doApproveRequest")
  <2>1. <<{"members"}, {"chargeList"}, {"pendingCount"}>> \in Seq(SUBSET {"members", "chargeList", "pendingCount"})
    OBVIOUS
  <2>2. Again(acts, "doApproveRequest") = {"members", "chargeList", "pendingCount"}
    BY <1>5 DEF Again
  <2>3. \A p \in DOMAIN panels : "doApproveRequest" \in panels[p].offers =>
          p = "credit" /\ panels[p].opens = {} /\ panels[p].locked = "crediting"
    BY <1>4
  <2>4. \A v \in DOMAIN views : Touches(views, acts, "doApproveRequest", v) /\ ~views[v].polled => v \in {"members", "chargeList"}
    BY <1>1, <1>2, <1>5 DEF Touches
  <2>5. \A p \in {"credit"}, v \in {"members", "chargeList"} : Covers(views, acts, panels, "doApproveRequest", p, v)
    BY <1>2, <1>5, <2>2, <1>flags DEF Covers, Modal, Tight, Lent, NoFlag
  <2> QED BY <1>1, <1>3, <1>5, <2>1, <2>3, <2>4, <2>5 DEF ActFits, Parts, Lots, NoFlag
<1>10. ActFits(views, acts, panels, "doRejectRequest")
  <2>1. <<{"chargeList"}, {"pendingCount"}>> \in Seq(SUBSET {"members", "chargeList", "pendingCount"})
    OBVIOUS
  <2>2. Again(acts, "doRejectRequest") = {"chargeList", "pendingCount"}
    BY <1>5 DEF Again
  <2>3. \A p \in DOMAIN panels : "doRejectRequest" \in panels[p].offers =>
          p = "credit" /\ panels[p].opens = {} /\ panels[p].locked = "crediting"
    BY <1>4
  <2>4. \A v \in DOMAIN views : Touches(views, acts, "doRejectRequest", v) /\ ~views[v].polled => v \in {"chargeList"}
    BY <1>1, <1>2, <1>5 DEF Touches
  <2>5. \A p \in {"credit"}, v \in {"chargeList"} : Covers(views, acts, panels, "doRejectRequest", p, v)
    BY <1>2, <1>5, <2>2, <1>flags DEF Covers, Modal, Tight, Lent, NoFlag
  <2> QED BY <1>1, <1>3, <1>5, <2>1, <2>3, <2>4, <2>5 DEF ActFits, Parts, Lots, NoFlag
<1>11. ActFits(views, acts, panels, "doSync")
  <2>1. <<{"members"}>> \in Seq(SUBSET {"members", "chargeList", "pendingCount"})
    OBVIOUS
  <2>2. Again(acts, "doSync") = {"members"}
    BY <1>5 DEF Again
  <2>3. \A p \in DOMAIN panels : "doSync" \in panels[p].offers =>
          p = "page"
    BY <1>4
  <2>4. \A v \in DOMAIN views : Touches(views, acts, "doSync", v) /\ ~views[v].polled => v \in {"members", "chargeList"}
    BY <1>1, <1>2, <1>5 DEF Touches
  <2>5. \A p \in {"page"}, v \in {"members", "chargeList"} : Covers(views, acts, panels, "doSync", p, v)
    BY <1>2, <1>5, <2>2, <1>flags DEF Covers, Modal, Tight, Lent, NoFlag, Forgotten
  <2> QED BY <1>1, <1>3, <1>5, <2>1, <2>3, <2>4, <2>5 DEF ActFits, Parts, Lots
<1>12. ActFits(views, acts, panels, "doSave")
  <2>1. <<{"members"}>> \in Seq(SUBSET {"members", "chargeList", "pendingCount"})
    OBVIOUS
  <2>2. Again(acts, "doSave") = {"members"}
    BY <1>5 DEF Again
  <2>3. \A p \in DOMAIN panels : "doSave" \in panels[p].offers =>
          p = "form" /\ panels[p].opens = {} /\ panels[p].locked = "saving"
    BY <1>4
  <2>4. \A v \in DOMAIN views : Touches(views, acts, "doSave", v) /\ ~views[v].polled => v \in {"members", "chargeList"}
    BY <1>1, <1>2, <1>5 DEF Touches
  <2>5. \A p \in {"form"}, v \in {"members", "chargeList"} : Covers(views, acts, panels, "doSave", p, v)
    BY <1>2, <1>5, <2>2, <1>4, <1>flags DEF Covers, Modal, Tight, Lent, NoFlag
  <2> QED BY <1>1, <1>3, <1>5, <2>1, <2>3, <2>4, <2>5 DEF ActFits, Parts, Lots, NoFlag
<1>13. ActFits(views, acts, panels, "toggleActive")
  <2>1. <<{"members"}>> \in Seq(SUBSET {"members", "chargeList", "pendingCount"})
    OBVIOUS
  <2>2. Again(acts, "toggleActive") = {"members"}
    BY <1>5 DEF Again
  <2>3. \A p \in DOMAIN panels : "toggleActive" \in panels[p].offers =>
          p = "page"
    BY <1>4
  <2>4. \A v \in DOMAIN views : Touches(views, acts, "toggleActive", v) /\ ~views[v].polled => v \in {"members", "chargeList"}
    BY <1>1, <1>2, <1>5 DEF Touches
  <2>5. \A p \in {"page"}, v \in {"members", "chargeList"} : Covers(views, acts, panels, "toggleActive", p, v)
    BY <1>2, <1>5, <2>2, <1>flags DEF Covers, Modal, Tight, Lent, NoFlag, Forgotten
  <2> QED BY <1>1, <1>3, <1>5, <2>1, <2>3, <2>4, <2>5 DEF ActFits, Parts, Lots
<1>14. PanelsFit(panels)
  BY <1>4 DEF PanelsFit
<1>15. FlagsFit(views, acts, panels)
  <2>1. \A v \in DOMAIN views : views[v].raises = "none"
    BY <1>1, <1>2
  <2>2. \A a \in DOMAIN acts : acts[a].falls = {"end"}
    BY <1>5, <1>flags
  <2> QED BY <2>1, <2>2 DEF FlagsFit, NoFlag
<1> QED BY <1>3, <1>5, <1>6, <1>7, <1>8, <1>9, <1>10, <1>11, <1>12, <1>13, <1>14, <1>15 DEF WellMade, Quiet, views, acts, panels

\* The operations: the dialogs of the settlement and the collection hold a preview each.
LEMMA AdminOpsMade == WellMade(AdminOpsViews, AdminOpsActs, AdminOpsPanels) /\ Quiet(AdminOpsViews)
<1> DEFINE views == AdminOpsViews
           acts == AdminOpsActs
           panels == AdminOpsPanels
<1>1. /\ DOMAIN views = {"stats", "unsold", "people", "divPreview", "poolPreview"}
      /\ views.stats.shows = {"escrow", "waiting", "running", "ended"}
      /\ views.unsold.shows = {"ended"} /\ views.people.shows = {"users"}
      /\ views.divPreview.shows = {"stakes", "escrow", "users"}
      /\ views.poolPreview.shows = {"pool", "leaves", "users"}
  BY DEF AdminOpsViews, View, KpiCards, UnsoldList, MemberPicker, DividendPreview, PoolPreview, In,
         Anew, Raising, Picked, AdminCalls, AdminRoutes, GetAdminStats, listAuctions, AuctionRoutes,
         ListAuctions, MemberCalls, MemberRoutes, ListMembers, DividendCalls, DividendRoutes,
         PoolRoutes, PreviewDividend, PreviewCollection, Lots
<1>2. /\ ~views.stats.grows /\ views.stats.panel = "page" /\ ~views.unsold.grows
      /\ views.unsold.panel = "page" /\ ~views.people.grows /\ views.people.panel = "page"
      /\ ~views.divPreview.grows /\ views.divPreview.panel = "dividend" /\ ~views.poolPreview.grows
      /\ views.poolPreview.panel = "pool"
      /\ views.stats.raises = "none" /\ views.unsold.raises = "none"
      /\ views.people.raises = "none" /\ views.divPreview.raises = "divLoading"
      /\ views.poolPreview.raises = "poolLoading"
  BY DEF AdminOpsViews, View, DividendPreview, PoolPreview, In, Anew, Picked, Raising, NoFlag
<1>3. \A v \in DOMAIN views : ~views[v].grows /\ "notices" \notin views[v].shows
  BY <1>1, <1>2
<1>4. /\ DOMAIN panels = {"page", "unsold", "pool", "dividend"}
      /\ DOMAIN panels.page = {"offers", "opens", "needs", "locked", "rereads"}
      /\ panels.page.offers = {"triggerSettle"}
      /\ panels.page.opens = {"unsold", "pool", "dividend"}
      /\ panels.unsold.offers = {"doGrantUnsold", "doReopenUnsold"} /\ panels.unsold.opens = {}
      /\ panels.unsold.locked = "unsoldGranting" /\ panels.pool.offers = {"runPool"}
      /\ panels.pool.opens = {} /\ panels.pool.locked = "poolLoading"
      /\ panels.dividend.offers = {"runDividend"} /\ panels.dividend.opens = {}
      /\ panels.dividend.locked = "divLoading"
  BY DEF AdminOpsPanels, AdminOpsPage, UnsoldPanel, PoolPanel, DividendPanel, Panel, Needing,
         Rereading, Locked
<1>5. /\ DOMAIN acts = {"doGrantUnsold", "doReopenUnsold", "runPool", "runDividend", "triggerSettle"}
      /\ acts.doGrantUnsold.changes = {"ended", "leaves"}
      /\ acts.doGrantUnsold.then = <<{"stats", "unsold"}>> /\ acts.doGrantUnsold.closes = "unsold"
      /\ acts.doGrantUnsold.flag = "unsoldGranting"
      /\ acts.doReopenUnsold.changes = {"ended", "waiting"}
      /\ acts.doReopenUnsold.then = <<{"stats", "unsold"}>>
      /\ acts.doReopenUnsold.closes = "unsold" /\ acts.doReopenUnsold.flag = "unsoldGranting"
      /\ acts.runPool.changes = {"pool", "stakes"} /\ acts.runPool.then = <<{"stats"}>>
      /\ acts.runPool.closes = "pool" /\ acts.runPool.flag = "poolLoading"
      /\ acts.runDividend.changes = {"wallets", "ledger", "escrow"}
      /\ acts.runDividend.then = <<{"stats"}>> /\ acts.runDividend.closes = "dividend"
      /\ acts.runDividend.flag = "divLoading"
      /\ acts.triggerSettle.changes = {"running", "ended", "leaves", "ledger", "outbox"}
      /\ acts.triggerSettle.then = <<{"stats", "unsold"}>> /\ acts.triggerSettle.closes = "page"
  BY DEF AdminOpsActs, doGrantUnsold, doReopenUnsold, runPool, runDividend, triggerSettle, Closing,
         Act, UnsoldCalls, LeaveRoutes, LotRoutes, GrantEventFromUnsold, ReopenUnsoldAuction,
         DividendCalls, PoolRoutes, DividendRoutes, CollectLeavePool, SettleYearEndDividend,
         LotCalls, SettleAuction
<1>flags. /\ acts.triggerSettle.flag = "running" /\ acts.doGrantUnsold.falls = {"end"}
          /\ acts.doReopenUnsold.falls = {"end"} /\ acts.runPool.falls = {"end"}
          /\ acts.runDividend.falls = {"end"} /\ acts.triggerSettle.falls = {"end"}
  BY DEF AdminOpsActs, doGrantUnsold, doReopenUnsold, runPool, runDividend, triggerSettle, Closing,
         Act, NoFlag
<1> HIDE DEF views, acts, panels
<1>6. ActFits(views, acts, panels, "doGrantUnsold")
  <2>1. <<{"stats", "unsold"}>> \in Seq(SUBSET {"stats", "unsold", "people", "divPreview", "poolPreview"})
    OBVIOUS
  <2>2. Again(acts, "doGrantUnsold") = {"stats", "unsold"}
    BY <1>5 DEF Again
  <2>3. \A p \in DOMAIN panels : "doGrantUnsold" \in panels[p].offers =>
          p = "unsold" /\ panels[p].opens = {} /\ panels[p].locked = "unsoldGranting"
    BY <1>4
  <2>4. \A v \in DOMAIN views : Touches(views, acts, "doGrantUnsold", v) /\ ~views[v].polled => v \in {"stats", "unsold", "poolPreview"}
    BY <1>1, <1>2, <1>5 DEF Touches
  <2>5. \A p \in {"unsold"}, v \in {"stats", "unsold", "poolPreview"} : Covers(views, acts, panels, "doGrantUnsold", p, v)
    BY <1>2, <1>5, <2>2, <1>4, <1>flags DEF Covers, Modal, Tight, Lent, NoFlag
  <2> QED BY <1>1, <1>3, <1>5, <2>1, <2>3, <2>4, <2>5 DEF ActFits, Parts, Lots, NoFlag
<1>7. ActFits(views, acts, panels, "doReopenUnsold")
  <2>1. <<{"stats", "unsold"}>> \in Seq(SUBSET {"stats", "unsold", "people", "divPreview", "poolPreview"})
    OBVIOUS
  <2>2. Again(acts, "doReopenUnsold") = {"stats", "unsold"}
    BY <1>5 DEF Again
  <2>3. \A p \in DOMAIN panels : "doReopenUnsold" \in panels[p].offers =>
          p = "unsold" /\ panels[p].opens = {} /\ panels[p].locked = "unsoldGranting"
    BY <1>4
  <2>4. \A v \in DOMAIN views : Touches(views, acts, "doReopenUnsold", v) /\ ~views[v].polled => v \in {"stats", "unsold"}
    BY <1>1, <1>2, <1>5 DEF Touches
  <2>5. \A p \in {"unsold"}, v \in {"stats", "unsold"} : Covers(views, acts, panels, "doReopenUnsold", p, v)
    BY <1>2, <1>5, <2>2, <1>flags DEF Covers, Modal, Tight, Lent, NoFlag
  <2> QED BY <1>1, <1>3, <1>5, <2>1, <2>3, <2>4, <2>5 DEF ActFits, Parts, Lots, NoFlag
<1>8. ActFits(views, acts, panels, "runPool")
  <2>1. <<{"stats"}>> \in Seq(SUBSET {"stats", "unsold", "people", "divPreview", "poolPreview"})
    OBVIOUS
  <2>2. Again(acts, "runPool") = {"stats"}
    BY <1>5 DEF Again
  <2>3. \A p \in DOMAIN panels : "runPool" \in panels[p].offers =>
          p = "pool" /\ panels[p].opens = {} /\ panels[p].locked = "poolLoading"
    BY <1>4
  <2>4. \A v \in DOMAIN views : Touches(views, acts, "runPool", v) /\ ~views[v].polled => v \in {"divPreview", "poolPreview"}
    BY <1>1, <1>2, <1>5 DEF Touches
  <2>5. \A p \in {"pool"}, v \in {"divPreview", "poolPreview"} : Covers(views, acts, panels, "runPool", p, v)
    BY <1>2, <1>5, <2>2, <1>4, <1>flags DEF Covers, Modal, Tight, Lent, NoFlag, Forgotten
  <2> QED BY <1>1, <1>3, <1>5, <2>1, <2>3, <2>4, <2>5 DEF ActFits, Parts, Lots, NoFlag
<1>9. ActFits(views, acts, panels, "runDividend")
  <2>1. <<{"stats"}>> \in Seq(SUBSET {"stats", "unsold", "people", "divPreview", "poolPreview"})
    OBVIOUS
  <2>2. Again(acts, "runDividend") = {"stats"}
    BY <1>5 DEF Again
  <2>3. \A p \in DOMAIN panels : "runDividend" \in panels[p].offers =>
          p = "dividend" /\ panels[p].opens = {} /\ panels[p].locked = "divLoading"
    BY <1>4
  <2>4. \A v \in DOMAIN views : Touches(views, acts, "runDividend", v) /\ ~views[v].polled => v \in {"stats", "divPreview"}
    BY <1>1, <1>2, <1>5 DEF Touches
  <2>5. \A p \in {"dividend"}, v \in {"stats", "divPreview"} : Covers(views, acts, panels, "runDividend", p, v)
    BY <1>2, <1>5, <2>2, <1>4, <1>flags DEF Covers, Modal, Tight, Lent, NoFlag
  <2> QED BY <1>1, <1>3, <1>5, <2>1, <2>3, <2>4, <2>5 DEF ActFits, Parts, Lots, NoFlag
<1>10. ActFits(views, acts, panels, "triggerSettle")
  <2>1. <<{"stats", "unsold"}>> \in Seq(SUBSET {"stats", "unsold", "people", "divPreview", "poolPreview"})
    OBVIOUS
  <2>2. Again(acts, "triggerSettle") = {"stats", "unsold"}
    BY <1>5 DEF Again
  <2>3. \A p \in DOMAIN panels : "triggerSettle" \in panels[p].offers =>
          p = "page"
    BY <1>4
  <2>4. \A v \in DOMAIN views : Touches(views, acts, "triggerSettle", v) /\ ~views[v].polled => v \in {"stats", "unsold", "poolPreview"}
    BY <1>1, <1>2, <1>5 DEF Touches
  <2>5. \A p \in {"page"}, v \in {"stats", "unsold", "poolPreview"} : Covers(views, acts, panels, "triggerSettle", p, v)
    BY <1>2, <1>5, <2>2, <1>flags DEF Covers, Modal, Tight, Lent, NoFlag, Forgotten
  <2> QED BY <1>1, <1>3, <1>5, <2>1, <2>3, <2>4, <2>5 DEF ActFits, Parts, Lots
<1>11. PanelsFit(panels)
  BY <1>4 DEF PanelsFit
<1>12. FlagsFit(views, acts, panels)
  <2>1. \A v \in DOMAIN views : views[v].raises # "none" => v \in {"divPreview", "poolPreview"}
    BY <1>1, <1>2
  <2>2. \A v \in {"divPreview", "poolPreview"} :
          /\ views[v].raises \in Lent /\ views[v].panel \in DOMAIN panels
          /\ panels[views[v].panel].locked = views[v].raises
    BY <1>2, <1>4 DEF Lent
  <2>3. \A a \in DOMAIN acts : acts[a].falls = {"end"}
    BY <1>5, <1>flags
  <2> QED BY <2>1, <2>2, <2>3 DEF FlagsFit, NoFlag
<1> QED BY <1>3, <1>5, <1>6, <1>7, <1>8, <1>9, <1>10, <1>11, <1>12 DEF WellMade, Quiet, views, acts, panels

\* The lots: the list of ended lots unfolds on the page, and dialogs open over it.
LEMMA AdminAuctionsMade == WellMade(AdminAuctionsViews, AdminAuctionsActs, AdminAuctionsPanels) /\ Quiet(AdminAuctionsViews)
<1> DEFINE views == AdminAuctionsViews
           acts == AdminAuctionsActs
           panels == AdminAuctionsPanels
<1>1. /\ DOMAIN views = {"policy", "summary", "upcoming", "open", "upcomingRelease", "ended"}
      /\ views.policy.shows = {"policy"} /\ views.summary.shows = {"waiting", "running", "ended"}
      /\ views.upcoming.shows = {"waiting"} /\ views.open.shows = {"running", "users"}
      /\ views.upcomingRelease.shows = {"policy", "pool"} /\ views.ended.shows = {"ended", "users"}
  BY DEF AdminAuctionsViews, View, PolicyLine, Counters, WaitingRows, RunningRows, ReleaseBanner,
         EndedRows, In, PolicyCalls, PolicyRoutes, GetReleasePolicy, SupplyCalls, LotRoutes,
         GetAuctionsSummary, listAuctions, AuctionRoutes, ListAuctions, UnsoldCalls, PoolRoutes,
         PreviewNext, Lots
<1>2. /\ ~views.policy.grows /\ views.policy.panel = "page" /\ ~views.summary.grows
      /\ views.summary.panel = "page" /\ ~views.upcoming.grows /\ views.upcoming.panel = "page"
      /\ ~views.open.grows /\ views.open.panel = "page" /\ ~views.upcomingRelease.grows
      /\ views.upcomingRelease.panel = "page" /\ ~views.ended.grows /\ views.ended.panel = "ended"
      /\ views.policy.raises = "none" /\ views.summary.raises = "none"
      /\ views.upcoming.raises = "none" /\ views.open.raises = "none"
      /\ views.upcomingRelease.raises = "none" /\ views.ended.raises = "none"
  BY DEF AdminAuctionsViews, View, In, NoFlag
<1>3. \A v \in DOMAIN views : ~views[v].grows /\ "notices" \notin views[v].shows
  BY <1>1, <1>2
<1>4. /\ DOMAIN panels = {"page", "open", "edit", "policy", "create", "ended"}
      /\ DOMAIN panels.page = {"offers", "opens", "needs", "locked", "rereads"}
      /\ panels.page.offers = {"doCancel"}
      /\ panels.page.opens = {"open", "edit", "policy", "create", "ended"}
      /\ panels.open.offers = {"doExtend", "doCloseNow"} /\ panels.open.opens = {}
      /\ panels.open.locked = "openActing" /\ panels.edit.offers = {"doSchedule", "doOpenNow"}
      /\ panels.edit.opens = {} /\ panels.edit.locked = "acting"
      /\ panels.policy.offers = {"savePolicy"} /\ panels.policy.opens = {}
      /\ panels.policy.locked = "saving" /\ panels.create.offers = {"create"}
      /\ panels.create.opens = {} /\ panels.create.locked = "creating"
      /\ panels.ended.offers = {"doCancel"}
      /\ panels.ended.opens = {"open", "edit", "policy", "create", "ended"}
  BY DEF AdminAuctionsPanels, AdminAuctionsPage, OpenPanel, EditPanel, PolicyPanel, CreatePanel,
         EndedList, Panel, Needing, Rereading, Locked
<1>5. /\ DOMAIN acts = {"doExtend", "doCloseNow", "doCancel", "doSchedule", "doOpenNow", "savePolicy", "create"}
      /\ acts.doExtend.changes = {"running"} /\ acts.doExtend.then = <<{"summary", "open"}>>
      /\ acts.doExtend.closes = "open" /\ acts.doExtend.flag = "openActing"
      /\ acts.doCloseNow.changes = {"running", "ended", "leaves", "ledger", "outbox"}
      /\ acts.doCloseNow.then = <<{"summary", "open"}>> /\ acts.doCloseNow.closes = "open"
      /\ acts.doCloseNow.flag = "openActing" /\ acts.doCancel.changes = {"waiting"}
      /\ acts.doCancel.then = <<{"summary", "upcoming"}>> /\ acts.doCancel.closes = "page"
      /\ acts.doSchedule.changes = {"waiting"}
      /\ acts.doSchedule.then = <<{"summary", "upcoming"}>> /\ acts.doSchedule.closes = "edit"
      /\ acts.doSchedule.flag = "acting" /\ acts.doOpenNow.changes = {"waiting", "running"}
      /\ acts.doOpenNow.then = <<{"summary", "upcoming", "open"}>>
      /\ acts.doOpenNow.closes = "edit" /\ acts.doOpenNow.flag = "acting"
      /\ acts.savePolicy.changes = {"policy"} /\ acts.savePolicy.then = <<{"policy"}>>
      /\ acts.savePolicy.closes = "policy" /\ acts.savePolicy.flag = "saving"
      /\ acts.create.changes = {"waiting"} /\ acts.create.then = <<{"summary", "upcoming"}>>
      /\ acts.create.closes = "create" /\ acts.create.flag = "creating"
  BY DEF AdminAuctionsActs, doExtend, doCloseNow, doCancel, doSchedule, doOpenNow, savePolicy,
         create, Closing, Act, LotCalls, LotRoutes, ExtendAuctionDeadline, SettleAuction,
         SupplyCalls, CancelAuctions, ScheduleAuction, OpenAuction, PolicyCalls, PolicyRoutes,
         UpdateReleasePolicy, CreateAuction, Falling
<1>flags. /\ acts.doCancel.flag = "cancelling" /\ acts.doExtend.falls = {"end"}
          /\ acts.doCloseNow.falls = {"end"} /\ acts.doCancel.falls = {"end"}
          /\ acts.doSchedule.falls = {"end"} /\ acts.doOpenNow.falls = {"end"}
          /\ acts.savePolicy.falls = {"answer"} /\ acts.create.falls = {"answer"}
  BY DEF AdminAuctionsActs, doExtend, doCloseNow, doCancel, doSchedule, doOpenNow, savePolicy,
         create, Closing, Act, Falling, NoFlag
<1> HIDE DEF views, acts, panels
<1>6. ActFits(views, acts, panels, "doExtend")
  <2>1. <<{"summary", "open"}>> \in Seq(SUBSET {"policy", "summary", "upcoming", "open", "upcomingRelease", "ended"})
    OBVIOUS
  <2>2. Again(acts, "doExtend") = {"summary", "open"}
    BY <1>5 DEF Again
  <2>3. \A p \in DOMAIN panels : "doExtend" \in panels[p].offers =>
          p = "open" /\ panels[p].opens = {} /\ panels[p].locked = "openActing"
    BY <1>4
  <2>4. \A v \in DOMAIN views : Touches(views, acts, "doExtend", v) /\ ~views[v].polled => v \in {"summary", "open"}
    BY <1>1, <1>2, <1>5 DEF Touches
  <2>5. \A p \in {"open"}, v \in {"summary", "open"} : Covers(views, acts, panels, "doExtend", p, v)
    BY <1>2, <1>5, <2>2, <1>flags DEF Covers, Modal, Tight, Lent, NoFlag
  <2>6. /\ acts.doExtend.then = <<{"summary", "open"}>> /\ acts.doExtend.changes \subseteq Parts
        /\ acts.doExtend.closes = "open" /\ acts.doExtend.flag = "openActing"
    BY <1>5 DEF Parts, Lots
  <2> QED BY <1>1, <1>3, <2>1, <2>3, <2>4, <2>5, <2>6 DEF ActFits, NoFlag
<1>7. ActFits(views, acts, panels, "doCloseNow")
  <2>1. <<{"summary", "open"}>> \in Seq(SUBSET {"policy", "summary", "upcoming", "open", "upcomingRelease", "ended"})
    OBVIOUS
  <2>2. Again(acts, "doCloseNow") = {"summary", "open"}
    BY <1>5 DEF Again
  <2>3. \A p \in DOMAIN panels : "doCloseNow" \in panels[p].offers =>
          p = "open" /\ panels[p].opens = {} /\ panels[p].locked = "openActing"
    BY <1>4
  <2>4. \A v \in DOMAIN views : Touches(views, acts, "doCloseNow", v) /\ ~views[v].polled => v \in {"summary", "open", "ended"}
    BY <1>1, <1>2, <1>5 DEF Touches
  <2>5. \A p \in {"open"}, v \in {"summary", "open", "ended"} : Covers(views, acts, panels, "doCloseNow", p, v)
    BY <1>2, <1>5, <2>2, <1>flags DEF Covers, Modal, Tight, Lent, NoFlag, Forgotten
  <2>6. /\ acts.doCloseNow.then = <<{"summary", "open"}>> /\ acts.doCloseNow.changes \subseteq Parts
        /\ acts.doCloseNow.closes = "open" /\ acts.doCloseNow.flag = "openActing"
    BY <1>5 DEF Parts, Lots
  <2> QED BY <1>1, <1>3, <2>1, <2>3, <2>4, <2>5, <2>6 DEF ActFits, NoFlag
<1>8. ActFits(views, acts, panels, "doCancel")
  <2>1. <<{"summary", "upcoming"}>> \in Seq(SUBSET {"policy", "summary", "upcoming", "open", "upcomingRelease", "ended"})
    OBVIOUS
  <2>2. Again(acts, "doCancel") = {"summary", "upcoming"}
    BY <1>5 DEF Again
  <2>3. \A p \in DOMAIN panels : "doCancel" \in panels[p].offers =>
          (p = "page" \/ p = "ended")
    BY <1>4
  <2>4. \A v \in DOMAIN views : Touches(views, acts, "doCancel", v) /\ ~views[v].polled => v \in {"summary", "upcoming"}
    BY <1>1, <1>2, <1>5 DEF Touches
  <2>5. \A p \in {"page", "ended"}, v \in {"summary", "upcoming"} : Covers(views, acts, panels, "doCancel", p, v)
    BY <1>2, <1>5, <2>2, <1>flags DEF Covers, Modal, Tight, Lent, NoFlag
  <2>6. /\ acts.doCancel.then = <<{"summary", "upcoming"}>> /\ acts.doCancel.changes \subseteq Parts
        /\ acts.doCancel.closes = "page"
    BY <1>5 DEF Parts, Lots
  <2> QED BY <1>1, <1>3, <2>1, <2>3, <2>4, <2>5, <2>6 DEF ActFits, NoFlag
<1>9. ActFits(views, acts, panels, "doSchedule")
  <2>1. <<{"summary", "upcoming"}>> \in Seq(SUBSET {"policy", "summary", "upcoming", "open", "upcomingRelease", "ended"})
    OBVIOUS
  <2>2. Again(acts, "doSchedule") = {"summary", "upcoming"}
    BY <1>5 DEF Again
  <2>3. \A p \in DOMAIN panels : "doSchedule" \in panels[p].offers =>
          p = "edit" /\ panels[p].opens = {} /\ panels[p].locked = "acting"
    BY <1>4
  <2>4. \A v \in DOMAIN views : Touches(views, acts, "doSchedule", v) /\ ~views[v].polled => v \in {"summary", "upcoming"}
    BY <1>1, <1>2, <1>5 DEF Touches
  <2>5. \A p \in {"edit"}, v \in {"summary", "upcoming"} : Covers(views, acts, panels, "doSchedule", p, v)
    BY <1>2, <1>5, <2>2, <1>flags DEF Covers, Modal, Tight, Lent, NoFlag
  <2>6. /\ acts.doSchedule.then = <<{"summary", "upcoming"}>> /\ acts.doSchedule.changes \subseteq Parts
        /\ acts.doSchedule.closes = "edit" /\ acts.doSchedule.flag = "acting"
    BY <1>5 DEF Parts, Lots
  <2> QED BY <1>1, <1>3, <2>1, <2>3, <2>4, <2>5, <2>6 DEF ActFits, NoFlag
<1>10. ActFits(views, acts, panels, "doOpenNow")
  <2>1. <<{"summary", "upcoming", "open"}>> \in Seq(SUBSET {"policy", "summary", "upcoming", "open", "upcomingRelease", "ended"})
    OBVIOUS
  <2>2. Again(acts, "doOpenNow") = {"summary", "upcoming", "open"}
    BY <1>5 DEF Again
  <2>3. \A p \in DOMAIN panels : "doOpenNow" \in panels[p].offers =>
          p = "edit" /\ panels[p].opens = {} /\ panels[p].locked = "acting"
    BY <1>4
  <2>4. \A v \in DOMAIN views : Touches(views, acts, "doOpenNow", v) /\ ~views[v].polled => v \in {"summary", "upcoming", "open"}
    BY <1>1, <1>2, <1>5 DEF Touches
  <2>5. \A p \in {"edit"}, v \in {"summary", "upcoming", "open"} : Covers(views, acts, panels, "doOpenNow", p, v)
    BY <1>2, <1>5, <2>2, <1>flags DEF Covers, Modal, Tight, Lent, NoFlag
  <2>6. /\ acts.doOpenNow.then = <<{"summary", "upcoming", "open"}>> /\ acts.doOpenNow.changes \subseteq Parts
        /\ acts.doOpenNow.closes = "edit" /\ acts.doOpenNow.flag = "acting"
    BY <1>5 DEF Parts, Lots
  <2> QED BY <1>1, <1>3, <2>1, <2>3, <2>4, <2>5, <2>6 DEF ActFits, NoFlag
<1>11. ActFits(views, acts, panels, "savePolicy")
  <2>1. <<{"policy"}>> \in Seq(SUBSET {"policy", "summary", "upcoming", "open", "upcomingRelease", "ended"})
    OBVIOUS
  <2>2. Again(acts, "savePolicy") = {"policy"}
    BY <1>5 DEF Again
  <2>3. \A p \in DOMAIN panels : "savePolicy" \in panels[p].offers =>
          p = "policy" /\ panels[p].opens = {} /\ panels[p].locked = "saving"
    BY <1>4
  <2>4. \A v \in DOMAIN views : Touches(views, acts, "savePolicy", v) /\ ~views[v].polled => v \in {"policy", "upcomingRelease"}
    BY <1>1, <1>2, <1>5 DEF Touches
  <2>5. \A p \in {"policy"}, v \in {"policy", "upcomingRelease"} : Covers(views, acts, panels, "savePolicy", p, v)
    BY <1>2, <1>5, <2>2, <1>flags DEF Covers, Modal, Tight, Lent, NoFlag, Forgotten
  <2>6. /\ acts.savePolicy.then = <<{"policy"}>> /\ acts.savePolicy.changes \subseteq Parts
        /\ acts.savePolicy.closes = "policy" /\ acts.savePolicy.flag = "saving"
    BY <1>5 DEF Parts, Lots
  <2> QED BY <1>1, <1>3, <2>1, <2>3, <2>4, <2>5, <2>6 DEF ActFits, NoFlag
<1>12. ActFits(views, acts, panels, "create")
  <2>1. <<{"summary", "upcoming"}>> \in Seq(SUBSET {"policy", "summary", "upcoming", "open", "upcomingRelease", "ended"})
    OBVIOUS
  <2>2. Again(acts, "create") = {"summary", "upcoming"}
    BY <1>5 DEF Again
  <2>3. \A p \in DOMAIN panels : "create" \in panels[p].offers =>
          p = "create" /\ panels[p].opens = {} /\ panels[p].locked = "creating"
    BY <1>4
  <2>4. \A v \in DOMAIN views : Touches(views, acts, "create", v) /\ ~views[v].polled => v \in {"summary", "upcoming"}
    BY <1>1, <1>2, <1>5 DEF Touches
  <2>5. \A p \in {"create"}, v \in {"summary", "upcoming"} : Covers(views, acts, panels, "create", p, v)
    BY <1>2, <1>5, <2>2, <1>flags DEF Covers, Modal, Tight, Lent, NoFlag
  <2>6. /\ acts.create.then = <<{"summary", "upcoming"}>> /\ acts.create.changes \subseteq Parts
        /\ acts.create.closes = "create" /\ acts.create.flag = "creating"
    BY <1>5 DEF Parts, Lots
  <2> QED BY <1>1, <1>3, <2>1, <2>3, <2>4, <2>5, <2>6 DEF ActFits, NoFlag
<1>13. PanelsFit(panels)
  BY <1>4 DEF PanelsFit
<1>14. FlagsFit(views, acts, panels)
  <2>1. \A v \in DOMAIN views : views[v].raises = "none"
    BY <1>1, <1>2
  <2> DEFINE brief == {"savePolicy", "create"}
             when(a) == IF a \in brief THEN {"answer"} ELSE {"end"}
  <2>2. \A a \in DOMAIN acts : acts[a].falls = when(a)
    BY <1>5, <1>flags
  <2>3. \A a \in DOMAIN acts : acts[a].flag \in {"saving", "creating"} <=> a \in brief
    BY <1>5, <1>flags
  <2> HIDE DEF brief
  <2>4. \A a \in DOMAIN acts, b \in DOMAIN acts : acts[a].flag = acts[b].flag => (a \in brief <=> b \in brief)
    BY <2>3
  <2>5. ASSUME NEW a \in DOMAIN acts, NEW b \in DOMAIN acts, acts[a].flag = acts[b].flag
        PROVE  acts[a].falls = acts[b].falls
    <3>1. when(a) = when(b)
      BY <2>4, <2>5
    <3> HIDE DEF when
    <3> QED BY <2>2, <3>1
  <2> QED BY <2>1, <2>5 DEF FlagsFit, NoFlag
<1> QED BY <1>3, <1>5, <1>6, <1>7, <1>8, <1>9, <1>10, <1>11, <1>12, <1>13, <1>14 DEF WellMade, Quiet, views, acts, panels

\* The catalogue: the dialog of an item's history may be open while an item is switched.
LEMMA AdminStoreMade == WellMade(AdminStoreViews, AdminStoreActs, AdminStorePanels) /\ Quiet(AdminStoreViews)
<1> DEFINE views == AdminStoreViews
           acts == AdminStoreActs
           panels == AdminStorePanels
<1>1. /\ DOMAIN views = {"items", "audits"} /\ views.items.shows = {"items"}
      /\ views.audits.shows = {"audits"}
  BY DEF AdminStoreViews, View, ItemGrid, AuditRows, In, StoreCalls, ItemRoutes,
         AdminListRedemptionItems, ListRedemptionItemAudits
<1>2. /\ ~views.items.grows /\ views.items.panel = "page" /\ ~views.audits.grows
      /\ views.audits.panel = "audit"
      /\ views.items.raises = "none" /\ views.audits.raises = "none"
  BY DEF AdminStoreViews, View, In, NoFlag
<1>3. \A v \in DOMAIN views : ~views[v].grows /\ "notices" \notin views[v].shows
  BY <1>1, <1>2
<1>4. /\ DOMAIN panels = {"page", "form", "audit"}
      /\ DOMAIN panels.page = {"offers", "opens", "needs", "locked", "rereads"}
      /\ panels.page.offers = {"toggleItem"} /\ panels.page.opens = {"form", "audit"}
      /\ panels.form.offers = {"doSaveItem"} /\ panels.form.opens = {}
      /\ panels.form.locked = "saving" /\ panels.audit.offers = {} /\ panels.audit.opens = {}
  BY DEF AdminStorePanels, AdminStorePage, ItemFormPanel, AuditPanel, Panel, Needing, Rereading,
         Locked
<1>5. /\ DOMAIN acts = {"doSaveItem", "toggleItem"}
      /\ acts.doSaveItem.changes = {"items", "audits"} /\ acts.doSaveItem.then = <<{"items"}>>
      /\ acts.doSaveItem.closes = "form" /\ acts.doSaveItem.flag = "saving"
      /\ acts.toggleItem.changes = {"items", "audits"} /\ acts.toggleItem.then = <<{"items"}>>
      /\ acts.toggleItem.closes = "page"
  BY DEF AdminStoreActs, doSaveItem, toggleItem, Closing, Act, StoreCalls, ItemRoutes, ChangeItem
<1>flags. /\ acts.toggleItem.flag = "none" /\ acts.doSaveItem.falls = {"end"}
          /\ acts.toggleItem.falls = {"end"}
  BY DEF AdminStoreActs, doSaveItem, toggleItem, Closing, Act, NoFlag
<1> HIDE DEF views, acts, panels
<1>6. ActFits(views, acts, panels, "doSaveItem")
  <2>1. <<{"items"}>> \in Seq(SUBSET {"items", "audits"})
    OBVIOUS
  <2>2. Again(acts, "doSaveItem") = {"items"}
    BY <1>5 DEF Again
  <2>3. \A p \in DOMAIN panels : "doSaveItem" \in panels[p].offers =>
          p = "form" /\ panels[p].opens = {} /\ panels[p].locked = "saving"
    BY <1>4
  <2>4. \A v \in DOMAIN views : Touches(views, acts, "doSaveItem", v) /\ ~views[v].polled => v \in {"items", "audits"}
    BY <1>1, <1>2, <1>5 DEF Touches
  <2>5. \A p \in {"form"}, v \in {"items", "audits"} : Covers(views, acts, panels, "doSaveItem", p, v)
    BY <1>2, <1>5, <2>2, <1>4, <1>flags DEF Covers, Modal, Tight, Lent, NoFlag
  <2> QED BY <1>1, <1>3, <1>5, <2>1, <2>3, <2>4, <2>5 DEF ActFits, Parts, Lots, NoFlag
<1>7. ActFits(views, acts, panels, "toggleItem")
  <2>1. <<{"items"}>> \in Seq(SUBSET {"items", "audits"})
    OBVIOUS
  <2>2. Again(acts, "toggleItem") = {"items"}
    BY <1>5 DEF Again
  <2>3. \A p \in DOMAIN panels : "toggleItem" \in panels[p].offers =>
          p = "page"
    BY <1>4
  <2>4. \A v \in DOMAIN views : Touches(views, acts, "toggleItem", v) /\ ~views[v].polled => v \in {"items", "audits"}
    BY <1>1, <1>2, <1>5 DEF Touches
  <2>5. \A p \in {"page"}, v \in {"items", "audits"} : Covers(views, acts, panels, "toggleItem", p, v)
    BY <1>2, <1>5, <2>2, <1>flags DEF Covers, Modal, Tight, Lent, NoFlag, Forgotten
  <2> QED BY <1>1, <1>3, <1>5, <2>1, <2>3, <2>4, <2>5 DEF ActFits, Parts, Lots
<1>8. PanelsFit(panels)
  BY <1>4 DEF PanelsFit
<1>9. FlagsFit(views, acts, panels)
  <2>1. \A v \in DOMAIN views : views[v].raises = "none"
    BY <1>1, <1>2
  <2>2. \A a \in DOMAIN acts : acts[a].falls = {"end"}
    BY <1>5, <1>flags
  <2> QED BY <2>1, <2>2 DEF FlagsFit, NoFlag
<1> QED BY <1>3, <1>5, <1>6, <1>7, <1>8, <1>9 DEF WellMade, Quiet, views, acts, panels

\* The requests for items: a decision asks again for the requests and their counts.
LEMMA AdminRedemptionMade == WellMade(AdminRedemptionViews, AdminRedemptionActs, AdminRedemptionPanels) /\ Quiet(AdminRedemptionViews)
<1> DEFINE views == AdminRedemptionViews
           acts == AdminRedemptionActs
           panels == AdminRedemptionPanels
<1>1. /\ DOMAIN views = {"requests", "summary"} /\ views.requests.shows = {"requests", "users"}
      /\ views.summary.shows = {"requests"}
  BY DEF AdminRedemptionViews, View, RequestGrid, StatusCards, Picked, RedemptionCalls, DeskRoutes,
         ListRedemptionRequests, GetRedemptionSummary
<1>2. /\ ~views.requests.grows /\ views.requests.panel = "page" /\ ~views.summary.grows
      /\ views.summary.panel = "page"
      /\ views.requests.raises = "none" /\ views.summary.raises = "none"
  BY DEF AdminRedemptionViews, View, Picked, NoFlag
<1>3. \A v \in DOMAIN views : ~views[v].grows /\ "notices" \notin views[v].shows
  BY <1>1, <1>2
<1>4. /\ DOMAIN panels = {"page", "decision"}
      /\ DOMAIN panels.page = {"offers", "opens", "needs", "locked", "rereads"}
      /\ panels.page.offers = {} /\ panels.page.opens = {"decision"}
      /\ panels.decision.offers = {"decide"} /\ panels.decision.opens = {}
      /\ panels.decision.locked = "acting"
  BY DEF AdminRedemptionPanels, AdminRedemptionPage, DecisionPanel, Panel, Needing, Rereading,
         Locked
<1>5. /\ DOMAIN acts = {"decide"}
      /\ acts.decide.changes = {"requests", "items", "wallets", "ledger"}
      /\ acts.decide.then = <<{"requests", "summary"}>> /\ acts.decide.closes = "decision"
      /\ acts.decide.flag = "acting"
  BY DEF AdminRedemptionActs, decide, Closing, Act, DecisionCalls, DeskRoutes,
         ApproveRedemptionRequest, RejectRedemptionRequest, Falling
<1>flags. acts.decide.falls = {"answer", "end"}
  BY DEF AdminRedemptionActs, decide, Closing, Act, Falling, NoFlag
<1> HIDE DEF views, acts, panels
<1>6. ActFits(views, acts, panels, "decide")
  <2>1. <<{"requests", "summary"}>> \in Seq(SUBSET {"requests", "summary"})
    OBVIOUS
  <2>2. Again(acts, "decide") = {"requests", "summary"}
    BY <1>5 DEF Again
  <2>3. \A p \in DOMAIN panels : "decide" \in panels[p].offers =>
          p = "decision" /\ panels[p].opens = {} /\ panels[p].locked = "acting"
    BY <1>4
  <2>4. \A v \in DOMAIN views : Touches(views, acts, "decide", v) /\ ~views[v].polled => v \in {"requests", "summary"}
    BY <1>1, <1>2, <1>5 DEF Touches
  <2>5. \A p \in {"decision"}, v \in {"requests", "summary"} : Covers(views, acts, panels, "decide", p, v)
    BY <1>2, <1>5, <2>2, <1>flags DEF Covers, Modal, Tight, Lent, NoFlag
  <2> QED BY <1>1, <1>3, <1>5, <2>1, <2>3, <2>4, <2>5 DEF ActFits, Parts, Lots, NoFlag
<1>7. PanelsFit(panels)
  BY <1>4 DEF PanelsFit
<1>8. FlagsFit(views, acts, panels)
  <2>1. \A v \in DOMAIN views : views[v].raises = "none"
    BY <1>1, <1>2
  <2> QED BY <1>5, <2>1 DEF FlagsFit, NoFlag
<1> QED BY <1>3, <1>5, <1>6, <1>7, <1>8 DEF WellMade, Quiet, views, acts, panels

\* A page without handlers is made well whatever it shows.
LEMMA BareMade ==
  ASSUME NEW views, \A v \in DOMAIN views : views[v].raises = NoFlag
  PROVE  WellMade(views, <<>>, [page |-> Panel({}, {})])
<1>1. DOMAIN <<>> = {}
  OBVIOUS
<1> QED BY <1>1 DEF WellMade, PanelsFit, FlagsFit, Panel

\* The pages of a member that only show something.
LEMMA PlainMade ==
  ASSUME NEW views, NEW acts, NEW panels, WellMade(views, acts, panels), Quiet(views)
  PROVE  /\ Made(UnderNav(Screen(views, acts, panels)))
         /\ Made(UnderTabs(Screen(views, acts, panels)))
<1>1. Screen(views, acts, panels).views = views
  BY DEF Screen
<1> QED BY <1>1, ScreenMade, NavMade, TabsMade

\* The three lists of lots.
LEMMA ListMade == ASSUME NEW cards, "notices" \notin cards PROVE Made(AuctionList(cards))
<1>1. Quiet([lots |-> Picked(View(cards))])
  BY DEF Quiet, Picked, View
<1>2. Picked(View(cards)).raises = NoFlag
  BY DEF Picked, View
<1> QED BY <1>1, <1>2, BareMade, PlainMade DEF AuctionList

\* Every page is made well: after each of its calls, all that the call changed and that is still
\* on the screen is asked for again, but for what Forgotten names.
LEMMA ScreensMade == \A pg \in DOMAIN Screens : Made(Screens[pg])
<1>1. Made(Dashboard) /\ Made(Redemption)
  BY DashboardMade, RedemptionMade, PlainMade DEF Dashboard, Redemption
<1>2. Made(AdminMembers) /\ Made(AdminOps) /\ Made(AdminAuctions) /\ Made(AdminStore) /\ Made(AdminRedemption)
  BY AdminMembersMade, AdminOpsMade, AdminAuctionsMade, AdminStoreMade, AdminRedemptionMade, PlainMade
  DEF AdminMembers, AdminOps, AdminAuctions, AdminStore, AdminRedemption
<1>3. Made(AuctionDetail)
  <2> DEFINE s == UnderNav(Screen(DetailViews, DetailActs, [page |-> DetailPage]))
  <2>1. Made(s)
    BY DetailMade, PlainMade DEF DetailPanels
  <2>2. /\ AuctionDetail.views = s.views /\ AuctionDetail.acts = s.acts /\ AuctionDetail.panels = s.panels
        /\ DOMAIN AuctionDetail = DOMAIN s
    <3> HIDE DEF s
    <3>1. AuctionDetail = [s EXCEPT !.stream = DetailStream, !.blank = {"auction"}]
      BY DEF AuctionDetail, s
    <3> QED BY <2>1, <3>1 DEF Made
  <2> QED BY <2>1, <2>2 DEF Made
<1>4. "notices" \notin listAuctions(Lots)
  BY DEF listAuctions, AuctionRoutes, ListAuctions, Lots
<1>5. \A cards \in {GridList \cup AuctionCard, RowList, TimelineBars} : Made(AuctionList(cards))
  BY <1>4, ListMade DEF GridList, AuctionCard, RowList, TimelineBars
<1>6. Made(MyActivity)
  <2>1. Quiet(MyActivityViews)
    <3>1. /\ "notices" \notin HistoryTable /\ "notices" \notin SummaryCards
          /\ "notices" \notin RightColumn /\ "notices" \notin LeaveSegments
      BY DEF HistoryTable, SummaryCards, RightColumn, LeaveSegments, MyCalls, MeRoutes,
             ListMyActivity, GetWalletBalance, GetUserLeave, listAuctions, AuctionRoutes, ListAuctions, Lots
    <3>2. /\ DOMAIN MyActivityViews = {"activity", "balance", "open", "leave"}
          /\ MyActivityViews.activity.shows = HistoryTable \cup SummaryCards
          /\ MyActivityViews.balance.shows = RightColumn \cap {"wallets"}
          /\ MyActivityViews.open.shows = RightColumn \ {"wallets"}
          /\ MyActivityViews.leave.shows = LeaveSegments
      BY DEF MyActivityViews, View
    <3> QED BY <3>1, <3>2 DEF Quiet
  <2>2. \A v \in DOMAIN MyActivityViews : MyActivityViews[v].raises = NoFlag
    BY DEF MyActivityViews, View
  <2> QED BY <2>1, <2>2, BareMade, PlainMade DEF MyActivity
<1>7. Made(Dividend)
  <2>1. Quiet([dividend |-> View(DividendBody \cup EscrowChart)])
    BY DEF Quiet, View, DividendBody, EscrowChart, DividendCalls, MyDividendRoutes, GetMyDividend
  <2>2. View(DividendBody \cup EscrowChart).raises = NoFlag
    BY DEF View
  <2> QED BY <2>1, <2>2, BareMade, PlainMade DEF Dividend
<1>8. Made(AdminLedger)
  <2>1. Quiet([entries |-> Grown(Picked(View(LedgerRows)))])
    <3>1. "notices" \notin LedgerRows
      BY DEF LedgerRows, AdminCalls, AdminRoutes, ListLedger
    <3>2. Grown(Picked(View(LedgerRows))).shows = LedgerRows
      BY DEF View, Grown, Picked
    <3> QED BY <3>1, <3>2 DEF Quiet
  <2>2. Grown(Picked(View(LedgerRows))).raises = NoFlag
    BY DEF View, Grown, Picked
  <2> QED BY <2>1, <2>2, BareMade, PlainMade DEF AdminLedger
<1> QED BY <1>1, <1>2, <1>3, <1>5, <1>6, <1>7, <1>8 DEF Screens

-----------------------------------------------------------------------------
(* Types, and a page that has just been shown.                             *)
\* The paths of the router, and all that any of them shows.
Paths == DOMAIN Screens \cup {"login"}
AllViews == UNION {Views(pg) : pg \in Paths}
Panels == ScreenOf(page).panels
Acts == ScreenOf(page).acts

\* What a view, a request and a handler may be.
ViewState == [has : BOOLEAN, of : 1..2, lacks : SUBSET Own, late : BOOLEAN, failed : BOOLEAN, loading : BOOLEAN]
Asked == [of : 1..2, by : Nat, read : BOOLEAN, lacks : SUBSET Own, late : BOOLEAN, more : BOOLEAN]
Steps == {"called", "answered", "reading", "refused", "done"}
Handler == [act : Own \cup {"none"}, step : Steps, here : BOOLEAN, changes : SUBSET Parts,
            rest : Seq(SUBSET AllViews), sees : SUBSET AllViews, filter : 1..2]

\* The session and the page, as the guards leave them.
Router == /\ session \in {"out", "member", "admin"} /\ page \in Paths
          /\ session = "out" => page = "login"
          /\ ScreenOf(page).admin => session = "admin"

\* What the page shows.
Viewed == /\ filter \in 1..2 /\ signalled \in BOOLEAN
          /\ open \in Seq(DOMAIN Panels)
          /\ shown \in [Views(page) -> ViewState]
          /\ wire \in [Views(page) -> Seq(Asked)]
          /\ \A v \in Views(page) : Len(wire[v]) <= MaxAsked

\* The handlers.
Handled == /\ handlers \in Seq(Handler)
           /\ \A h \in DOMAIN handlers : handlers[h].here => handlers[h].act \in DOMAIN Acts

\* The tab, every variable of it: TypeOK and what it takes to keep it.
Typed == Router /\ Viewed /\ Handled

\* A function on an initial segment is a sequence.
LEMMA SeqOf == ASSUME NEW S, NEW n \in Nat, NEW f \in [1..n -> S] PROVE f \in Seq(S) /\ Len(f) = n
  OBVIOUS

\* What is shown for a path, the login page among them, is made well.
LEMMA Path ==
  ASSUME NEW pg \in Paths
  PROVE  /\ Made(ScreenOf(pg)) /\ Views(pg) \subseteq AllViews
         /\ DOMAIN ScreenOf(pg).acts \subseteq Own
<1>1. Made(NoPage)
  <2>1. NoPage.views = <<>> /\ NoPage.acts = <<>> /\ NoPage.panels = [page |-> Panel({}, {})]
        /\ DOMAIN NoPage = DOMAIN Screen(<<>>, <<>>, [page |-> Panel({}, {})])
    BY DEF NoPage, Screen
  <2> QED BY <2>1, BareMade, ScreenMade DEF Made
<1>2. NoPage.acts = <<>> /\ DOMAIN <<>> = {}
  BY DEF NoPage, Screen
<1>3. Made(ScreenOf(pg))
  BY <1>1, ScreensMade DEF ScreenOf, Paths
<1>4. DOMAIN ScreenOf(pg).acts \subseteq Own
  BY <1>2 DEF ScreenOf, Paths, Own
<1> QED BY <1>3, <1>4 DEF AllViews

\* The two doors of the router, the login page and the dashboard, are open to a member.
LEMMA Doors == /\ "dashboard" \in Paths /\ "login" \in Paths /\ Pages \subseteq Paths
               /\ ~ScreenOf("dashboard").admin /\ ~ScreenOf("login").admin
<1>1. ~NoPage.admin
  BY DEF NoPage, Screen
<1>2. ~Dashboard.admin
  BY DEF Dashboard, UnderNav, Screen
<1>3. "dashboard" \in DOMAIN Screens /\ Screens["dashboard"] = Dashboard
  BY DEF Screens
<1> QED BY <1>1, <1>2, <1>3, BoundsAssumption DEF ScreenOf, Paths

\* The guards of the router send nobody to a page that is not theirs (RequireAuth, RequireAdmin).
LEMMA GuardedRight ==
  ASSUME NEW who \in {"out", "member", "admin"}, NEW pg \in Paths
  PROVE  /\ Guarded(who, pg) \in Paths
         /\ who = "out" => Guarded(who, pg) = "login"
         /\ ScreenOf(Guarded(who, pg)).admin => who = "admin"
BY Doors DEF Guarded

\* A view before its first answer, and a handler that has ended.
LEMMA Blanks ==
  /\ \A b \in BOOLEAN : [Empty EXCEPT !.loading = b] \in ViewState /\ [Empty EXCEPT !.has = b] \in ViewState
  /\ Empty \in ViewState /\ Done \in Handler
<1>1. Empty \in ViewState
  BY DEF Empty, ViewState
<1>2. \A b \in BOOLEAN : [Empty EXCEPT !.loading = b] \in ViewState /\ [Empty EXCEPT !.has = b] \in ViewState
  BY <1>1 DEF ViewState
<1>3. <<>> \in Seq(SUBSET AllViews)
  BY EmptySeq
<1>4. Done \in Handler
  BY <1>3 DEF Done, Handler, Steps
<1> QED BY <1>1, <1>2, <1>4

\* A request is one.
LEMMA Requested == ASSUME NEW f \in 1..2, NEW h \in Nat PROVE Request(f, h) \in Asked
BY DEF Request, Asked

\* A tab at rest is typed.
LEMMA InitTyped == Init => Typed
<1> SUFFICES ASSUME Init PROVE Typed
  OBVIOUS
<1>1. Router
  BY GuardedRight, Doors DEF Init, Router
<1>2. Viewed
  <2>1. shown \in [Views(page) -> ViewState]
    <3> DEFINE here(v) == v \in Mounted(page)
    <3>1. \A v : here(v) \in BOOLEAN
      OBVIOUS
    <3>2. shown = [v \in Views(page) |-> [Empty EXCEPT !.has = here(v)]]
      BY DEF Init
    <3> HIDE DEF here
    <3> QED BY <3>1, <3>2, Blanks
  <2>2. wire \in [Views(page) -> Seq(Asked)] /\ \A v \in Views(page) : Len(wire[v]) = 0
    BY EmptySeq DEF Init
  <2>3. \A v \in Views(page) : Len(wire[v]) <= MaxAsked
    BY <2>2, BoundsAssumption
  <2>4. filter = 1 /\ open = <<>>
    BY DEF Init
  <2>5. signalled \in BOOLEAN
    BY DEF Init
  <2> QED BY <2>1, <2>2, <2>3, <2>4, <2>5, EmptySeq DEF Viewed
<1>3. Handled
  BY EmptySeq DEF Init, Handled
<1> QED BY <1>1, <1>2, <1>3 DEF Typed

\* The handlers of a page that was left are no longer here.
LEMMA LeftTyped == ASSUME Handled PROVE Left \in Seq(Handler) /\ \A h \in DOMAIN Left : ~Left[h].here
<1>1. Len(handlers) \in Nat /\ DOMAIN handlers = 1..Len(handlers)
  BY LenProperties DEF Handled
<1>2. ASSUME NEW h \in DOMAIN handlers 
      PROVE /\ [Done EXCEPT !.step = "called", !.changes = handlers[h].changes] \in Handler
            /\ ~[Done EXCEPT !.step = "called", !.changes = handlers[h].changes].here
  <2>1. handlers[h] \in Handler
    BY <1>1, ElementOfSeq DEF Handled
  <2>2. Done \in Handler /\ ~Done.here
    BY Blanks DEF Done
  <2> QED BY <2>1, <2>2 DEF Handler, Steps
<1>3. ~Done.here
  BY DEF Done
<1>4. Left \in [1..Len(handlers) -> Handler]
  BY <1>1, <1>2, Blanks DEF Left
<1> QED BY <1>1, <1>2, <1>3, <1>4, SeqOf DEF Left

\* A page that has just been shown is typed, whichever was shown before.
LEMMA ShowsTyped ==
  ASSUME NEW pg \in Paths, Handled, Shows(pg)
  PROVE  Viewed' /\ Handled' /\ page' = pg
<1>1. open' \in Seq(DOMAIN Panels')
  BY EmptySeq DEF Shows
<1>2. shown' \in [Views(pg) -> ViewState]
  <2> DEFINE here(v) == v \in Mounted(pg)
  <2>1. \A v : here(v) \in BOOLEAN
    OBVIOUS
  <2>2. shown' = [v \in Views(pg) |-> [Empty EXCEPT !.loading = here(v)]]
    BY DEF Shows
  <2> HIDE DEF here
  <2> QED BY <2>1, <2>2, Blanks
<1>3. /\ wire' \in [Views(pg) -> Seq(Asked)] /\ \A v \in Views(pg) : Len(wire'[v]) <= 1
  <2>1. Request(1, 0) \in Asked
    BY DEF Request, Asked
  <2>2. <<Request(1, 0)>> \in Seq(Asked) /\ Len(<<Request(1, 0)>>) = 1 /\ <<>> \in Seq(Asked) /\ Len(<<>>) = 0
    BY <2>1, EmptySeq
  <2> QED BY <2>2 DEF Shows, Mounted
<1>4. Handled'
  BY LeftTyped DEF Shows, Handled
<1>5. MaxAsked \in Nat /\ MaxAsked > 0
  BY BoundsAssumption
<1>6. \A v \in Views(pg) : Len(wire'[v]) <= MaxAsked
  BY <1>3, <1>5, LenProperties
<1>7. page' = pg /\ filter' = 1
  BY DEF Shows
<1>8. signalled' \in BOOLEAN
  BY DEF Shows
<1> QED BY <1>1, <1>2, <1>3, <1>4, <1>6, <1>7, <1>8 DEF Viewed

-----------------------------------------------------------------------------
(* Asking.                                                                 *)
\* One more request.
LEMMA Appended ==
  ASSUME NEW w \in Seq(Asked), NEW r \in Asked
  PROVE  /\ Append(w, r) \in Seq(Asked) /\ Append(w, r) # <<>>
         /\ Len(Append(w, r)) = Len(w) + 1 /\ Append(w, r)[Len(w) + 1] = r
BY AppendProperties

\* Asking for views adds at most one request to each, where there is room.
LEMMA AskedTyped ==
  ASSUME Viewed, NEW vs, NEW rs, \A v \in vs : rs[v] \in Asked /\ Len(wire[v]) < MaxAsked
  PROVE  /\ AskedAs(vs, rs) \in [Views(page) -> Seq(Asked)]
         /\ \A v \in Views(page) : Len(AskedAs(vs, rs)[v]) <= MaxAsked
<1> DEFINE w == AskedAs(vs, rs)
<1>1. /\ DOMAIN w = Views(page)
      /\ w = [v \in Views(page) |-> IF v \in vs THEN Append(wire[v], rs[v]) ELSE wire[v]]
  BY DEF Viewed, AskedAs
<1>2. ASSUME NEW v \in Views(page) PROVE w[v] \in Seq(Asked) /\ Len(w[v]) <= MaxAsked
  <2>1. wire[v] \in Seq(Asked) /\ Len(wire[v]) <= MaxAsked
    BY DEF Viewed
  <2>2. CASE v \in vs
    <3>1. rs[v] \in Asked /\ Len(wire[v]) < MaxAsked
      BY <2>2
    <3>2. Append(wire[v], rs[v]) \in Seq(Asked) /\ Len(Append(wire[v], rs[v])) = Len(wire[v]) + 1
      BY <2>1, <3>1, Appended
    <3>3. Len(wire[v]) \in Nat /\ MaxAsked \in Nat
      BY <2>1, LenProperties, BoundsAssumption
    <3> QED BY <1>1, <2>2, <3>1, <3>2, <3>3
  <2>3. CASE v \notin vs
    BY <1>1, <2>1, <2>3
  <2> QED BY <2>2, <2>3
<1> HIDE DEF w
<1>3. w \in [Views(page) -> Seq(Asked)]
  BY <1>1, <1>2
<1> QED BY <1>2, <1>3 DEF w

\* A view that waits, and one whose request failed.
LEMMA Waiting ==
  ASSUME NEW s \in ViewState
  PROVE  /\ [s EXCEPT !.loading = TRUE, !.failed = FALSE] \in ViewState
         /\ [s EXCEPT !.loading = FALSE, !.failed = TRUE] \in ViewState
         /\ [s EXCEPT !.loading = TRUE] \in ViewState
BY DEF ViewState

\* A view that lacks other writes.
LEMMA Lacking ==
  ASSUME NEW s \in ViewState, NEW L \in SUBSET Own
  PROVE  [s EXCEPT !.lacks = L] \in ViewState
BY DEF ViewState

\* Views asked for wait.
LEMMA LoadingTyped ==
  ASSUME Viewed, NEW vs
  PROVE  Loading(vs) \in [Views(page) -> ViewState]
<1>1. DOMAIN shown = Views(page) /\ \A v \in Views(page) : shown[v] \in ViewState
  BY DEF Viewed
<1> DEFINE waiting(v) == [shown[v] EXCEPT !.loading = TRUE, !.failed = FALSE]
<1>2. \A v \in Views(page) : waiting(v) \in ViewState
  BY <1>1, Waiting
<1>3. Loading(vs) = [v \in DOMAIN shown |-> IF v \in vs THEN waiting(v) ELSE shown[v]]
  BY DEF Loading
<1> HIDE DEF waiting
<1> QED BY <1>1, <1>2, <1>3

\* Asking changes only what is on its way and what waits for it.
LEMMA AsksTyped ==
  ASSUME Viewed, NEW vs, \A v \in vs : Len(wire[v]) < MaxAsked,
         Asks(vs), page' = page, open' = open, filter' = filter, signalled' \in BOOLEAN
  PROVE  Viewed'
<1> DEFINE rs == [v \in vs |-> Request(filter, 0)]
<1>1. \A v \in vs : rs[v] \in Asked
  BY Requested, 0 \in Nat DEF Viewed
<1>2. wire' = AskedAs(vs, rs) /\ shown' = Loading(vs)
  BY DEF Asks
<1> HIDE DEF rs
<1>3. wire' \in [Views(page) -> Seq(Asked)] /\ \A v \in Views(page) : Len(wire'[v]) <= MaxAsked
  BY <1>1, <1>2, AskedTyped
<1>4. shown' \in [Views(page) -> ViewState]
  BY <1>2, LoadingTyped
<1>5. filter' \in 1..2 /\ open' \in Seq(DOMAIN Panels')
  BY DEF Viewed, Panels
<1> QED BY <1>3, <1>4, <1>5 DEF Viewed

\* Room for views is room for each.
LEMMA Roomy == ASSUME NEW vs, Room(vs) PROVE \A v \in vs : Len(wire[v]) < MaxAsked
BY DEF Room

-----------------------------------------------------------------------------
(* Choosing from what is on its way.                                       *)
\* A set of numbers has a smallest.
LEMMA Smallest == ASSUME NEW T \in SUBSET Nat, T # {} PROVE \E m \in T : \A k \in T : m <= k
<1>1. PICK m \in T : \A k \in T : ~ (<<k, m>> \in OpToRel(<, Nat))
  BY NatLessThanWellFounded, WFMin
<1>2. ASSUME NEW k \in T, k < m PROVE FALSE
  <2>1. <<k, m>> \in Nat \X Nat
    OBVIOUS
  <2>2. <<k, m>> \in OpToRel(<, Nat)
    BY <1>2, <2>1 DEF OpToRel
  <2> QED BY <1>1, <2>2
<1> QED BY <1>2

\* The function that chooses from a sequence, up to the n-th.
IsChosen(s, T, n, f) ==
  f = [m \in 0..n |-> IF m = 0 THEN <<>> ELSE IF s[m] \in T THEN Append(f[m - 1], s[m]) ELSE f[m - 1]]

\* One step of choosing from a sequence.
LEMMA ChosenAt ==
  ASSUME NEW s, NEW T, NEW l, NEW f, IsChosen(s, T, l, f), NEW m \in 0..l
  PROVE  f[m] = IF m = 0 THEN <<>> ELSE IF s[m] \in T THEN Append(f[m - 1], s[m]) ELSE f[m - 1]
BY DEF IsChosen

\* What is chosen is the last value of the function that chooses.
LEMMA ChosenUnfold ==
  ASSUME NEW s, NEW T PROVE Chosen(s, T) = (CHOOSE f : IsChosen(s, T, Len(s), f))[Len(s)]
BY DEF Chosen, IsChosen

\* There is such a function, by the least number without one.
LEMMA ChosenExists ==
  ASSUME NEW s, NEW T, NEW l \in Nat PROVE \E f : IsChosen(s, T, l, f)
<1> DEFINE Missing == {n \in Nat : ~ \E f : IsChosen(s, T, n, f)}
<1>1. ASSUME Missing # {} PROVE FALSE
  <2>1. \E n \in Missing : \A k \in Missing : n <= k
    <3>1. Missing \in SUBSET Nat
      OBVIOUS
    <3> HIDE DEF Missing
    <3> QED BY <1>1, <3>1, Smallest
  <2>2. PICK n \in Missing : \A k \in Missing : n <= k
    BY <2>1
  <2>3. n # 0
    <3>1. IsChosen(s, T, 0, [m \in 0..0 |-> <<>>])
      BY DEF IsChosen
    <3> QED BY <3>1
  <2>4. n - 1 \in Nat /\ n - 1 \notin Missing /\ n \in Nat
    BY <2>2, <2>3
  <2>5. PICK g : IsChosen(s, T, n - 1, g)
    BY <2>4
  <2> DEFINE f == [m \in 0..n |-> IF m < n THEN g[m] ELSE IF s[m] \in T THEN Append(g[m - 1], s[m]) ELSE g[m - 1]]
  <2>6. \A m \in 0..n : f[m] = IF m = 0 THEN <<>> ELSE IF s[m] \in T THEN Append(f[m - 1], s[m]) ELSE f[m - 1]
    <3>1. \A m \in 0..(n - 1) : g[m] = IF m = 0 THEN <<>> ELSE IF s[m] \in T THEN Append(g[m - 1], s[m]) ELSE g[m - 1]
      BY <2>5 DEF IsChosen
    <3> QED BY <2>3, <2>4, <3>1
  <2>7. IsChosen(s, T, n, f)
    <3>1. f = [m \in 0..n |-> f[m]]
      OBVIOUS
    <3> HIDE DEF f
    <3> QED BY <2>6, <3>1 DEF IsChosen
  <2> QED BY <2>2, <2>7
<1> QED BY <1>1

\* What is chosen from a sequence is a sequence of the same things.
LEMMA ChosenTyped ==
  ASSUME NEW S, NEW s \in Seq(S), NEW T PROVE Chosen(s, T) \in Seq(S)
<1> DEFINE f == CHOOSE g : IsChosen(s, T, Len(s), g)
           Bad == {n \in 0..Len(s) : f[n] \notin Seq(S)}
<1>0. Len(s) \in Nat /\ \A n \in 1..Len(s) : s[n] \in S
  BY LenProperties
<1>1. IsChosen(s, T, Len(s), f)
  <2>1. \E g : IsChosen(s, T, Len(s), g)
    BY <1>0, ChosenExists
  <2> QED BY <2>1
<1> HIDE DEF f
<1>2. /\ f[0] = <<>>
      /\ \A n \in 1..Len(s) : f[n] = IF s[n] \in T THEN Append(f[n - 1], s[n]) ELSE f[n - 1]
  <2>1. \A m \in 0..Len(s) : f[m] = IF m = 0 THEN <<>> ELSE IF s[m] \in T THEN Append(f[m - 1], s[m]) ELSE f[m - 1]
    BY <1>1, ChosenAt
  <2> QED BY <1>0, <2>1
<1>3. ASSUME Bad # {} PROVE FALSE
  <2>1. \E n \in Bad : \A k \in Bad : n <= k
    <3>1. Bad \in SUBSET Nat
      BY <1>0
    <3> HIDE DEF Bad
    <3> QED BY <1>3, <3>1, Smallest
  <2>2. PICK n \in Bad : \A k \in Bad : n <= k
    BY <2>1
  <2>3. n # 0
    BY <1>2, EmptySeq
  <2>4. n - 1 \in 0..Len(s) /\ n \in 1..Len(s) /\ n - 1 \notin Bad
    BY <1>0, <2>2, <2>3
  <2>5. f[n - 1] \in Seq(S) /\ s[n] \in S
    BY <1>0, <2>4
  <2>6. Append(f[n - 1], s[n]) \in Seq(S)
    BY <2>5, AppendProperties
  <2> QED BY <1>2, <2>2, <2>4, <2>5, <2>6
<1>4. f[Len(s)] \in Seq(S)
  BY <1>0, <1>3
<1> QED BY <1>4, ChosenUnfold DEF f

-----------------------------------------------------------------------------
(* The router and the dialogs.                                             *)
\* The tab stays on its page.
Same == page' = page /\ session' = session

\* As long as the page stays, so do its tables.
LEMMA RouterSame == ASSUME Typed, Same PROVE Router' /\ Panels' = Panels /\ Views(page') = Views(page) /\ Acts' = Acts
BY DEF Typed, Router, Same, Panels, Acts

\* As long as the page and the handlers stay, they are typed.
LEMMA HandledSame == ASSUME Typed, Same, UNCHANGED handlers PROVE Handled'
BY RouterSame DEF Typed, Handled

\* Each handler is one, and acts on the page shown if it is here.
LEMMA HandlerAt == ASSUME Handled, NEW h \in DOMAIN handlers 
  PROVE /\ handlers[h] \in Handler /\ h \in 1..Len(handlers) /\ Len(handlers) \in Nat /\ DOMAIN handlers = 1..Len(handlers)
        /\ handlers[h].here => handlers[h].act \in DOMAIN Acts
<1>1. Len(handlers) \in Nat /\ DOMAIN handlers = 1..Len(handlers)
  BY LenProperties DEF Handled
<1>2. handlers[h] \in Handler
  BY <1>1, ElementOfSeq DEF Handled
<1>3. handlers[h].here => handlers[h].act \in DOMAIN Acts
  BY DEF Handled
<1> QED BY <1>1, <1>2, <1>3

\* One handler changes.
LEMMA HandlerChanged ==
  ASSUME Typed, Same, NEW h \in DOMAIN handlers, NEW x \in Handler, x.here => x.act \in DOMAIN Acts,
         handlers' = [handlers EXCEPT ![h] = x]
  PROVE  Handled' /\ DOMAIN handlers' = DOMAIN handlers /\ handlers'[h] = x /\ \A k \in DOMAIN handlers : k # h => handlers'[k] = handlers[k]
<1>1. handlers \in Seq(Handler) /\ h \in 1..Len(handlers) /\ DOMAIN handlers = 1..Len(handlers)
  BY HandlerAt DEF Typed, Handled
<1>2. /\ handlers' \in Seq(Handler) /\ DOMAIN handlers' = DOMAIN handlers
      /\ handlers'[h] = x /\ \A k \in DOMAIN handlers : k # h => handlers'[k] = handlers[k]
  BY <1>1, ExceptSeq
<1>3. \A k \in DOMAIN handlers' : handlers'[k].here => handlers'[k].act \in DOMAIN Acts'
  BY <1>2, RouterSame DEF Typed, Handled
<1> QED BY <1>2, <1>3 DEF Handled

\* As long as the page and what it shows stay, they are typed.
LEMMA ViewedSame == 
  ASSUME Typed, Same, UNCHANGED <<open, filter, shown, wire, signalled>> PROVE Viewed'
BY RouterSame DEF Typed, Viewed

\* Showing a page its visitor may see.
LEMMA GoesTyped ==
  ASSUME Typed, NEW pg \in Paths, Shows(pg), session' \in {"out", "member", "admin"},
         session' = "out" => pg = "login", ScreenOf(pg).admin => session' = "admin"
  PROVE  Typed'
BY ShowsTyped DEF Typed, Router

\* Visit, through the guards.
LEMMA VisitTyped == ASSUME Typed, NEW pg \in Pages \cup {"login"}, Visit(pg) PROVE Typed'
<1>1. /\ session \in {"out", "member", "admin"} /\ pg \in Paths /\ Shows(Guarded(session, pg))
      /\ session' = session
  BY Doors DEF Visit, Typed, Router
<1> QED BY <1>1, GuardedRight, GoesTyped

\* doLogin.
LEMMA doLoginTyped == ASSUME Typed, doLogin PROVE Typed'
BY Doors, GoesTyped DEF doLogin

\* logout, onUnauthorized.
LEMMA OutTyped == ASSUME Typed, session' = "out", Shows("login") PROVE Typed'
BY Doors, GoesTyped

\* OpenDialog.
LEMMA OpenDialogTyped == ASSUME Typed, NEW p \in DOMAIN Panels, OpenDialog(p) PROVE Typed'
<1> DEFINE asked == {v \in DOMAIN shown : view(v).panel = p}
           new == {v \in asked : view(v).resets}
           rs == [v \in asked |-> Request(filter, 0)]
           was(v) == IF v \in new THEN Empty ELSE shown[v]
           waiting(v) == [was(v) EXCEPT !.loading = TRUE, !.failed = FALSE]
<1>0. Same /\ UNCHANGED <<filter, handlers, signalled>> /\ open' = Append(open, p) /\ Room(asked)
  BY DEF OpenDialog, Same
<1>1. wire' = AskedAs(asked, rs) /\ shown' = [v \in DOMAIN shown |-> IF v \in asked THEN waiting(v) ELSE shown[v]]
  BY DEF OpenDialog
<1>2. asked \subseteq Views(page) /\ DOMAIN shown = Views(page) /\ \A v \in Views(page) : shown[v] \in ViewState
  BY DEF Typed, Viewed
<1>3. \A v \in Views(page) : waiting(v) \in ViewState
  <2>1. \A v \in Views(page) : was(v) \in ViewState
    BY <1>2, Blanks
  <2> HIDE DEF was
  <2> QED BY <2>1, Waiting
<1>4. \A v \in asked : rs[v] \in Asked
  BY Requested, 0 \in Nat DEF Typed, Viewed
<1> HIDE DEF asked, rs, waiting
<1>5. wire' \in [Views(page) -> Seq(Asked)] /\ \A v \in Views(page) : Len(wire'[v]) <= MaxAsked
  BY <1>0, <1>1, <1>2, <1>4, AskedTyped, Roomy DEF Typed
<1>6. shown' \in [Views(page) -> ViewState]
  BY <1>1, <1>2, <1>3
<1>7. open' \in Seq(DOMAIN Panels)
  BY <1>0, AppendProperties DEF Typed, Viewed
<1>8. filter' \in 1..2 /\ signalled' \in BOOLEAN
  BY <1>0 DEF Typed, Viewed
<1>9. Viewed'
  BY <1>0, <1>5, <1>6, <1>7, <1>8, RouterSame DEF Viewed
<1> QED BY <1>0, <1>9, RouterSame, HandledSame DEF Typed

\* Closing a dialog takes it out of those open, the others keep their order.
LEMMA ClosedAt ==
  ASSUME NEW S, open \in Seq(S), NEW p
  PROVE  /\ Closed(p) \in Seq(S)
         /\ p \notin Range(open) => Closed(p) = open
         /\ p \in Range(open) => \E i \in 1..Len(open) :
              /\ open[i] = p /\ Len(Closed(p)) = Len(open) - 1
              /\ \A j \in 1..(Len(open) - 1) : Closed(p)[j] = IF j < i THEN open[j] ELSE open[j + 1]
<1>0. Len(open) \in Nat /\ DOMAIN open = 1..Len(open) /\ \A j \in 1..Len(open) : open[j] \in S
  BY LenProperties
<1>1. CASE p \notin Range(open)
  BY <1>1 DEF Closed
<1>2. CASE p \in Range(open)
  <2> DEFINE i == CHOOSE j \in DOMAIN open : open[j] = p
             f == [j \in 1..(Len(open) - 1) |-> IF j < i THEN open[j] ELSE open[j + 1]]
  <2>1. i \in DOMAIN open /\ open[i] = p
    BY <1>2 DEF Range
  <2>2. Closed(p) = f
    BY <1>2 DEF Closed
  <2> HIDE DEF i
  <2>3. Len(open) - 1 \in Nat /\ f \in [1..(Len(open) - 1) -> S]
    BY <1>0, <2>1
  <2>4. \A j \in 1..(Len(open) - 1) : f[j] = IF j < i THEN open[j] ELSE open[j + 1]
    OBVIOUS
  <2> HIDE DEF f
  <2>5. f \in Seq(S) /\ Len(f) = Len(open) - 1
    BY <2>3, SeqOf
  <2> QED BY <1>0, <1>2, <2>1, <2>2, <2>4, <2>5
<1> QED BY <1>1, <1>2

\* CloseDialog.
LEMMA CloseDialogTyped == ASSUME Typed, CloseDialog PROVE Typed'
<1>1. Same /\ UNCHANGED <<filter, shown, wire, handlers, signalled>> /\ open' = Closed(top)
  BY DEF CloseDialog, Same
<1>2. open' \in Seq(DOMAIN Panels)
  BY <1>1, ClosedAt DEF Typed, Viewed
<1>3. Viewed'
  BY <1>1, <1>2, RouterSame DEF Typed, Viewed
<1> QED BY <1>1, <1>3, RouterSame, HandledSame DEF Typed

\* Every step that only asks.
LEMMA AskingTyped ==
  ASSUME Typed, NEW vs, \A v \in vs : Len(wire[v]) < MaxAsked,
         Asks(vs), UNCHANGED <<tab, handlers>>, signalled' \in BOOLEAN
  PROVE  Typed'
<1>1. Same /\ open' = open /\ filter' = filter /\ UNCHANGED handlers
  BY DEF tab, Same
<1>2. Viewed'
  BY <1>1, AsksTyped DEF Typed, Same
<1> QED BY <1>1, <1>2, RouterSame, HandledSame DEF Typed

-----------------------------------------------------------------------------
(* The user, the timers and a write.                                       *)
\* Pick.
LEMMA PickTyped == ASSUME Typed, Pick PROVE Typed'
<1> DEFINE picked == {v \in DOMAIN shown : view(v).picked /\ OnScreen(v)}
           kept(v) == IF view(v).grows THEN Chosen(wire[v], {r \in Range(wire[v]) : r.more}) ELSE wire[v]
<1>0. Same /\ UNCHANGED <<open, handlers, signalled>> /\ filter' = 3 - filter /\ shown' = Loading(picked)
  BY DEF Pick, Same
<1>1. /\ wire' = [v \in DOMAIN wire |-> IF v \in picked THEN Append(kept(v), Request(filter', 0)) ELSE wire[v]]
      /\ \A v \in picked : Len(kept(v)) < MaxAsked
  BY DEF Pick
<1>2. filter' \in 1..2
  BY <1>0 DEF Typed, Viewed
<1>3. DOMAIN wire = Views(page) /\ \A v \in Views(page) : wire[v] \in Seq(Asked) /\ Len(wire[v]) <= MaxAsked
  BY DEF Typed, Viewed
<1>4. Request(filter', 0) \in Asked
  BY <1>2, Requested, 0 \in Nat
<1>5. \A v \in Views(page) : kept(v) \in Seq(Asked)
  BY <1>3, ChosenTyped
<1> HIDE DEF picked, kept
<1>6. ASSUME NEW v \in Views(page) PROVE wire'[v] \in Seq(Asked) /\ Len(wire'[v]) <= MaxAsked
  <2>1. CASE v \in picked
    <3>1. /\ Append(kept(v), Request(filter', 0)) \in Seq(Asked)
          /\ Len(Append(kept(v), Request(filter', 0))) = Len(kept(v)) + 1
      BY <1>4, <1>5, Appended
    <3>2. Len(kept(v)) \in Nat /\ Len(kept(v)) < MaxAsked /\ MaxAsked \in Nat
      BY <1>1, <1>5, <2>1, LenProperties, BoundsAssumption
    <3> QED BY <1>1, <1>3, <2>1, <3>1, <3>2
  <2>2. CASE v \notin picked
    BY <1>1, <1>3, <2>2
  <2> QED BY <2>1, <2>2
<1>7. wire' \in [Views(page) -> Seq(Asked)]
  BY <1>1, <1>3, <1>6
<1>8. shown' \in [Views(page) -> ViewState]
  BY <1>0, LoadingTyped DEF Typed
<1>9. open' \in Seq(DOMAIN Panels) /\ signalled' \in BOOLEAN
  BY <1>0 DEF Typed, Viewed
<1>10. Viewed'
  BY <1>0, <1>2, <1>6, <1>7, <1>8, <1>9, RouterSame DEF Viewed
<1> QED BY <1>0, <1>10, RouterSame, HandledSame DEF Typed

\* loadMore.
LEMMA loadMoreTyped == ASSUME Typed, loadMore PROVE Typed'
<1>0. Same /\ UNCHANGED <<open, filter, handlers, signalled>>
  BY DEF loadMore, Same, tab
<1>1. PICK v \in DOMAIN shown :
        /\ Room({v})
        /\ wire' = AskedAs({v}, [u \in {v} |-> [Request(filter, 0) EXCEPT !.more = TRUE]])
        /\ shown' = [shown EXCEPT ![v].loading = TRUE]
  BY DEF loadMore
<1>2. DOMAIN shown = Views(page) /\ v \in Views(page) /\ shown[v] \in ViewState /\ Len(wire[v]) < MaxAsked
  BY <1>1, Roomy DEF Typed, Viewed
<1>3. [Request(filter, 0) EXCEPT !.more = TRUE] \in Asked
  <2>1. Request(filter, 0) \in Asked
    BY Requested, 0 \in Nat DEF Typed, Viewed
  <2> QED BY <2>1 DEF Asked
<1> DEFINE rs == [u \in {v} |-> [Request(filter, 0) EXCEPT !.more = TRUE]]
<1>4. \A u \in {v} : rs[u] \in Asked /\ Len(wire[u]) < MaxAsked
  BY <1>2, <1>3
<1>5. wire' = AskedAs({v}, rs)
  BY <1>1
<1> HIDE DEF rs
<1>6. wire' \in [Views(page) -> Seq(Asked)] /\ \A u \in Views(page) : Len(wire'[u]) <= MaxAsked
  BY <1>2, <1>4, <1>5, AskedTyped DEF Typed
<1>7. shown' \in [Views(page) -> ViewState]
  <2>1. [shown[v] EXCEPT !.loading = TRUE] \in ViewState
    BY <1>2, Waiting
  <2> QED BY <1>1, <1>2, <2>1 DEF Typed, Viewed
<1>8. Viewed'
  BY <1>0, <1>6, <1>7, RouterSame DEF Typed, Viewed
<1> QED BY <1>0, <1>8, RouterSame, HandledSame DEF Typed

\* Refresh.
LEMMA RefreshTyped == ASSUME Typed, Refresh PROVE Typed'
<1>1. Room(panel.rereads) /\ Asks(panel.rereads) /\ UNCHANGED <<tab, handlers, signalled>>
  BY DEF Refresh
<1>2. signalled' \in BOOLEAN
  BY <1>1 DEF Typed, Viewed
<1> QED BY <1>1, <1>2, Roomy, AskingTyped

\* Signal.
LEMMA SignalTyped == ASSUME Typed, Signal PROVE Typed'
<1> DEFINE vs == ScreenOf(page).stream.asks
<1>1. Room(vs) /\ Asks(vs) /\ UNCHANGED <<tab, handlers>>
  BY DEF Signal
<1>2. signalled' \in BOOLEAN
  BY DEF Signal
<1> QED BY <1>1, <1>2, Roomy, AskingTyped

\* Poll.
LEMMA PollTyped == ASSUME Typed, NEW v, Poll(v) PROVE Typed'
<1>1. v \in Views(page) /\ wire[v] = <<>> /\ Asks({v}) /\ UNCHANGED <<tab, handlers, signalled>>
  BY DEF Poll, Typed, Viewed
<1>2. Len(wire[v]) < MaxAsked
  BY <1>1, EmptySeq, BoundsAssumption
<1>3. signalled' \in BOOLEAN
  BY <1>1 DEF Typed, Viewed
<1> QED BY <1>1, <1>2, <1>3, AskingTyped

\* Begin.
LEMMA BeginTyped == ASSUME Typed, NEW a \in DOMAIN Acts, Begin(a) PROVE Typed'
<1> DEFINE x == [act |-> a, step |-> "called", here |-> TRUE, changes |-> act(a).changes, rest |-> act(a).then,
                 sees |-> {v \in DOMAIN shown : OnScreen(v)}, filter |-> filter]
<1>1. handlers' = Append(handlers, x) /\ Same /\ UNCHANGED <<open, filter, shown, wire, signalled>>
  BY DEF Begin, tab, Same
<1>2. x \in Handler /\ x.act = a
  <2>1. ActFits(ScreenOf(page).views, Acts, Panels, a) /\ Views(page) \subseteq AllViews /\ a \in Own
    BY Path DEF Typed, Router, Made, WellMade, Acts, Panels
  <2>2. act(a).then \in Seq(SUBSET Views(page)) /\ act(a).changes \subseteq Parts
    BY <2>1 DEF ActFits, Acts, Views, act
  <2>3. act(a).then \in Seq(SUBSET AllViews)
    BY <2>1, <2>2, SeqMonotonic
  <2>4. {v \in DOMAIN shown : OnScreen(v)} \subseteq AllViews
    BY <2>1 DEF Typed, Viewed
  <2>5. filter \in 1..2
    BY DEF Typed, Viewed
  <2> QED BY <2>1, <2>2, <2>3, <2>4, <2>5 DEF Handler, Steps
<1> HIDE DEF x
<1>3. handlers' \in Seq(Handler) /\ \A h \in DOMAIN handlers' : handlers'[h] = x \/ (h \in DOMAIN handlers /\ handlers'[h] = handlers[h])
  <2>1. handlers \in Seq(Handler)
    BY DEF Typed, Handled
  <2>2. /\ handlers' \in Seq(Handler) /\ Len(handlers') = Len(handlers) + 1
        /\ \A i \in 1..Len(handlers) : handlers'[i] = handlers[i]
        /\ handlers'[Len(handlers) + 1] = x
    BY <1>1, <1>2, <2>1, AppendProperties
  <2>3. Len(handlers) \in Nat /\ DOMAIN handlers = 1..Len(handlers) /\ DOMAIN handlers' = 1..Len(handlers')
    BY <2>1, <2>2, LenProperties
  <2> QED BY <2>2, <2>3
<1>4. Handled'
  <2>1. \A h \in DOMAIN handlers' : handlers'[h].here => handlers'[h].act \in DOMAIN Acts
    BY <1>2, <1>3 DEF Typed, Handled
  <2> QED BY <1>1, <1>3, <2>1, RouterSame DEF Handled
<1> QED BY <1>1, <1>4, RouterSame, ViewedSame DEF Typed

\* What a write to some parts does to one view.
Written(v, parts, who) ==
  /\ shown'[v] = shown[v] \/ (/\ view(v).shows \cap parts # {}
                              /\ shown'[v] = [shown[v] EXCEPT !.lacks = @ \cup {who}])
  /\ DOMAIN wire'[v] = DOMAIN wire[v] /\ Len(wire'[v]) = Len(wire[v])
  /\ \A i \in DOMAIN wire[v] :
       wire'[v][i] = wire[v][i] \/ (/\ view(v).shows \cap parts # {}
         /\ wire'[v][i] = [wire[v][i] EXCEPT !.read = TRUE, !.lacks = @ \cup {who}])

\* A write leaves everything typed, and does that to each view.
LEMMA WriteTyped ==
  ASSUME Typed, Same, UNCHANGED <<open, filter>>, NEW parts, NEW who \in Own, Write(parts, who)
  PROVE  Viewed' /\ \A v \in Views(page) : Written(v, parts, who)
<1> DEFINE seen == {v \in DOMAIN shown : view(v).shows \cap parts # {}}
           marked(r) == [r EXCEPT !.read = TRUE, !.lacks = @ \cup {who}]
           older(s) == [s EXCEPT !.lacks = @ \cup {who}]
<1>1. /\ DOMAIN shown = Views(page) /\ DOMAIN wire = Views(page)
      /\ \A v \in Views(page) : shown[v] \in ViewState /\ wire[v] \in Seq(Asked) /\ Len(wire[v]) <= MaxAsked
  BY DEF Typed, Viewed
<1>2. PICK before :
       /\ wire' = [v \in DOMAIN wire |-> [i \in DOMAIN wire[v] |->
                     IF v \in seen /\ (wire[v][i].read \/ <<v, i>> \in before)
                     THEN marked(wire[v][i]) ELSE wire[v][i]]]
       /\ shown' = [v \in DOMAIN shown |->
                      IF v \in seen /\ shown[v].has THEN older(shown[v]) ELSE shown[v]]
       /\ signalled' \in {signalled, signalled \/ parts \cap ScreenOf(page).stream.parts # {}}
  BY DEF Write
<1>3. signalled' \in BOOLEAN
  BY <1>2 DEF Typed, Viewed
<1>4. \A r \in Asked : marked(r) \in Asked
  BY DEF Asked
<1>5. \A s \in ViewState : older(s) \in ViewState
  BY DEF ViewState
<1>6. \A v \in seen : view(v).shows \cap parts # {}
  OBVIOUS
<1> HIDE DEF seen, marked, older
<1>7. shown' \in [Views(page) -> ViewState]
  BY <1>1, <1>2, <1>5
<1>8. ASSUME NEW v \in Views(page)
      PROVE  /\ DOMAIN wire'[v] = DOMAIN wire[v] /\ Len(wire'[v]) = Len(wire[v]) /\ wire'[v] \in Seq(Asked)
             /\ \A i \in DOMAIN wire[v] : wire'[v][i] = wire[v][i] \/ (v \in seen /\ wire'[v][i] = marked(wire[v][i]))
  <2>1. Len(wire[v]) \in Nat /\ DOMAIN wire[v] = 1..Len(wire[v]) /\ \A i \in DOMAIN wire[v] : wire[v][i] \in Asked
    BY <1>1, LenProperties
  <2>2. wire'[v] = [i \in DOMAIN wire[v] |-> IF v \in seen /\ (wire[v][i].read \/ <<v, i>> \in before)
                                             THEN marked(wire[v][i]) ELSE wire[v][i]]
    BY <1>1, <1>2
  <2>3. wire'[v] \in [1..Len(wire[v]) -> Asked]
    BY <1>4, <2>1, <2>2
  <2>4. wire'[v] \in Seq(Asked) /\ Len(wire'[v]) = Len(wire[v])
    BY <2>1, <2>3, SeqOf
  <2> QED BY <2>1, <2>2, <2>4
<1>9. DOMAIN wire' = Views(page)
  BY <1>1, <1>2
<1>10. wire' = [v \in Views(page) |-> wire'[v]]
  BY <1>1, <1>2
<1>11. wire' \in [Views(page) -> Seq(Asked)] /\ \A v \in Views(page) : Len(wire'[v]) <= MaxAsked
  BY <1>1, <1>8, <1>10
<1>12. Viewed'
  BY <1>3, <1>7, <1>11, RouterSame DEF Typed, Viewed
<1>13. \A v \in Views(page) : shown'[v] = shown[v] \/ (v \in seen /\ shown'[v] = older(shown[v]))
  BY <1>1, <1>2
<1> QED BY <1>6, <1>8, <1>12, <1>13 DEF marked, older, Written

-----------------------------------------------------------------------------
(* The handlers, the server, the answers.                                  *)
\* Everybody else has a name among the writers.
LEMMA OthersOwn == "others" \in Own
BY DEF Own

\* Others.
LEMMA OthersTyped == ASSUME Typed, NEW part, Others(part) PROVE Typed'
<1>1. Same /\ UNCHANGED <<open, filter, handlers>> /\ Write({part}, "others")
  BY DEF Others, tab, Same
<1> QED BY <1>1, WriteTyped, OthersOwn, RouterSame, HandledSame DEF Typed

\* A handler at another step is a handler.
LEMMA Stepped ==
  ASSUME NEW r \in Handler, NEW s \in Steps
  PROVE  /\ [r EXCEPT !.step = s] \in Handler
         /\ [r EXCEPT !.step = s].here = r.here /\ [r EXCEPT !.step = s].act = r.act
BY DEF Handler

\* A handler that has ended is one, and not here.
LEMMA DoneAway == Done \in Handler /\ ~Done.here
BY Blanks DEF Done

\* Serve.
LEMMA ServeTyped == ASSUME Typed, NEW h \in DOMAIN handlers, Serve(h) PROVE Typed'
<1>1. PICK lost \in BOOLEAN :
        /\ Write(handlers[h].changes, IF handlers[h].here /\ ~lost THEN handlers[h].act ELSE "others")
        /\ handlers' = [handlers EXCEPT ![h] =
             IF handlers[h].here THEN [handlers[h] EXCEPT !.step = IF lost THEN "refused" ELSE "answered"]
             ELSE Done]
  BY DEF Serve
<1> DEFINE who == IF handlers[h].here /\ ~lost THEN handlers[h].act ELSE "others"
           to == IF lost THEN "refused" ELSE "answered"
           x == IF handlers[h].here THEN [handlers[h] EXCEPT !.step = to] ELSE Done
<1>2. Same /\ UNCHANGED <<open, filter>>
  BY DEF Serve, tab, Same
<1>3. handlers[h] \in Handler /\ (handlers[h].here => handlers[h].act \in DOMAIN Acts)
  BY HandlerAt DEF Typed
<1>4. who \in Own
  BY <1>3, OthersOwn, Path DEF Typed, Router, Acts
<1>5. Write(handlers[h].changes, who) /\ handlers' = [handlers EXCEPT ![h] = x]
  BY <1>1
<1>6. to \in Steps
  BY DEF Steps
<1>7. x \in Handler /\ (x.here => x.act \in DOMAIN Acts)
  <2> HIDE DEF to
  <2> QED BY <1>3, <1>6, Stepped, DoneAway
<1> HIDE DEF who, x
<1>8. Viewed'
  BY <1>2, <1>4, <1>5, WriteTyped
<1> QED BY <1>2, <1>5, <1>7, <1>8, HandlerChanged, RouterSame DEF Typed

\* Refuse.
LEMMA RefuseTyped == ASSUME Typed, NEW h \in DOMAIN handlers, Refuse(h) PROVE Typed'
<1> DEFINE x == IF handlers[h].here THEN [handlers[h] EXCEPT !.step = "refused"] ELSE Done
<1>1. Same /\ UNCHANGED <<open, filter, shown, wire, signalled>> /\ handlers' = [handlers EXCEPT ![h] = x]
  BY DEF Refuse, tab, Same
<1>2. handlers[h] \in Handler /\ (handlers[h].here => handlers[h].act \in DOMAIN Acts)
  BY HandlerAt DEF Typed
<1>3. "refused" \in Steps
  BY DEF Steps
<1>4. x \in Handler /\ (x.here => x.act \in DOMAIN Acts)
  BY <1>2, <1>3, Stepped, DoneAway
<1> HIDE DEF x
<1> QED BY <1>1, <1>4, HandlerChanged, ViewedSame, RouterSame DEF Typed

\* Answer.
LEMMA AnswerTyped == ASSUME Typed, NEW h \in DOMAIN handlers, Answer(h) PROVE Typed'
<1> DEFINE x == [handlers[h] EXCEPT !.step = "reading"]
           a == handlers[h].act
           less(s) == [s EXCEPT !.lacks = @ \ {a}]
           patched == act(a).patches
<1>1. /\ Same /\ UNCHANGED <<filter, wire, signalled>> /\ handlers' = [handlers EXCEPT ![h] = x]
      /\ open' = Closed(act(a).closes)
  BY DEF Answer, Same
<1>2. shown' = [v \in DOMAIN shown |-> IF v \in patched THEN less(shown[v]) ELSE shown[v]]
  BY DEF Answer
<1>3. handlers[h] \in Handler /\ (handlers[h].here => handlers[h].act \in DOMAIN Acts)
  BY HandlerAt DEF Typed
<1>4. x \in Handler /\ (x.here => x.act \in DOMAIN Acts)
  BY <1>3, Stepped DEF Steps
<1>5. \A s \in ViewState : less(s) \in ViewState
  BY DEF ViewState
<1> HIDE DEF x, less, patched
<1>6. shown' \in [Views(page) -> ViewState]
  BY <1>2, <1>5 DEF Typed, Viewed
<1>7. open' \in Seq(DOMAIN Panels)
  BY <1>1, ClosedAt DEF Typed, Viewed
<1>8. Viewed'
  BY <1>1, <1>6, <1>7, RouterSame DEF Typed, Viewed
<1> QED BY <1>1, <1>4, <1>8, HandlerChanged, RouterSame DEF Typed

\* Reread.
LEMMA RereadTyped == ASSUME Typed, NEW h \in DOMAIN handlers, Reread(h) PROVE Typed'
<1> DEFINE x == [handlers[h] EXCEPT !.rest = Tail(@)]
           again == Head(handlers[h].rest) \cap handlers[h].sees
           of(v) == IF v \in Captured THEN handlers[h].filter ELSE filter
           rs == [v \in again |-> Request(of(v), h)]
<1>1. Same /\ UNCHANGED <<open, filter, signalled>> /\ handlers' = [handlers EXCEPT ![h] = x]
  BY DEF Reread, tab, Same
<1>2. Room(again) /\ wire' = AskedAs(again, rs) /\ shown' = Loading(again)
  BY DEF Reread, Rereads
<1>3. /\ handlers[h] \in Handler /\ (handlers[h].here => handlers[h].act \in DOMAIN Acts)
      /\ h \in Nat /\ handlers[h].rest # <<>>
  BY HandlerAt DEF Typed, Reread
<1>4. x \in Handler /\ (x.here => x.act \in DOMAIN Acts)
  <2>1. Tail(handlers[h].rest) \in Seq(SUBSET AllViews)
    BY <1>3, HeadTailProperties DEF Handler
  <2> QED BY <1>3, <2>1 DEF Handler
<1>5. \A v \in again : rs[v] \in Asked
  <2>1. \A v : of(v) \in 1..2
    BY <1>3 DEF Typed, Viewed, Handler
  <2> HIDE DEF of
  <2> QED BY <1>3, <2>1, Requested
<1> HIDE DEF x, again, rs
<1>6. wire' \in [Views(page) -> Seq(Asked)] /\ \A u \in Views(page) : Len(wire'[u]) <= MaxAsked
  BY <1>2, <1>5, Roomy, AskedTyped DEF Typed
<1>7. shown' \in [Views(page) -> ViewState]
  BY <1>2, LoadingTyped DEF Typed
<1>8. Viewed'
  BY <1>1, <1>6, <1>7, RouterSame DEF Typed, Viewed
<1> QED BY <1>1, <1>4, <1>8, HandlerChanged, RouterSame DEF Typed

\* Finish.
LEMMA FinishTyped == ASSUME Typed, NEW h \in DOMAIN handlers, Finish(h) PROVE Typed'
<1>1. Same /\ UNCHANGED <<open, filter, shown, wire, signalled>> /\ handlers' = [handlers EXCEPT ![h] = Done]
  BY DEF Finish, tab, Same
<1> QED BY <1>1, DoneAway, HandlerChanged, ViewedSame, RouterSame DEF Typed

\* The requests but one; those asked before it are late.
LEMMA WithoutTyped ==
  ASSUME Typed, NEW v \in Views(page), NEW i \in DOMAIN wire[v]
  PROVE  /\ Without(v, i) \in Seq(Asked) /\ Len(Without(v, i)) = Len(wire[v]) - 1
         /\ \A j \in 1..(Len(wire[v]) - 1) :
              Without(v, i)[j] = IF j < i THEN [wire[v][j] EXCEPT !.late = TRUE] ELSE wire[v][j + 1]
<1> DEFINE older(r) == [r EXCEPT !.late = TRUE]
           f == [j \in 1..(Len(wire[v]) - 1) |-> IF j < i THEN older(wire[v][j]) ELSE wire[v][j + 1]]
<1>1. wire[v] \in Seq(Asked)
  BY DEF Typed, Viewed
<1>2. Len(wire[v]) \in Nat /\ i \in 1..Len(wire[v]) /\ \A j \in 1..Len(wire[v]) : wire[v][j] \in Asked
  BY <1>1, LenProperties
<1>3. \A r \in Asked : older(r) \in Asked
  BY DEF Asked
<1>4. Without(v, i) = f
  BY DEF Without
<1>5. \A j \in 1..(Len(wire[v]) - 1) : f[j] = IF j < i THEN older(wire[v][j]) ELSE wire[v][j + 1]
  OBVIOUS
<1>6. Len(wire[v]) - 1 \in Nat /\ f \in [1..(Len(wire[v]) - 1) -> Asked]
  <2> HIDE DEF older
  <2> QED BY <1>2, <1>3
<1> HIDE DEF f
<1>7. f \in Seq(Asked) /\ Len(f) = Len(wire[v]) - 1
  BY <1>6, SeqOf
<1> QED BY <1>4, <1>5, <1>7

\* Land.
LEMMA LandTyped == ASSUME Typed, NEW v, NEW i, Land(v, i) PROVE Typed'
<1> DEFINE r == wire[v][i]
           got(s) == [s EXCEPT !.has = TRUE, !.loading = FALSE, !.of = r.of,
                               !.lacks = r.lacks \cup (IF r.more THEN s.lacks ELSE {}),
                               !.late = r.late \/ (r.more /\ s.late)]
<1>1. /\ v \in Views(page) /\ i \in DOMAIN wire[v] /\ Same /\ UNCHANGED <<open, filter, handlers, signalled>>
      /\ wire' = [wire EXCEPT ![v] = Without(v, i)]
  BY DEF Land, tab, Same, Typed, Viewed
<1>2. shown' = [shown EXCEPT ![v] = got(shown[v])]
  BY DEF Land
<1>3. r \in Asked
  BY <1>1, LenProperties DEF Typed, Viewed
<1>4. \A s \in ViewState : got(s) \in ViewState
  <2> TAKE s \in ViewState
  <2> DEFINE l == r.lacks \cup (IF r.more THEN s.lacks ELSE {})
             t == r.late \/ (r.more /\ s.late)
  <2>1. l \in SUBSET Own
    BY <1>3 DEF Asked, ViewState
  <2>2. t \in BOOLEAN
    OBVIOUS
  <2>3. r.of \in 1..2
    BY <1>3 DEF Asked
  <2> HIDE DEF l, t, r
  <2>4. [s EXCEPT !.has = TRUE, !.loading = FALSE, !.of = r.of, !.lacks = l, !.late = t] \in ViewState
    BY <2>1, <2>2, <2>3 DEF ViewState
  <2> QED BY <2>4 DEF l, t, r
<1> HIDE DEF r, got
<1>5. shown' \in [Views(page) -> ViewState]
  BY <1>1, <1>2, <1>4 DEF Typed, Viewed
<1>6. wire' \in [Views(page) -> Seq(Asked)] /\ \A u \in Views(page) : Len(wire'[u]) <= MaxAsked
  <2>1. Without(v, i) \in Seq(Asked) /\ Len(Without(v, i)) = Len(wire[v]) - 1
    BY <1>1, WithoutTyped
  <2>2. Len(wire[v]) \in Nat /\ MaxAsked \in Nat /\ Len(wire[v]) <= MaxAsked
    BY <1>1, LenProperties, BoundsAssumption DEF Typed, Viewed
  <2> QED BY <1>1, <2>1, <2>2 DEF Typed, Viewed
<1>7. Viewed'
  BY <1>1, <1>5, <1>6, RouterSame DEF Typed, Viewed
<1> QED BY <1>1, <1>7, RouterSame, HandledSame DEF Typed

\* Fail.
LEMMA FailTyped == ASSUME Typed, NEW v, Fail(v) PROVE Typed'
<1>1. /\ v \in Views(page) /\ wire[v] # <<>> /\ Same /\ UNCHANGED <<filter, handlers, signalled>>
      /\ wire' = [wire EXCEPT ![v] = Tail(wire[v])]
      /\ shown' = [shown EXCEPT ![v] = [shown[v] EXCEPT !.loading = FALSE, !.failed = TRUE]]
      /\ open' = open \/ open' = Closed(view(v).panel)
  BY DEF Fail, Same, Typed, Viewed
<1>2. shown' \in [Views(page) -> ViewState]
  BY <1>1, Waiting DEF Typed, Viewed
<1>3. wire' \in [Views(page) -> Seq(Asked)] /\ \A u \in Views(page) : Len(wire'[u]) <= MaxAsked
  <2>1. Tail(wire[v]) \in Seq(Asked) /\ Len(Tail(wire[v])) = Len(wire[v]) - 1
    BY <1>1, HeadTailProperties DEF Typed, Viewed
  <2>2. Len(wire[v]) \in Nat /\ MaxAsked \in Nat /\ Len(wire[v]) <= MaxAsked
    BY <1>1, LenProperties, BoundsAssumption DEF Typed, Viewed
  <2> QED BY <1>1, <2>1, <2>2 DEF Typed, Viewed
<1>4. open' \in Seq(DOMAIN Panels)
  BY <1>1, ClosedAt DEF Typed, Viewed
<1>5. Viewed'
  BY <1>1, <1>2, <1>3, <1>4, RouterSame DEF Typed, Viewed
<1> QED BY <1>1, <1>5, RouterSame, HandledSame DEF Typed

-----------------------------------------------------------------------------
(* The tab keeps its types.                                                *)
\* Every step keeps the tab typed.
LEMMA StepTyped == ASSUME Typed, [Next]_vars PROVE Typed'
<1>1. CASE UNCHANGED vars
  <2>1. Same /\ UNCHANGED <<open, filter, shown, wire, signalled>> /\ UNCHANGED handlers
    BY <1>1 DEF vars, Same
  <2> QED BY <2>1, RouterSame, ViewedSame, HandledSame DEF Typed
<1>2. CASE User
  <2>1. CASE \E pg \in Pages \cup {"login"} : Visit(pg)
    BY <2>1, VisitTyped
  <2>2. CASE doLogin
    BY <2>2, doLoginTyped
  <2>3. CASE logout
    <3>1. session' = "out" /\ Shows("login")
      BY <2>3 DEF logout
    <3> QED BY <3>1, OutTyped
  <2>4. CASE \E p \in DOMAIN ScreenOf(page).panels : OpenDialog(p)
    BY <2>4, OpenDialogTyped DEF Panels
  <2>5. CASE CloseDialog \/ Pick \/ loadMore \/ Refresh
    BY <2>5, CloseDialogTyped, PickTyped, loadMoreTyped, RefreshTyped
  <2>6. CASE \E a \in DOMAIN ScreenOf(page).acts : Begin(a)
    BY <2>6, BeginTyped DEF Acts
  <2> QED BY <1>2, <2>1, <2>2, <2>3, <2>4, <2>5, <2>6 DEF User
<1>3. CASE Server
  <2>1. CASE \E part \in Parts : Others(part)
    BY <2>1, OthersTyped
  <2>2. CASE \E h \in DOMAIN handlers : Serve(h) \/ Refuse(h)
    BY <2>2, ServeTyped, RefuseTyped
  <2>3. CASE onUnauthorized
    <3>1. session' = "out" /\ Shows("login")
      BY <2>3 DEF onUnauthorized
    <3> QED BY <3>1, OutTyped
  <2> QED BY <1>3, <2>1, <2>2, <2>3 DEF Server
<1>4. CASE Client
  <2>1. CASE \E h \in DOMAIN handlers : Answer(h) \/ Reread(h) \/ Finish(h)
    BY <2>1, AnswerTyped, RereadTyped, FinishTyped
  <2>2. CASE \E v \in DOMAIN shown : Poll(v)
    BY <2>2, PollTyped
  <2>3. CASE Signal
    BY <2>3, SignalTyped
  <2>4. CASE \E v \in DOMAIN wire : Fail(v) \/ \E i \in DOMAIN wire[v] : Land(v, i)
    BY <2>4, FailTyped, LandTyped
  <2> QED BY <1>4, <2>1, <2>2, <2>3, <2>4 DEF Client
<1> QED BY <1>1, <1>2, <1>3, <1>4 DEF Next

\* Typed says all that TypeOK says.
LEMMA TypedIsTypeOK == Typed => TypeOK
<1> SUFFICES ASSUME Typed PROVE TypeOK
  OBVIOUS
<1>1. Range(open) \subseteq DOMAIN ScreenOf(page).panels
  <2>1. open \in Seq(DOMAIN Panels)
    BY DEF Typed, Viewed
  <2>2. \A i \in DOMAIN open : open[i] \in DOMAIN Panels
    BY <2>1, ElementOfSeq, LenProperties
  <2> QED BY <2>2 DEF Range, Panels
<1>2. filter \in 1..2
  BY DEF Typed, Viewed
<1>3. signalled \in BOOLEAN
  BY DEF Typed, Viewed
<1>4. DOMAIN shown = Views(page) /\ DOMAIN wire = Views(page)
  BY DEF Typed, Viewed
<1>5. \A v \in Views(page) : shown[v].of \in 1..2 /\ shown[v].lacks \subseteq Own
  BY DEF Typed, Viewed, ViewState
<1>6. \A v \in Views(page) : Len(wire[v]) <= MaxAsked
  BY DEF Typed, Viewed
<1>7. \A h \in DOMAIN handlers : handlers[h].here => handlers[h].act \in DOMAIN ScreenOf(page).acts
  BY DEF Typed, Handled, Acts
<1>8. /\ session \in {"out", "member", "admin"}
      /\ session = "out" => page = "login"
      /\ ScreenOf(page).admin => session = "admin"
  BY DEF Typed, Router
<1> QED BY <1>1, <1>2, <1>3, <1>4, <1>5, <1>6, <1>7, <1>8 DEF TypeOK

\* In every behaviour, for every set of pages and every bound, a signed-out tab shows the login page
\* and a member's tab no page of the administrators (RequireAuth, RequireAdmin in App.tsx), and what
\* the tab holds belongs to the page it shows, whatever was on its way when the page changed.
THEOREM TypeOKHolds == Spec => []TypeOK
<1>1. Init => Typed
  BY InitTyped
<1>2. Typed /\ [Next]_vars => Typed'
  BY StepTyped
<1>3. Typed => TypeOK
  BY TypedIsTypeOK
<1> QED BY <1>1, <1>2, <1>3, PTL DEF Spec

-----------------------------------------------------------------------------
(* What a view will show in the end, and who owes it what.                 *)
\* Who can change what a view shows, and the requests for it that lack only that.
Touching(v) == {"others"} \cup {a \in DOMAIN Acts : Touches(ScreenOf(page).views, Acts, a, v)}
Fitting(v) == {r \in Asked : r.lacks \subseteq Touching(v) /\ (r.more => view(v).grows)}

\* A view lacks only writes that changed it, and only the ledger asks for more.
Traced == \A v \in Views(page) : shown[v].lacks \subseteq Touching(v) /\ wire[v] \in Seq(Fitting(v))

\* What a view shows in the end is the answer to its last request, or what it holds if none is on
\* its way; nothing is promised of a view without an answer, of one that is late or has failed.
Excused(w, s) == IF w = <<>> THEN ~s.has \/ s.late \/ s.failed ELSE w[Len(w)].late
Awaited(w, s) == IF w = <<>> THEN s ELSE w[Len(w)]

\* A handler will ask for a view that lacks its write: its answer is known, or the view is in a group
\* it has still to ask for.
Promised(h, x, v) == /\ handlers[h].here /\ handlers[h].act = x
                     /\ \/ handlers[h].step = "answered"
                        \/ /\ handlers[h].step = "reading" /\ v \in handlers[h].sees
                           /\ \E i \in DOMAIN handlers[h].rest : v \in handlers[h].rest[i]

\* A write a view may lack: somebody else's, a forgotten one, or one whose handler will ask again.
Owed(x, v) == x = "others" \/ <<x, v>> \in Forgotten \/ \E h \in DOMAIN handlers : Promised(h, x, v)
Current(v) == OnScreen(v) /\ ~Excused(wire[v], shown[v])

\* Whatever a view on the screen will lack in the end is owed to it.
Fresh == \A v \in Views(page) :
           (Current(v) /\ ~view(v).polled) => \A x \in Awaited(wire[v], shown[v]).lacks : Owed(x, v)

\* Whatever it will show is asked for by the filter picked last.
ByFilter == \A v \in Views(page) :
              (Current(v) /\ view(v).picked /\ v \notin Captured) => Awaited(wire[v], shown[v]).of = filter

\* A view settles: what is awaited is what was awaited, less what has come.
Settles(w, s, w1, s1) ==
  ~Excused(w1, s1) => /\ ~Excused(w, s) /\ Awaited(w1, s1).of = Awaited(w, s).of
                      /\ Awaited(w1, s1).lacks \subseteq Awaited(w, s).lacks \cup {"others"}

\* A view asked for anew.
Renewed(v) == ~Excused(wire'[v], shown'[v]) =>
  Awaited(wire'[v], shown'[v]).lacks = {} /\ (v \notin Captured => Awaited(wire'[v], shown'[v]).of = filter')

\* A view that keeps what it awaits, and what is owed to it.
Kept(v) ==
  /\ OnScreen(v) /\ (view(v).picked => filter' = filter)
  /\ ~Excused(wire'[v], shown'[v]) =>
       /\ ~Excused(wire[v], shown[v]) /\ Awaited(wire'[v], shown'[v]).of = Awaited(wire[v], shown[v]).of
       /\ ~view(v).polled => \A x \in Awaited(wire'[v], shown'[v]).lacks :
            (x \in Awaited(wire[v], shown[v]).lacks => Owed(x, v)) => Owed(x, v)'

\* If every view on the screen is asked for anew or keeps what it holds, what was true of all still is.
LEMMA Carried ==
  ASSUME Typed, Same, Fresh, ByFilter,
         \A v \in Views(page) : OnScreen(v)' => Renewed(v) \/ Kept(v)
  PROVE  Fresh' /\ ByFilter'
<1>1. Views(page)' = Views(page) /\ \A v : view(v)' = view(v)
  BY DEF Same, Views, view
<1>2. ASSUME NEW v \in Views(page), OnScreen(v)', ~Excused(wire'[v], shown'[v]), ~view(v).polled,
             NEW x \in Awaited(wire'[v], shown'[v]).lacks
      PROVE  Owed(x, v)'
  <2>1. CASE Renewed(v)
    BY <1>2, <2>1 DEF Renewed
  <2>2. CASE Kept(v)
    <3>1. /\ OnScreen(v) /\ ~Excused(wire[v], shown[v])
          /\ (x \in Awaited(wire[v], shown[v]).lacks => Owed(x, v)) => Owed(x, v)'
      BY <1>2, <2>2 DEF Kept
    <3>2. x \in Awaited(wire[v], shown[v]).lacks => Owed(x, v)
      BY <1>2, <3>1 DEF Fresh, Current
    <3> QED BY <3>1, <3>2
  <2> QED BY <1>2, <2>1, <2>2
<1>3. ASSUME NEW v \in Views(page), OnScreen(v)', ~Excused(wire'[v], shown'[v]), view(v).picked, v \notin Captured
      PROVE  Awaited(wire'[v], shown'[v]).of = filter'
  <2>1. CASE Renewed(v)
    BY <1>3, <2>1 DEF Renewed
  <2>2. CASE Kept(v)
    <3>1. /\ OnScreen(v) /\ ~Excused(wire[v], shown[v]) /\ filter' = filter
          /\ Awaited(wire'[v], shown'[v]).of = Awaited(wire[v], shown[v]).of
      BY <1>3, <2>2 DEF Kept
    <3>2. Awaited(wire[v], shown[v]).of = filter
      BY <1>3, <3>1 DEF ByFilter, Current
    <3> QED BY <3>1, <3>2
  <2> QED BY <1>3, <2>1, <2>2
<1>4. Fresh'
  BY <1>1, <1>2 DEF Fresh, Current
<1>5. ByFilter'
  BY <1>1, <1>3 DEF ByFilter, Current
<1> QED BY <1>4, <1>5

\* A view that settles, for as long as nobody drops what is owed to it.
LEMMA KeptBy ==
  ASSUME NEW v, OnScreen(v), view(v).picked => filter' = filter,
         Settles(wire[v], shown[v], wire'[v], shown'[v]), \A x : Owed(x, v) => Owed(x, v)'
  PROVE  Kept(v)
BY DEF Kept, Settles, Owed

\* Nothing happens to a view, or it waits.
LEMMA SameSettles ==
  ASSUME NEW w, NEW s, NEW s1,
         \/ s1 = s
         \/ w # <<>>
  PROVE  Settles(w, s, w, s1)
BY DEF Settles, Excused, Awaited

\* What is owed, the handlers owe.
LEMMA OwedSame == ASSUME UNCHANGED handlers, NEW v PROVE \A x : Owed(x, v) => Owed(x, v)'
BY DEF Owed, Promised

\* What changes a view depends on the page alone.
LEMMA TouchingSame ==
  ASSUME Same PROVE \A v : view(v)' = view(v) /\ Touching(v)' = Touching(v) /\ Fitting(v)' = Fitting(v)
BY DEF Same, Touching, Fitting, view, Acts

\* To lack only what can change a view is checked view by view.
LEMMA TracedSame ==
  ASSUME Typed, Same,
         \A v \in Views(page) : shown'[v].lacks \subseteq Touching(v) /\ wire'[v] \in Seq(Fitting(v))
  PROVE  Traced'
BY TouchingSame, RouterSame DEF Traced

\* A view asked for waits for a fresh answer.
LEMMA AskedAnew ==
  ASSUME Typed, Traced, NEW vs, NEW rs, wire' = AskedAs(vs, rs),
         NEW v \in Views(page), v \in vs => rs[v] \in Fitting(v)
  PROVE  /\ wire'[v] \in Seq(Fitting(v))
         /\ v \in vs => \A s : Awaited(wire'[v], s) = rs[v] /\ Excused(wire'[v], s) = rs[v].late
         /\ v \notin vs => wire'[v] = wire[v]
<1>1. wire[v] \in Seq(Fitting(v)) /\ v \in DOMAIN wire
  BY DEF Traced, Typed, Viewed
<1>2. wire'[v] = IF v \in vs THEN Append(wire[v], rs[v]) ELSE wire[v]
  BY <1>1 DEF AskedAs
<1>3. CASE v \in vs
  <2>1. /\ Append(wire[v], rs[v]) \in Seq(Fitting(v)) /\ Append(wire[v], rs[v]) # <<>>
        /\ Len(Append(wire[v], rs[v])) = Len(wire[v]) + 1
        /\ Append(wire[v], rs[v])[Len(wire[v]) + 1] = rs[v]
    BY <1>1, <1>3, AppendProperties
  <2> QED BY <1>2, <1>3, <2>1 DEF Awaited, Excused
<1>4. CASE v \notin vs
  BY <1>1, <1>2, <1>4
<1> QED BY <1>3, <1>4

\* A new request lacks nothing, and is not late.
LEMMA RequestFits ==
  ASSUME NEW f \in 1..2, NEW h \in Nat, NEW v
  PROVE  /\ Request(f, h) \in Fitting(v) /\ Request(f, h).lacks = {} /\ ~Request(f, h).late /\ Request(f, h).of = f
         /\ Request(f, h).late = FALSE
BY Requested DEF Request, Fitting

-----------------------------------------------------------------------------
(* Steps that ask.                                                         *)
\* What holds of the views.
Steady == Traced /\ Fresh /\ ByFilter

\* What is asked for, and what becomes of the rest.
Wanted(vs, rs) ==
  \A v \in vs : /\ rs[v] \in Fitting(v) /\ rs[v].lacks = {} /\ rs[v].late = FALSE
                /\ v \notin Captured => rs[v].of = filter
Elsewhere(vs) ==
  \A v \in Views(page) : /\ shown'[v].lacks \subseteq shown[v].lacks
                         /\ v \notin vs => /\ shown'[v] = shown[v] /\ (OnScreen(v)' => OnScreen(v))
                                           /\ \A x : Owed(x, v) => Owed(x, v)'

\* A step that asks for some views, and leaves the rest.
LEMMA AskingKeeps ==
  ASSUME Typed, Steady, Same, filter' = filter, NEW vs, NEW rs, wire' = AskedAs(vs, rs),
         Wanted(vs, rs), Elsewhere(vs)
  PROVE  Steady'
<1> USE DEF Wanted, Elsewhere
<1>1. Traced'
  <2>1. ASSUME NEW v \in Views(page) PROVE shown'[v].lacks \subseteq Touching(v) /\ wire'[v] \in Seq(Fitting(v))
    <3>1. wire'[v] \in Seq(Fitting(v))
      BY AskedAnew DEF Steady
    <3>2. shown[v].lacks \subseteq Touching(v)
      BY DEF Steady, Traced
    <3> QED BY <3>1, <3>2
  <2> QED BY <2>1, TracedSame
<1>2. ASSUME NEW v \in Views(page), OnScreen(v)' PROVE Renewed(v) \/ Kept(v)
  <2>1. CASE v \in vs
    <3>1. Awaited(wire'[v], shown'[v]) = rs[v]
      BY <2>1, AskedAnew DEF Steady
    <3> QED BY <2>1, <3>1 DEF Renewed
  <2>2. CASE v \notin vs
    <3>1. wire'[v] = wire[v]
      BY <2>2, AskedAnew DEF Steady
    <3>2. Settles(wire[v], shown[v], wire'[v], shown'[v])
      BY <2>2, <3>1, SameSettles
    <3>3. OnScreen(v) /\ \A x : Owed(x, v) => Owed(x, v)'
      BY <1>2, <2>2
    <3> QED BY <3>2, <3>3, KeptBy
  <2> QED BY <2>1, <2>2
<1>3. Fresh' /\ ByFilter'
  <2>1. Fresh /\ ByFilter
    BY DEF Steady
  <2> QED BY <1>2, <2>1, Carried
<1> QED BY <1>1, <1>3 DEF Steady

\* Waiting changes nothing of what a view lacks.
LEMMA LoadingLacks ==
  ASSUME Typed, NEW vs, NEW v \in Views(page)
  PROVE  Loading(vs)[v].lacks = shown[v].lacks /\ (v \notin vs => Loading(vs)[v] = shown[v])
<1>1. v \in DOMAIN shown /\ shown[v] \in ViewState
  BY DEF Typed, Viewed
<1> QED BY <1>1 DEF Loading, ViewState

\* As long as the dialogs stay, so does what is on the screen.
LEMMA OnScreenSame ==
  ASSUME Same, open' = open, NEW v PROVE OnScreen(v)' = OnScreen(v)
BY DEF Same, OnScreen, view

\* Every step that only asks.
LEMMA AsksSteady ==
  ASSUME Typed, Steady, NEW vs, Asks(vs), UNCHANGED <<tab, handlers>>
  PROVE  Steady'
<1> DEFINE rs == [v \in vs |-> Request(filter, 0)]
<1>1. wire' = AskedAs(vs, rs) /\ shown' = Loading(vs)
  BY DEF Asks
<1>2. Same /\ filter' = filter /\ open' = open /\ UNCHANGED handlers
  BY DEF tab, Same
<1>3. \A v \in vs : /\ rs[v] \in Fitting(v) /\ rs[v].lacks = {} /\ rs[v].late = FALSE /\ rs[v].of = filter
  BY RequestFits, 0 \in Nat DEF Typed, Viewed
<1> HIDE DEF rs
<1>4. \A v \in Views(page) : shown'[v].lacks \subseteq shown[v].lacks /\ (v \notin vs => shown'[v] = shown[v])
  BY <1>1, LoadingLacks
<1>5. \A v : OnScreen(v)' => OnScreen(v)
  BY <1>2, OnScreenSame
<1>6. \A v : \A x : Owed(x, v) => Owed(x, v)'
  BY <1>2, OwedSame
<1>7. Wanted(vs, rs)
  BY <1>3 DEF Wanted
<1>8. Elsewhere(vs)
  BY <1>4, <1>5, <1>6 DEF Elsewhere
<1> QED BY <1>1, <1>2, <1>7, <1>8, AskingKeeps

\* Refresh.
LEMMA RefreshSteady == ASSUME Typed, Steady, Refresh PROVE Steady'
<1>1. Asks(panel.rereads) /\ UNCHANGED <<tab, handlers>>
  BY DEF Refresh
<1> QED BY <1>1, AsksSteady

\* Signal.
LEMMA SignalSteady == ASSUME Typed, Steady, Signal PROVE Steady'
<1> DEFINE vs == ScreenOf(page).stream.asks
<1>1. Asks(vs) /\ UNCHANGED <<tab, handlers>>
  BY DEF Signal
<1> QED BY <1>1, AsksSteady

\* Poll.
LEMMA PollSteady == ASSUME Typed, Steady, NEW v, Poll(v) PROVE Steady'
<1>1. Asks({v}) /\ UNCHANGED <<tab, handlers>>
  BY DEF Poll
<1> QED BY <1>1, AsksSteady

\* loadMore.
LEMMA loadMoreSteady == ASSUME Typed, Steady, loadMore PROVE Steady'
<1>0. Same /\ filter' = filter /\ open' = open /\ UNCHANGED handlers
  BY DEF loadMore, Same, tab
<1>1. PICK u \in DOMAIN shown :
        /\ view(u).grows
        /\ wire' = AskedAs({u}, [x \in {u} |-> [Request(filter, 0) EXCEPT !.more = TRUE]])
        /\ shown' = [shown EXCEPT ![u].loading = TRUE]
  BY DEF loadMore
<1> DEFINE r == [Request(filter, 0) EXCEPT !.more = TRUE]
           rs == [x \in {u} |-> r]
<1>2. r \in Fitting(u) /\ r.lacks = {} /\ r.late = FALSE /\ r.of = filter
  <2>1. Request(filter, 0) \in Asked
    BY Requested, 0 \in Nat DEF Typed, Viewed
  <2>2. r.lacks = {} /\ r.late = FALSE /\ r.of = filter
    BY DEF Request
  <2>3. r \in Asked
    BY <2>1 DEF Asked
  <2> HIDE DEF r
  <2> QED BY <1>1, <2>2, <2>3 DEF Fitting
<1> HIDE DEF r
<1>3. \A v \in {u} : rs[v] \in Fitting(v) /\ rs[v].lacks = {} /\ rs[v].late = FALSE /\ rs[v].of = filter
  BY <1>2
<1>4. wire' = AskedAs({u}, rs)
  BY <1>1 DEF r
<1> HIDE DEF rs
<1>5. ASSUME NEW v \in Views(page)
      PROVE  shown'[v].lacks \subseteq shown[v].lacks /\ (v \notin {u} => shown'[v] = shown[v])
  <2>1. v \in DOMAIN shown /\ shown[v] \in ViewState
    BY DEF Typed, Viewed
  <2> QED BY <1>1, <2>1 DEF ViewState
<1>6. \A v : OnScreen(v)' => OnScreen(v)
  BY <1>0, OnScreenSame
<1>7. \A v : \A x : Owed(x, v) => Owed(x, v)'
  BY <1>0, OwedSame
<1>8. Wanted({u}, rs)
  BY <1>3 DEF Wanted
<1>9. Elsewhere({u})
  BY <1>5, <1>6, <1>7 DEF Elsewhere
<1> QED BY <1>0, <1>4, <1>8, <1>9, AskingKeeps

\* OpenDialog: the views it brings to the screen are asked for as it opens.
LEMMA OpenDialogSteady == ASSUME Typed, Steady, NEW p \in DOMAIN Panels, OpenDialog(p) PROVE Steady'
<1> DEFINE asked == {v \in DOMAIN shown : view(v).panel = p}
           new == {v \in asked : view(v).resets}
           rs == [v \in asked |-> Request(filter, 0)]
           was(v) == IF v \in new THEN Empty ELSE shown[v]
<1>0. Same /\ filter' = filter /\ UNCHANGED handlers /\ open' = Append(open, p)
  BY DEF OpenDialog, Same
<1>1. /\ wire' = AskedAs(asked, rs)
      /\ shown' = [v \in DOMAIN shown |-> IF v \in asked THEN [was(v) EXCEPT !.loading = TRUE, !.failed = FALSE]
                                          ELSE shown[v]]
  BY DEF OpenDialog
<1>2. \A v \in asked : rs[v] \in Fitting(v) /\ rs[v].lacks = {} /\ rs[v].late = FALSE /\ rs[v].of = filter
  BY RequestFits, 0 \in Nat DEF Typed, Viewed
<1>3. ASSUME NEW v \in Views(page), v \notin asked, OnScreen(v)' PROVE OnScreen(v)
  <2>1. v \in DOMAIN shown /\ view(v)' = view(v) /\ view(v).panel # p
    BY <1>0, <1>3 DEF Typed, Viewed, Same, view
  <2>2. Range(open') = Range(open) \cup {p}
    <3>1. /\ open \in Seq(DOMAIN Panels) /\ Len(open') = Len(open) + 1 /\ open'[Len(open) + 1] = p
          /\ \A i \in 1..Len(open) : open'[i] = open[i]
          /\ open' \in Seq(DOMAIN Panels)
      BY <1>0, AppendProperties DEF Typed, Viewed
    <3>2. DOMAIN open = 1..Len(open) /\ DOMAIN open' = 1..(Len(open) + 1) /\ Len(open) \in Nat
      BY <3>1, LenProperties
    <3> QED BY <3>1, <3>2 DEF Range
  <2> QED BY <1>3, <2>1, <2>2 DEF OnScreen
<1> HIDE DEF new, rs
<1>4. ASSUME NEW v \in Views(page)
      PROVE  shown'[v].lacks \subseteq shown[v].lacks /\ (v \notin asked => shown'[v] = shown[v])
  <2>1. v \in DOMAIN shown /\ shown[v] \in ViewState
    BY DEF Typed, Viewed
  <2>2. was(v) \in ViewState /\ was(v).lacks \subseteq shown[v].lacks
    BY <2>1, Blanks DEF Empty
  <2> HIDE DEF asked, was
  <2>3. [was(v) EXCEPT !.loading = TRUE, !.failed = FALSE].lacks = was(v).lacks
    BY <2>2 DEF ViewState
  <2> QED BY <1>1, <2>1, <2>2, <2>3
<1>5. \A v : \A x : Owed(x, v) => Owed(x, v)'
  BY <1>0, OwedSame
<1> HIDE DEF asked, was
<1>6. Wanted(asked, rs)
  BY <1>2 DEF Wanted
<1>7. Elsewhere(asked)
  BY <1>3, <1>4, <1>5 DEF Elsewhere
<1> QED BY <1>0, <1>1, <1>6, <1>7, AskingKeeps

-----------------------------------------------------------------------------
(* Steps no view sees.                                                     *)
\* One handler moves on: what it was to ask for, it still is, or its views need it no more.
LEMMA OwedOn ==
  ASSUME NEW h \in DOMAIN handlers, NEW y, handlers' = [handlers EXCEPT ![h] = y],
         NEW x, NEW v, Promised(h, x, v) => Promised(h, x, v)'
  PROVE  Owed(x, v) => Owed(x, v)'
<1>1. DOMAIN handlers' = DOMAIN handlers /\ \A k \in DOMAIN handlers : k # h => handlers'[k] = handlers[k]
  OBVIOUS
<1>2. \A k \in DOMAIN handlers : Promised(k, x, v) => Promised(k, x, v)'
  BY <1>1 DEF Promised
<1> QED BY <1>1, <1>2 DEF Owed

\* A step under which every view settles.
LEMMA SettlingKeeps ==
  ASSUME Typed, Steady, Same, filter' = filter, Traced',
         \A v \in Views(page) : OnScreen(v)' => /\ OnScreen(v) /\ \A x : Owed(x, v) => Owed(x, v)'
                                                /\ Settles(wire[v], shown[v], wire'[v], shown'[v])
  PROVE  Steady'
<1>1. ASSUME NEW v \in Views(page), OnScreen(v)' PROVE Kept(v)
  BY <1>1, KeptBy
<1>2. Fresh /\ ByFilter
  BY DEF Steady
<1>3. Fresh' /\ ByFilter'
  BY <1>1, <1>2, Carried
<1> QED BY <1>3 DEF Steady

\* A step that no view sees.
LEMMA Unseen ==
  ASSUME Typed, Steady, Same, UNCHANGED <<filter, wire, shown>>,
         \A v \in Views(page) : OnScreen(v)' => OnScreen(v) /\ \A x : Owed(x, v) => Owed(x, v)'
  PROVE  Steady'
<1>1. Traced'
  BY TracedSame DEF Steady, Traced
<1>2. \A v \in Views(page) : Settles(wire[v], shown[v], wire'[v], shown'[v])
  BY SameSettles
<1> QED BY <1>1, <1>2, SettlingKeeps

\* Closing opens nothing.
LEMMA ClosedShrinks ==
  ASSUME Typed, NEW p PROVE Range(Closed(p)) \subseteq Range(open)
<1>0. open \in Seq(DOMAIN Panels)
  BY DEF Typed, Viewed
<1>1. CASE p \notin Range(open)
  BY <1>0, <1>1, ClosedAt
<1>2. CASE p \in Range(open)
  <2>1. PICK i \in 1..Len(open) :
          /\ Len(Closed(p)) = Len(open) - 1 /\ Closed(p) \in Seq(DOMAIN Panels)
          /\ \A j \in 1..(Len(open) - 1) : Closed(p)[j] = IF j < i THEN open[j] ELSE open[j + 1]
    BY <1>0, <1>2, ClosedAt
  <2>2. /\ Len(open) \in Nat /\ DOMAIN open = 1..Len(open) /\ DOMAIN Closed(p) = 1..(Len(open) - 1)
    BY <1>0, <2>1, LenProperties
  <2>3. ASSUME NEW j \in DOMAIN Closed(p) PROVE Closed(p)[j] \in Range(open)
    <3>1. j \in 1..(Len(open) - 1) /\ j \in 1..Len(open) /\ j + 1 \in 1..Len(open)
      BY <2>2
    <3>2. Closed(p)[j] = open[j] \/ Closed(p)[j] = open[j + 1]
      BY <2>1, <3>1
    <3> QED BY <2>2, <3>1, <3>2 DEF Range
  <2> QED BY <2>3 DEF Range
<1> QED BY <1>1, <1>2

\* Nor does it bring anything to the screen.
LEMMA OnScreenClosed ==
  ASSUME Typed, Same, NEW p, open' = Closed(p), NEW v, OnScreen(v)' PROVE OnScreen(v)
<1>1. view(v)' = view(v)
  BY DEF Same, view
<1> QED BY <1>1, ClosedShrinks DEF OnScreen

\* CloseDialog.
LEMMA CloseDialogSteady == ASSUME Typed, Steady, CloseDialog PROVE Steady'
<1>1. Same /\ UNCHANGED <<filter, wire, shown>> /\ UNCHANGED handlers /\ open' = Closed(top)
  BY DEF CloseDialog, Same
<1>2. \A v : OnScreen(v)' => OnScreen(v)
  BY <1>1, OnScreenClosed
<1>3. \A v : \A x : Owed(x, v) => Owed(x, v)'
  BY <1>1, OwedSame
<1> QED BY <1>1, <1>2, <1>3, Unseen

\* Refuse.
LEMMA RefuseSteady == ASSUME Typed, Steady, NEW h \in DOMAIN handlers, Refuse(h) PROVE Steady'
<1> DEFINE y == IF handlers[h].here THEN [handlers[h] EXCEPT !.step = "refused"] ELSE Done
<1>1. Same /\ UNCHANGED <<filter, wire, shown>> /\ open' = open /\ handlers' = [handlers EXCEPT ![h] = y]
  BY DEF Refuse, tab, Same
<1>2. \A v : \A x : ~Promised(h, x, v)
  BY DEF Refuse, Promised
<1> HIDE DEF y
<1>3. \A v : \A x : Owed(x, v) => Owed(x, v)'
  BY <1>1, <1>2, OwedOn
<1>4. \A v : OnScreen(v)' => OnScreen(v)
  BY <1>1, OnScreenSame
<1> QED BY <1>1, <1>3, <1>4, Unseen

\* Finish: a handler ends only when it owes nothing.
LEMMA FinishSteady == ASSUME Typed, Steady, NEW h \in DOMAIN handlers, Finish(h) PROVE Steady'
<1>1. Same /\ UNCHANGED <<filter, wire, shown>> /\ open' = open /\ handlers' = [handlers EXCEPT ![h] = Done]
  BY DEF Finish, tab, Same
<1>2. \A v : \A x : ~Promised(h, x, v)
  <2>1. handlers[h].step = "refused" \/ (handlers[h].step = "reading" /\ handlers[h].rest = <<>>)
    BY DEF Finish
  <2>2. DOMAIN <<>> = {}
    OBVIOUS
  <2> QED BY <2>1, <2>2 DEF Promised
<1>3. \A v : \A x : Owed(x, v) => Owed(x, v)'
  BY <1>1, <1>2, OwedOn
<1>4. \A v : OnScreen(v)' => OnScreen(v)
  BY <1>1, OnScreenSame
<1> QED BY <1>1, <1>3, <1>4, Unseen

\* One more handler.
LEMMA Began ==
  ASSUME Typed, NEW x, handlers' = Append(handlers, x)
  PROVE  /\ Len(handlers) \in Nat /\ DOMAIN handlers = 1..Len(handlers) /\ DOMAIN handlers' = 1..(Len(handlers) + 1)
         /\ \A h \in DOMAIN handlers : h \in DOMAIN handlers' /\ handlers'[h] = handlers[h]
         /\ handlers'[Len(handlers) + 1] = x
<1>1. handlers \in Seq(Handler)
  BY DEF Typed, Handled
<1>2. Len(handlers) \in Nat /\ DOMAIN handlers = 1..Len(handlers)
  BY <1>1, LenProperties
<1>3. \E S : handlers \in Seq(S) /\ x \in S
  <2>1. Handler \subseteq Handler \cup {x}
    OBVIOUS
  <2>2. handlers \in Seq(Handler \cup {x})
    BY <1>1, <2>1, SeqMonotonic
  <2> QED BY <2>2
<1>4. PICK S : handlers \in Seq(S) /\ x \in S
  BY <1>3
<1>5. /\ handlers' \in Seq(S) /\ Len(handlers') = Len(handlers) + 1
      /\ \A i \in 1..Len(handlers) : handlers'[i] = handlers[i]
      /\ handlers'[Len(handlers) + 1] = x
  BY <1>4, AppendProperties
<1>6. DOMAIN handlers' = 1..Len(handlers')
  BY <1>5, LenProperties
<1> QED BY <1>2, <1>5, <1>6

\* Begin.
LEMMA BeginSteady == ASSUME Typed, Steady, NEW a, Begin(a) PROVE Steady'
<1> DEFINE x == [act |-> a, step |-> "called", here |-> TRUE, changes |-> act(a).changes, rest |-> act(a).then,
                 sees |-> {v \in DOMAIN shown : OnScreen(v)}, filter |-> filter]
<1>1. Same /\ UNCHANGED <<filter, wire, shown>> /\ open' = open /\ handlers' = Append(handlers, x)
  BY DEF Begin, tab, Same
<1> HIDE DEF x
<1>2. \A h \in DOMAIN handlers : h \in DOMAIN handlers' /\ handlers'[h] = handlers[h]
  BY <1>1, Began
<1>3. \A v : \A y : Owed(y, v) => Owed(y, v)'
  BY <1>2 DEF Owed, Promised
<1>4. \A v : OnScreen(v)' => OnScreen(v)
  BY <1>1, OnScreenSame
<1> QED BY <1>1, <1>3, <1>4, Unseen

-----------------------------------------------------------------------------
(* Steps that ask by another filter, or for a handler.                     *)
\* Reread: the views of the group are asked for, those of the later ones stay owed.
LEMMA RereadSteady == ASSUME Typed, Steady, NEW h \in DOMAIN handlers, Reread(h) PROVE Steady'
<1> DEFINE y == [handlers[h] EXCEPT !.rest = Tail(@)]
           again == Head(handlers[h].rest) \cap handlers[h].sees
           of(v) == IF v \in Captured THEN handlers[h].filter ELSE filter
           rs == [v \in again |-> Request(of(v), h)]
<1>1. Same /\ filter' = filter /\ open' = open /\ handlers' = [handlers EXCEPT ![h] = y]
  BY DEF Reread, tab, Same
<1>2. wire' = AskedAs(again, rs) /\ shown' = Loading(again)
  BY DEF Reread, Rereads
<1>3. /\ handlers[h] \in Handler /\ h \in Nat /\ handlers[h].rest # <<>> /\ handlers[h].step = "reading"
  BY HandlerAt DEF Typed, Reread
<1>4. Wanted(again, rs)
  <2>1. \A v : of(v) \in 1..2
    BY <1>3 DEF Typed, Viewed, Handler
  <2>2. \A v : v \notin Captured => of(v) = filter
    OBVIOUS
  <2>3. \A v \in again : rs[v] = Request(of(v), h)
    OBVIOUS
  <2> HIDE DEF of, again, rs
  <2>4. ASSUME NEW v \in again
        PROVE  /\ rs[v] \in Fitting(v) /\ rs[v].lacks = {} /\ rs[v].late = FALSE
               /\ v \notin Captured => rs[v].of = filter
    <3>1. PICK f \in 1..2 : f = of(v)
      BY <2>1
    <3>2. h \in Nat
      BY <1>3
    <3>3. /\ Request(f, h) \in Fitting(v) /\ Request(f, h).lacks = {}
          /\ Request(f, h).late = FALSE /\ Request(f, h).of = f
      BY <3>2, RequestFits
    <3>4. rs[v] = Request(f, h)
      BY <2>3, <3>1
    <3> QED BY <2>2, <3>1, <3>3, <3>4
  <2> QED BY <2>4 DEF Wanted
<1> HIDE DEF rs
<1>5. ASSUME NEW v, v \notin again, NEW x, Promised(h, x, v) PROVE Promised(h, x, v)'
  <2>1. PICK i \in DOMAIN handlers[h].rest : v \in handlers[h].rest[i]
    BY <1>3, <1>5 DEF Promised
  <2>2. handlers[h].here /\ handlers[h].act = x /\ v \in handlers[h].sees
    BY <1>3, <1>5 DEF Promised
  <2>3. handlers[h].rest \in Seq(SUBSET AllViews) /\ handlers[h].rest # <<>>
    BY <1>3 DEF Handler
  <2>4. /\ Head(handlers[h].rest) = handlers[h].rest[1]
        /\ Len(Tail(handlers[h].rest)) = Len(handlers[h].rest) - 1
        /\ \A j \in 1..Len(Tail(handlers[h].rest)) : Tail(handlers[h].rest)[j] = handlers[h].rest[j + 1]
        /\ Tail(handlers[h].rest) \in Seq(SUBSET AllViews)
    BY <2>3, HeadTailProperties
  <2>5. Len(handlers[h].rest) \in Nat /\ i \in 1..Len(handlers[h].rest)
        /\ DOMAIN Tail(handlers[h].rest) = 1..(Len(handlers[h].rest) - 1)
    BY <2>3, <2>4, LenProperties
  <2>6. i # 1
    BY <1>5, <2>1, <2>2, <2>4
  <2>7. i - 1 \in DOMAIN Tail(handlers[h].rest) /\ Tail(handlers[h].rest)[i - 1] = handlers[h].rest[i]
    BY <2>4, <2>5, <2>6
  <2>8. y.here = handlers[h].here /\ y.act = handlers[h].act /\ y.step = "reading" /\ y.sees = handlers[h].sees
        /\ y.rest = Tail(handlers[h].rest)
    BY <1>3 DEF Handler
  <2>9. handlers'[h] = y
    BY <1>1
  <2> HIDE DEF y
  <2> QED BY <2>1, <2>2, <2>7, <2>8, <2>9 DEF Promised
<1> HIDE DEF y, again
<1>6. Elsewhere(again)
  <2>1. \A v \in Views(page) : shown'[v].lacks \subseteq shown[v].lacks /\ (v \notin again => shown'[v] = shown[v])
    BY <1>2, LoadingLacks
  <2>2. \A v : OnScreen(v)' => OnScreen(v)
    BY <1>1, OnScreenSame
  <2>3. \A v : v \notin again => \A x : Owed(x, v) => Owed(x, v)'
    BY <1>1, <1>5, OwedOn
  <2> QED BY <2>1, <2>2, <2>3 DEF Elsewhere
<1> QED BY <1>1, <1>2, <1>4, <1>6, AskingKeeps

\* Pick: every view asked for by what was picked is asked for again.
LEMMA PickSteady == ASSUME Typed, Steady, Pick PROVE Steady'
<1> DEFINE picked == {v \in DOMAIN shown : view(v).picked /\ OnScreen(v)}
           kept(v) == IF view(v).grows THEN Chosen(wire[v], {r \in Range(wire[v]) : r.more}) ELSE wire[v]
           r == Request(filter', 0)
<1>0. Same /\ open' = open /\ UNCHANGED handlers /\ filter' = 3 - filter /\ shown' = Loading(picked)
  BY DEF Pick, Same
<1>1. wire' = [v \in DOMAIN wire |-> IF v \in picked THEN Append(kept(v), r) ELSE wire[v]]
  BY DEF Pick
<1>2. filter' \in 1..2
  BY <1>0 DEF Typed, Viewed
<1>3. DOMAIN wire = Views(page) /\ \A v \in Views(page) : wire[v] \in Seq(Fitting(v)) /\ shown[v].lacks \subseteq Touching(v)
  BY DEF Typed, Viewed, Steady, Traced
<1>4. (\A v : r \in Fitting(v)) /\ r.lacks = {} /\ r.late = FALSE /\ r.of = filter'
  BY <1>2, RequestFits, 0 \in Nat
<1>5. \A v \in Views(page) : kept(v) \in Seq(Fitting(v))
  BY <1>3, ChosenTyped
<1>6. \A v \in Views(page) : v \notin picked => ~OnScreen(v) \/ ~view(v).picked
  BY DEF Typed, Viewed
<1> HIDE DEF picked, kept, r
<1>7. ASSUME NEW v \in Views(page)
      PROVE  /\ wire'[v] \in Seq(Fitting(v)) /\ (v \notin picked => wire'[v] = wire[v])
             /\ v \in picked => Awaited(wire'[v], shown'[v]) = r
  <2>1. wire'[v] = IF v \in picked THEN Append(kept(v), r) ELSE wire[v]
    BY <1>1, <1>3
  <2>2. /\ Append(kept(v), r) \in Seq(Fitting(v)) /\ Append(kept(v), r) # <<>>
        /\ Len(Append(kept(v), r)) = Len(kept(v)) + 1 /\ Append(kept(v), r)[Len(kept(v)) + 1] = r
    BY <1>4, <1>5, AppendProperties
  <2>3. CASE v \in picked
    BY <2>1, <2>2, <2>3 DEF Awaited
  <2>4. CASE v \notin picked
    BY <1>3, <2>1, <2>4
  <2> QED BY <2>3, <2>4
<1>8. \A v \in Views(page) : shown'[v].lacks = shown[v].lacks /\ (v \notin picked => shown'[v] = shown[v])
  BY <1>0, LoadingLacks
<1>9. Traced'
  BY <1>0, <1>3, <1>7, <1>8, TracedSame
<1>10. ASSUME NEW v \in Views(page), OnScreen(v)' PROVE Renewed(v) \/ Kept(v)
  <2>1. CASE v \in picked
    BY <1>4, <1>7, <2>1 DEF Renewed
  <2>2. CASE v \notin picked
    <3>1. wire'[v] = wire[v] /\ shown'[v] = shown[v]
      BY <1>7, <1>8, <2>2
    <3>2. Settles(wire[v], shown[v], wire'[v], shown'[v])
      BY <3>1, SameSettles
    <3>3. OnScreen(v) /\ ~view(v).picked
      BY <1>0, <1>6, <1>10, <2>2, OnScreenSame
    <3>4. \A x : Owed(x, v) => Owed(x, v)'
      BY <1>0, OwedSame
    <3> QED BY <3>2, <3>3, <3>4, KeptBy
  <2> QED BY <2>1, <2>2
<1>11. Fresh' /\ ByFilter'
  <2>1. Fresh /\ ByFilter
    BY DEF Steady
  <2> QED BY <1>0, <1>10, <2>1, Carried
<1> QED BY <1>9, <1>11 DEF Steady

-----------------------------------------------------------------------------
(* Answers.                                                                *)
\* The page shown is made well.
LEMMA PageMade ==
  ASSUME Typed
  PROVE  /\ PanelsFit(Panels)
         /\ FlagsFit(ScreenOf(page).views, Acts, Panels)
         /\ \A a \in DOMAIN Acts : ActFits(ScreenOf(page).views, Acts, Panels, a)
BY Path DEF Typed, Router, Made, WellMade, Acts, Panels

\* No handler changes what a view that grows shows.
LEMMA GrownAlone ==
  ASSUME Typed, NEW v \in Views(page), view(v).grows PROVE Touching(v) = {"others"}
BY PageMade DEF ActFits, Touching, view, Views

\* Land: the last request asked for is the one waited for; an answer to an older one leaves it on
\* its way, and its own makes the older ones late.
LEMMA LandSteady == ASSUME Typed, Steady, NEW v, NEW i, Land(v, i) PROVE Steady'
<1> DEFINE w == wire[v]
           s == shown[v]
           r == w[i]
           l == r.lacks \cup (IF r.more THEN s.lacks ELSE {})
           t == r.late \/ (r.more /\ s.late)
           got == [s EXCEPT !.has = TRUE, !.loading = FALSE, !.of = r.of, !.lacks = l, !.late = t]
<1>1. /\ v \in Views(page) /\ i \in DOMAIN wire[v] /\ Same /\ UNCHANGED <<open, filter, handlers>>
      /\ wire' = [wire EXCEPT ![v] = Without(v, i)] /\ DOMAIN wire = Views(page) /\ DOMAIN shown = Views(page)
  BY DEF Land, tab, Same, Typed, Viewed
<1>2. shown' = [shown EXCEPT ![v] = got]
  BY DEF Land
<1>3. w \in Seq(Fitting(v)) /\ s.lacks \subseteq Touching(v) /\ s \in ViewState
  BY <1>1 DEF Steady, Traced, Typed, Viewed
<1>4. Len(w) \in Nat /\ DOMAIN w = 1..Len(w) /\ i \in 1..Len(w) /\ \A j \in 1..Len(w) : w[j] \in Fitting(v)
  BY <1>1, <1>3, LenProperties
<1>5. r \in Asked /\ r.lacks \subseteq Touching(v) /\ (r.more => view(v).grows)
  BY <1>4 DEF Fitting
<1>6. l \subseteq Touching(v) /\ l \subseteq r.lacks \cup {"others"}
  BY <1>1, <1>3, <1>5, GrownAlone
<1>7. (~t => ~r.late) /\ t \in BOOLEAN
  OBVIOUS
<1> HIDE DEF w, s, r, l, t
<1>8. got.lacks = l /\ got.late = t /\ got.of = r.of
  BY <1>3 DEF ViewState
<1> HIDE DEF got
<1>9. wire'[v] = Without(v, i) /\ shown'[v] = got
      /\ \A u \in Views(page) : u # v => wire'[u] = wire[u] /\ shown'[u] = shown[u]
  BY <1>1, <1>2
<1>10. /\ Without(v, i) \in Seq(Asked) /\ Len(Without(v, i)) = Len(w) - 1
       /\ \A j \in 1..(Len(w) - 1) : Without(v, i)[j] = IF j < i THEN [w[j] EXCEPT !.late = TRUE] ELSE w[j + 1]
  BY <1>1, WithoutTyped DEF w
<1>11. Without(v, i) \in Seq(Fitting(v))
  <2> DEFINE x == Without(v, i)
  <2>1. \A q \in Fitting(v) : [q EXCEPT !.late = TRUE] \in Fitting(v)
    BY DEF Fitting, Asked
  <2>2. ASSUME NEW j \in 1..Len(x) PROVE x[j] \in Fitting(v)
    <3>1. j \in 1..(Len(w) - 1) /\ j \in 1..Len(w) /\ j + 1 \in 1..Len(w)
      BY <1>4, <1>10
    <3>2. w[j] \in Fitting(v) /\ w[j + 1] \in Fitting(v)
      BY <1>4, <3>1
    <3>3. x[j] = [w[j] EXCEPT !.late = TRUE] \/ x[j] = w[j + 1]
      BY <1>10, <3>1
    <3> HIDE DEF x
    <3> QED BY <2>1, <3>2, <3>3
  <2>3. x \in Seq(Asked)
    BY <1>10
  <2> HIDE DEF x
  <2>4. Len(x) \in Nat /\ DOMAIN x = 1..Len(x) /\ x = [j \in 1..Len(x) |-> x[j]]
    BY <2>3, LenProperties
  <2>5. x \in [1..Len(x) -> Fitting(v)]
    BY <2>2, <2>4
  <2> QED BY <2>4, <2>5, SeqOf DEF x
<1>12. Settles(w, s, Without(v, i), got)
  <2>0. w # <<>> /\ Awaited(w, s) = w[Len(w)] /\ Excused(w, s) = w[Len(w)].late
    <3>1. Len(w) # 0
      BY <1>4
    <3>2. w # <<>>
      BY <3>1, EmptySeq
    <3> QED BY <3>2 DEF Awaited, Excused
  <2>1. CASE Len(w) = 1
    <3>1. i = 1 /\ w[Len(w)] = r
      BY <1>4, <2>1 DEF r
    <3>2. Without(v, i) = <<>>
      BY <1>10, <2>1, EmptySeq
    <3>3. Awaited(Without(v, i), got) = got /\ (~Excused(Without(v, i), got) => ~got.late)
      BY <3>2 DEF Awaited, Excused
    <3> QED BY <1>6, <1>7, <1>8, <2>0, <3>1, <3>3 DEF Settles
  <2>2. CASE Len(w) # 1
    <3>1. Len(w) - 1 \in 1..(Len(w) - 1) /\ Without(v, i) # <<>>
      <4>1. Len(Without(v, i)) # 0 /\ Len(w) - 1 \in 1..(Len(w) - 1)
        BY <1>4, <1>10, <2>2
      <4> QED BY <4>1, EmptySeq
    <3>2. Without(v, i)[Len(w) - 1] = IF Len(w) - 1 < i THEN [w[Len(w) - 1] EXCEPT !.late = TRUE] ELSE w[Len(w)]
      BY <1>4, <1>10, <3>1
    <3>3. /\ Awaited(Without(v, i), got) = Without(v, i)[Len(w) - 1]
          /\ Excused(Without(v, i), got) = Without(v, i)[Len(w) - 1].late
      BY <1>10, <3>1 DEF Awaited, Excused
    <3>4. CASE Len(w) - 1 < i
      <4>1. w[Len(w) - 1] \in Asked
        BY <1>4, <2>2 DEF Fitting
      <4>2. Without(v, i)[Len(w) - 1].late
        BY <3>2, <3>4, <4>1 DEF Asked
      <4> QED BY <3>3, <4>2 DEF Settles
    <3>5. CASE ~(Len(w) - 1 < i)
      BY <2>0, <3>2, <3>3, <3>5 DEF Settles
    <3> QED BY <3>4, <3>5
  <2> QED BY <2>1, <2>2
<1>13. \A u \in Views(page) : Settles(wire[u], shown[u], wire'[u], shown'[u])
  <2>1. \A u \in Views(page) : u # v => Settles(wire[u], shown[u], wire'[u], shown'[u])
    BY <1>9, SameSettles
  <2>2. Settles(wire[v], shown[v], wire'[v], shown'[v])
    BY <1>9, <1>12 DEF w, s
  <2> QED BY <2>1, <2>2
<1>14. Traced'
  <2>1. \A u \in Views(page) : shown[u].lacks \subseteq Touching(u) /\ wire[u] \in Seq(Fitting(u))
    BY DEF Steady, Traced
  <2>2. \A u \in Views(page) : shown'[u].lacks \subseteq Touching(u) /\ wire'[u] \in Seq(Fitting(u))
    BY <1>6, <1>8, <1>9, <1>11, <2>1
  <2> QED BY <1>1, <2>2, TracedSame
<1>15. \A u : \A x : Owed(x, u) => Owed(x, u)'
  BY <1>1, OwedSame
<1>16. \A u : OnScreen(u)' => OnScreen(u)
  BY <1>1, OnScreenSame
<1> QED BY <1>1, <1>13, <1>14, <1>15, <1>16, SettlingKeeps

\* Fail: the last request that fails leaves the view failed.
LEMMA FailSteady == ASSUME Typed, Steady, NEW v, Fail(v) PROVE Steady'
<1> DEFINE w == wire[v]
           s == [shown[v] EXCEPT !.loading = FALSE, !.failed = TRUE]
<1>1. /\ v \in Views(page) /\ w # <<>> /\ Same /\ UNCHANGED <<filter, handlers>>
      /\ wire' = [wire EXCEPT ![v] = Tail(w)] /\ DOMAIN wire = Views(page) /\ DOMAIN shown = Views(page)
      /\ shown' = [shown EXCEPT ![v] = s]
      /\ open' = open \/ open' = Closed(view(v).panel)
  BY DEF Fail, Same, Typed, Viewed
<1>2. \A u \in Views(page) : shown[u].lacks \subseteq Touching(u) /\ wire[u] \in Seq(Fitting(u))
  BY DEF Steady, Traced
<1>3. s.failed /\ s.lacks = shown[v].lacks
  BY <1>1 DEF Typed, Viewed, ViewState
<1>4. w \in Seq(Fitting(v))
  BY <1>1, <1>2
<1> HIDE DEF w, s
<1>5. wire'[v] = Tail(w) /\ shown'[v] = s
      /\ \A u \in Views(page) : u # v => wire'[u] = wire[u] /\ shown'[u] = shown[u]
  BY <1>1
<1>6. /\ Tail(w) \in Seq(Fitting(v)) /\ Len(Tail(w)) = Len(w) - 1 /\ Len(w) \in Nat /\ Len(w) # 0
      /\ \A j \in 1..Len(Tail(w)) : Tail(w)[j] = w[j + 1]
  <2>1. /\ Tail(w) \in Seq(Fitting(v)) /\ Len(Tail(w)) = Len(w) - 1
        /\ \A j \in 1..Len(Tail(w)) : Tail(w)[j] = w[j + 1]
    BY <1>1, <1>4, HeadTailProperties
  <2>2. Len(w) \in Nat /\ Len(w) # 0
    BY <1>1, <1>4, EmptySeq, LenProperties
  <2> QED BY <2>1, <2>2
<1>7. Settles(w, shown[v], Tail(w), s)
  <2>1. CASE Len(w) = 1
    <3>1. Tail(w) = <<>>
      <4> DEFINE x == Tail(w)
      <4>1. x \in Seq(Fitting(v)) /\ Len(x) = 0
        BY <1>6, <2>1
      <4> HIDE DEF x
      <4>2. x = <<>>
        BY <4>1, EmptySeq
      <4> QED BY <4>2 DEF x
    <3> QED BY <1>3, <3>1 DEF Settles, Excused
  <2>2. CASE Len(w) # 1
    <3>1. Len(Tail(w)) # 0 /\ Len(w) - 1 \in 1..Len(Tail(w))
      BY <1>6, <2>2
    <3>2. Tail(w) # <<>>
      BY <3>1, EmptySeq
    <3>3. Tail(w)[Len(Tail(w))] = w[Len(w)]
      BY <1>6, <3>1
    <3> QED BY <1>1, <3>2, <3>3 DEF Settles, Excused, Awaited
  <2> QED BY <2>1, <2>2
<1>8. \A u \in Views(page) : Settles(wire[u], shown[u], wire'[u], shown'[u])
  <2>1. \A u \in Views(page) : u # v => Settles(wire[u], shown[u], wire'[u], shown'[u])
    BY <1>5, SameSettles
  <2>2. Settles(wire[v], shown[v], wire'[v], shown'[v])
    BY <1>5, <1>7 DEF w
  <2> QED BY <2>1, <2>2
<1>9. Traced'
  <2>1. \A u \in Views(page) : shown'[u].lacks \subseteq Touching(u) /\ wire'[u] \in Seq(Fitting(u))
    BY <1>2, <1>3, <1>5, <1>6
  <2> QED BY <1>1, <2>1, TracedSame
<1>10. \A u : \A x : Owed(x, u) => Owed(x, u)'
  BY <1>1, OwedSame
<1>11. \A u : OnScreen(u)' => OnScreen(u)
  BY <1>1, OnScreenSame, OnScreenClosed
<1> QED BY <1>1, <1>8, <1>9, <1>10, <1>11, SettlingKeeps

-----------------------------------------------------------------------------
(* Dialogs and the handlers of their forms.                                *)
\* The dialogs open: each was opened from the ones below it.
Stacked == \A j \in DOMAIN open : /\ open[j] # "page"
                                  /\ \A i \in DOMAIN open : i < j => open[i] # open[j] /\ open[j] \in Panels[open[i]].opens

\* A handler as it was begun: the page's own, from a panel whose views it knows, with all to ask for
\* again until the answer has come.
Known(y) == /\ y.act \in DOMAIN Acts /\ y.changes = Acts[y.act].changes
            /\ \E p \in DOMAIN Panels : /\ y.act \in Panels[p].offers
                                        /\ \A v \in Views(page) : view(v).panel \in {"page", p} => v \in y.sees
            /\ y.step \in {"called", "answered"} => y.rest = Acts[y.act].then

\* The handler of a form whose call is on its way, and that form on top.
Bound(y) == y.here /\ y.step \in {"called", "answered"} /\ Modal(Acts, y.act)
Atop(y) == /\ open # <<>> /\ top = Acts[y.act].closes
           /\ \A v \in Views(page) : OnScreen(v) => v \in y.sees

\* A handler that has a flag of its own and has not let it fall.
Holding(y) == /\ y.here /\ Tight(Acts, y.act)
              /\ y.step = "reading" => "end" \in Acts[y.act].falls

\* Two handlers that do not hold the same flag.
Apart(y, z) == ~(Holding(y) /\ Holding(z) /\ Acts[y.act].flag = Acts[z.act].flag)

\* What is held is up.
Held == \A h \in DOMAIN handlers : Holding(handlers[h]) => Acts[handlers[h].act].flag \in raised

\* The handlers, as they were begun.
Begun == /\ \A h \in DOMAIN handlers :
              /\ handlers[h].here => Known(handlers[h])
              /\ handlers[h].step \in {"answered", "reading", "refused"} => handlers[h].here
              /\ Bound(handlers[h]) => Atop(handlers[h])
         /\ \A h \in DOMAIN handlers, k \in DOMAIN handlers : h # k => Apart(handlers[h], handlers[k])
         /\ Held

\* The top panel is one of the page's; what it shows is on the screen.
LEMMA TopIs ==
  ASSUME Typed
  PROVE  /\ top \in DOMAIN Panels /\ (top # "page" => open # <<>>)
         /\ open # <<>> => Len(open) \in DOMAIN open /\ top = open[Len(open)]
         /\ \A v : view(v).panel \in {"page", top} => OnScreen(v)
<1>1. open \in Seq(DOMAIN Panels) /\ "page" \in DOMAIN Panels
  BY PageMade DEF Typed, Viewed, PanelsFit
<1>2. Len(open) \in Nat /\ DOMAIN open = 1..Len(open) /\ \A i \in 1..Len(open) : open[i] \in DOMAIN Panels
  BY <1>1, LenProperties
<1>3. CASE open = <<>>
  BY <1>1, <1>3 DEF top, OnScreen
<1>4. CASE open # <<>>
  <2>1. Len(open) # 0
    BY <1>1, <1>4, EmptySeq
  <2>2. Len(open) \in DOMAIN open /\ top = open[Len(open)]
    BY <1>2, <1>4, <2>1 DEF top
  <2>3. top \in Range(open)
    BY <2>2 DEF Range
  <2> QED BY <1>2, <1>4, <2>2, <2>3 DEF OnScreen
<1> QED BY <1>3, <1>4

\* The handler of a dialog's form holds it open, and on top.
LEMMA BoundTop ==
  ASSUME Typed, Begun, NEW h \in DOMAIN handlers, Bound(handlers[h])
  PROVE  /\ open # <<>> /\ top = Acts[handlers[h].act].closes /\ Panels[top].opens = {}
         /\ Panels[top].locked = Acts[handlers[h].act].flag /\ Acts[handlers[h].act].flag # NoFlag
<1>1. Atop(handlers[h]) /\ Known(handlers[h]) /\ Modal(Acts, handlers[h].act)
  BY DEF Begun, Bound
<1>2. PICK p \in DOMAIN Panels : handlers[h].act \in Panels[p].offers
  BY <1>1 DEF Known
<1>3. ActFits(ScreenOf(page).views, Acts, Panels, handlers[h].act)
  BY <1>1, PageMade DEF Known
<1> QED BY <1>1, <1>2, <1>3 DEF ActFits, Atop, Modal

\* One dialog's form at a time.
LEMMA OneBound ==
  ASSUME Typed, Begun, NEW h \in DOMAIN handlers, NEW k \in DOMAIN handlers,
         Bound(handlers[h]), Bound(handlers[k])
  PROVE  h = k
<1>1. Holding(handlers[h]) /\ Holding(handlers[k])
  BY DEF Bound, Holding, Modal
<1>2. Acts[handlers[h].act].flag = Acts[handlers[k].act].flag
  BY BoundTop
<1> QED BY <1>1, <1>2 DEF Begun, Apart

\* What is known of a handler depends on the page alone.
LEMMA KnownSame == ASSUME Same, NEW y PROVE Known(y)' = Known(y) /\ Bound(y)' = Bound(y)
BY DEF Same, Known, Bound, Acts, Panels, Views, view

\* So does what it holds.
LEMMA HoldingSame == ASSUME Same, NEW y PROVE Holding(y)' = Holding(y)
BY DEF Same, Holding, Acts

\* So does whether two hold the same flag.
LEMMA ApartSame == ASSUME Same, NEW y, NEW z PROVE Apart(y, z)' = Apart(y, z)
BY HoldingSame DEF Same, Apart, Acts

\* The flags that no preview lends stay up.
Firm == \A f \in raised : f \notin Lent \cup {NoFlag} => f \in raised'

\* As long as they and the handlers stay, what is held is up.
LEMMA HeldSame == ASSUME Begun, Same, UNCHANGED handlers, Firm PROVE Held'
<1>1. \A h \in DOMAIN handlers : Holding(handlers[h]) => Acts[handlers[h].act].flag \in raised'
  BY DEF Begun, Held, Holding, Tight, Firm
<1>2. Acts' = Acts
  BY DEF Same, Acts
<1> QED BY <1>1, <1>2, HoldingSame DEF Held

\* What is over a handler's dialog depends on the dialogs open.
LEMMA AtopSame == ASSUME Same, open' = open, NEW y PROVE Atop(y)' = Atop(y)
BY OnScreenSame DEF Same, Atop, Acts, Views, top

\* As long as the dialogs stay, they are stacked.
LEMMA StackedSame == ASSUME Typed, Stacked, Same, open' = open PROVE Stacked'
BY RouterSame DEF Stacked

\* As long as the dialogs and the handlers stay, the handlers are as they were begun.
LEMMA BegunSame == ASSUME Begun, Same, open' = open, UNCHANGED handlers, Firm PROVE Begun'
BY KnownSame, ApartSame, AtopSame, HeldSame DEF Begun

\* One handler moves on; it may let its flag fall when no other holds it.
LEMMA HeldOn ==
  ASSUME Typed, Begun, Same, NEW h \in DOMAIN handlers, NEW y, handlers' = [handlers EXCEPT ![h] = y],
         Holding(y) => Holding(handlers[h]) /\ y.act = handlers[h].act,
         \/ raised' = raised
         \/ /\ raised' = raised \ {Acts[handlers[h].act].flag} /\ ~Holding(y)
            /\ handlers[h].here /\ (Tight(Acts, handlers[h].act) => Holding(handlers[h]))
  PROVE  Held'
<1>1. /\ DOMAIN handlers' = DOMAIN handlers /\ handlers'[h] = y
      /\ \A k \in DOMAIN handlers : k # h => handlers'[k] = handlers[k]
  OBVIOUS
<1>2. \A k \in DOMAIN handlers : Holding(handlers[k]) => Acts[handlers[k].act].flag \in raised
  BY DEF Begun, Held
<1>3. CASE raised' = raised
  <2>1. \A k \in DOMAIN handlers' : Holding(handlers'[k]) => Acts[handlers'[k].act].flag \in raised'
    BY <1>1, <1>2, <1>3
  <2> QED BY <2>1, HoldingSame DEF Held, Same, Acts
<1>4. CASE /\ raised' = raised \ {Acts[handlers[h].act].flag} /\ ~Holding(y)
           /\ handlers[h].here /\ (Tight(Acts, handlers[h].act) => Holding(handlers[h]))
  <2>1. ASSUME NEW k \in DOMAIN handlers, k # h, Holding(handlers[k])
        PROVE  Acts[handlers[k].act].flag # Acts[handlers[h].act].flag
    <3> SUFFICES ASSUME Acts[handlers[k].act].flag = Acts[handlers[h].act].flag PROVE FALSE
      OBVIOUS
    <3>1. handlers[k].act \in DOMAIN Acts /\ handlers[h].act \in DOMAIN Acts
      BY <1>4, <2>1 DEF Begun, Known, Holding
    <3>2. Acts[handlers[k].act].flag \notin Lent \cup {NoFlag}
      BY <2>1 DEF Holding, Tight
    <3>3. Acts[handlers[k].act].falls = Acts[handlers[h].act].falls
      BY <3>1, <3>2, PageMade DEF FlagsFit
    <3>4. Tight(Acts, handlers[h].act)
      BY <2>1, <3>3 DEF Holding, Tight
    <3> QED BY <1>4, <2>1, <3>4 DEF Begun, Apart
  <2>2. \A k \in DOMAIN handlers' : Holding(handlers'[k]) => Acts[handlers'[k].act].flag \in raised'
    BY <1>1, <1>2, <1>4, <2>1
  <2> QED BY <2>2, HoldingSame DEF Held, Same, Acts
<1> QED BY <1>3, <1>4

\* It stays as it was begun, and so do the others, if no form on top is uncovered or covered.
LEMMA BegunMoves ==
  ASSUME Typed, Begun, Same, NEW h \in DOMAIN handlers, NEW y,
         (\E k \in DOMAIN handlers : Bound(handlers[k])) => \A z : Atop(z) => Atop(z)',
         handlers' = [handlers EXCEPT ![h] = y], Held',
         y.here => handlers[h].here /\ Known(y) /\ y.act = handlers[h].act,
         Holding(y) => Holding(handlers[h]),
         Bound(y) => Bound(handlers[h]) /\ y.sees = handlers[h].sees,
         y.step \in {"answered", "reading", "refused"} => y.here
  PROVE  Begun'
<1>1. /\ DOMAIN handlers' = DOMAIN handlers /\ handlers'[h] = y
      /\ \A k \in DOMAIN handlers : k # h => handlers'[k] = handlers[k]
  OBVIOUS
<1>2. Bound(y) => Atop(y) /\ \E k \in DOMAIN handlers : Bound(handlers[k])
  <2> SUFFICES ASSUME Bound(y) PROVE Atop(y) /\ \E k \in DOMAIN handlers : Bound(handlers[k])
    OBVIOUS
  <2>1. Atop(handlers[h]) /\ y.act = handlers[h].act /\ y.sees = handlers[h].sees
    BY DEF Begun, Bound
  <2> QED BY <2>1 DEF Atop
<1>3. \A k \in DOMAIN handlers : k # h => Apart(y, handlers[k]) /\ Apart(handlers[k], y)
  BY DEF Begun, Apart, Holding
<1>4. ASSUME NEW k \in DOMAIN handlers'
      PROVE  /\ handlers'[k].here => Known(handlers'[k])
             /\ handlers'[k].step \in {"answered", "reading", "refused"} => handlers'[k].here
             /\ Bound(handlers'[k]) => Atop(handlers'[k]) /\ \E m \in DOMAIN handlers : Bound(handlers[m])
  BY <1>1, <1>2, <1>4 DEF Begun
<1>5. \A z : (\E k \in DOMAIN handlers : Bound(handlers[k])) /\ Atop(z) => Atop(z)'
  OBVIOUS
<1>6. ASSUME NEW k \in DOMAIN handlers', NEW m \in DOMAIN handlers', k # m PROVE Apart(handlers'[k], handlers'[m])
  BY <1>1, <1>3, <1>6 DEF Begun
<1> QED BY <1>4, <1>5, <1>6, KnownSame, ApartSame DEF Begun

\* One handler moves on under the same dialogs.
LEMMA BegunOn ==
  ASSUME Typed, Begun, Same, open' = open, NEW h \in DOMAIN handlers, NEW y,
         handlers' = [handlers EXCEPT ![h] = y], Held',
         y.here => handlers[h].here /\ Known(y) /\ y.act = handlers[h].act,
         Holding(y) => Holding(handlers[h]),
         Bound(y) => Bound(handlers[h]) /\ y.sees = handlers[h].sees,
         y.step \in {"answered", "reading", "refused"} => y.here
  PROVE  Begun'
<1>1. \A z : Atop(z) => Atop(z)'
  BY AtopSame
<1> QED BY <1>1, BegunMoves

-----------------------------------------------------------------------------
(* Writes.                                                                 *)
\* A write that is owed to the views it changes.
LEMMA WriteSteady ==
  ASSUME Typed, Steady, Same, UNCHANGED <<open, filter>>, NEW parts, NEW who \in Own, Write(parts, who),
         \A v \in Views(page) : view(v).shows \cap parts # {} => who \in Touching(v),
         \A v : \A x : Owed(x, v) => Owed(x, v)',
         \A v : Owed(who, v)'
  PROVE  Steady'
<1>1. \A v \in Views(page) : Written(v, parts, who)
  BY WriteTyped
<1>2. Viewed'
  BY WriteTyped
<1>3. ASSUME NEW v \in Views(page)
      PROVE  /\ shown'[v].lacks \subseteq Touching(v) /\ shown'[v].lacks \subseteq shown[v].lacks \cup {who}
             /\ shown'[v].of = shown[v].of
             /\ Excused(<<>>, shown'[v]) = Excused(<<>>, shown[v])
  <2>1. shown[v] \in ViewState /\ shown[v].lacks \subseteq Touching(v)
    BY DEF Typed, Viewed, Steady, Traced
  <2>2. CASE shown'[v] = shown[v]
    BY <2>1, <2>2
  <2>3. CASE view(v).shows \cap parts # {} /\ shown'[v] = [shown[v] EXCEPT !.lacks = @ \cup {who}]
    <3> DEFINE s == [shown[v] EXCEPT !.lacks = @ \cup {who}]
    <3>1. s.lacks = shown[v].lacks \cup {who} /\ s.of = shown[v].of
      BY <2>1 DEF ViewState
    <3>2. s.has = shown[v].has /\ s.late = shown[v].late /\ s.failed = shown[v].failed
      BY <2>1 DEF ViewState
    <3>3. who \in Touching(v)
      BY <2>3
    <3> HIDE DEF s
    <3>4. Excused(<<>>, s) = Excused(<<>>, shown[v])
      BY <3>2 DEF Excused
    <3> QED BY <2>1, <2>3, <3>1, <3>3, <3>4 DEF s
  <2> QED BY <1>1, <2>2, <2>3 DEF Written
<1>4. ASSUME NEW v \in Views(page), NEW i \in DOMAIN wire[v]
      PROVE  /\ wire'[v][i] \in Fitting(v) /\ wire'[v][i].lacks \subseteq wire[v][i].lacks \cup {who}
             /\ wire'[v][i].of = wire[v][i].of /\ wire'[v][i].late = wire[v][i].late
  <2>1. wire[v] \in Seq(Fitting(v))
    BY DEF Steady, Traced
  <2>2. wire[v][i] \in Fitting(v) /\ wire[v][i] \in Asked
    BY <2>1, LenProperties DEF Fitting
  <2>3. CASE wire'[v][i] = wire[v][i]
    BY <2>2, <2>3
  <2>4. CASE view(v).shows \cap parts # {} /\ wire'[v][i] = [wire[v][i] EXCEPT !.read = TRUE, !.lacks = @ \cup {who}]
    <3> DEFINE r == wire[v][i]
               q == [r EXCEPT !.read = TRUE, !.lacks = @ \cup {who}]
    <3>1. who \in Touching(v) /\ q = wire'[v][i]
      BY <2>4
    <3> HIDE DEF r
    <3>2. r \in Asked /\ r \in Fitting(v)
      BY <2>2 DEF r
    <3>3. q \in Asked /\ q.lacks = r.lacks \cup {who} /\ q.of = r.of /\ q.late = r.late /\ q.more = r.more
      BY <3>2 DEF Asked
    <3> HIDE DEF q
    <3>4. q \in Fitting(v)
      BY <3>1, <3>2, <3>3 DEF Fitting
    <3> QED BY <3>1, <3>3, <3>4 DEF r
  <2> QED BY <1>1, <2>3, <2>4 DEF Written
<1>5. ASSUME NEW v \in Views(page)
      PROVE  /\ wire'[v] \in Seq(Fitting(v)) /\ (wire'[v] = <<>> <=> wire[v] = <<>>)
             /\ wire[v] # <<>> => Len(wire[v]) \in DOMAIN wire[v]
  <2>1. wire'[v] \in Seq(Asked) /\ wire[v] \in Seq(Asked) /\ Len(wire'[v]) = Len(wire[v])
    <3>1. page' = page
      BY DEF Same
    <3> QED BY <1>1, <1>2, <3>1 DEF Viewed, Typed, Written
  <2>2. (wire'[v] = <<>> <=> wire[v] = <<>>)
    BY <2>1, EmptySeq
  <2>3. /\ Len(wire[v]) \in Nat /\ DOMAIN wire[v] = 1..Len(wire[v]) /\ wire'[v] = [i \in 1..Len(wire[v]) |-> wire'[v][i]]
    BY <2>1, LenProperties
  <2>4. wire'[v] \in [1..Len(wire[v]) -> Fitting(v)]
    BY <1>4, <2>3
  <2>5. wire[v] # <<>> => Len(wire[v]) # 0
    BY <2>1, EmptySeq
  <2> QED BY <2>2, <2>3, <2>4, <2>5, SeqOf
<1>6. Traced'
  BY <1>3, <1>5, TracedSame
<1>7. ASSUME NEW v \in Views(page), OnScreen(v)' PROVE Kept(v)
  <2>1. /\ Excused(wire'[v], shown'[v]) = Excused(wire[v], shown[v])
        /\ Awaited(wire'[v], shown'[v]).of = Awaited(wire[v], shown[v]).of
        /\ Awaited(wire'[v], shown'[v]).lacks \subseteq Awaited(wire[v], shown[v]).lacks \cup {who}
    <3>1. CASE wire[v] = <<>>
      BY <1>3, <1>5, <3>1 DEF Awaited, Excused
    <3>2. CASE wire[v] # <<>>
      <4>1. wire'[v] # <<>> /\ Len(wire'[v]) = Len(wire[v]) /\ Len(wire[v]) \in DOMAIN wire[v]
        BY <1>1, <1>5, <3>2 DEF Written
      <4> QED BY <1>4, <3>2, <4>1 DEF Awaited, Excused
    <3> QED BY <3>1, <3>2
  <2>2. OnScreen(v) /\ filter' = filter
    BY <1>7, OnScreenSame
  <2>3. \A x \in Awaited(wire'[v], shown'[v]).lacks :
           (x \in Awaited(wire[v], shown[v]).lacks => Owed(x, v)) => Owed(x, v)'
    BY <2>1
  <2> QED BY <2>1, <2>2, <2>3 DEF Kept
<1>8. Fresh' /\ ByFilter'
  <2>1. Fresh /\ ByFilter
    BY DEF Steady
  <2> QED BY <1>7, <2>1, Carried
<1> QED BY <1>6, <1>8 DEF Steady

\* Others: what others write, nobody owes.
LEMMA OthersSteady == ASSUME Typed, Steady, NEW part, Others(part) PROVE Steady'
<1>1. Same /\ UNCHANGED <<open, filter>> /\ UNCHANGED handlers /\ Write({part}, "others")
  BY DEF Others, tab, Same
<1>2. \A v : "others" \in Touching(v) /\ Owed("others", v)'
  BY DEF Touching, Owed
<1>3. \A v : \A x : Owed(x, v) => Owed(x, v)'
  BY <1>1, OwedSame
<1> QED BY <1>1, <1>2, <1>3, OthersOwn, WriteSteady

\* Serve: what a call has changed, its handler owes from the answer on; a lost answer makes it
\* somebody else's write.
LEMMA ServeKeeps ==
  ASSUME Typed, Steady, Begun, NEW h \in DOMAIN handlers, Serve(h) PROVE Steady' /\ Begun'
<1>1. PICK lost \in BOOLEAN :
        /\ Write(handlers[h].changes, IF handlers[h].here /\ ~lost THEN handlers[h].act ELSE "others")
        /\ handlers' = [handlers EXCEPT ![h] =
             IF handlers[h].here THEN [handlers[h] EXCEPT !.step = IF lost THEN "refused" ELSE "answered"]
             ELSE Done]
  BY DEF Serve
<1> DEFINE who == IF handlers[h].here /\ ~lost THEN handlers[h].act ELSE "others"
           to == IF lost THEN "refused" ELSE "answered"
           y == IF handlers[h].here THEN [handlers[h] EXCEPT !.step = to] ELSE Done
<1>2. Same /\ UNCHANGED <<open, filter, raised>> /\ handlers[h].step = "called"
  BY DEF Serve, tab, Same
<1>3. handlers[h] \in Handler /\ (handlers[h].here => handlers[h].act \in DOMAIN Acts)
  BY HandlerAt DEF Typed
<1>4. who \in Own
  BY <1>3, OthersOwn, Path DEF Typed, Router, Acts
<1>5. Write(handlers[h].changes, who) /\ handlers' = [handlers EXCEPT ![h] = y] /\ handlers'[h] = y
  BY <1>1
<1>6. /\ y.here => /\ handlers[h].here /\ y.act = handlers[h].act /\ y.changes = handlers[h].changes
                   /\ y.rest = handlers[h].rest /\ y.sees = handlers[h].sees /\ y.step = to
      /\ handlers[h].here => y.here
  <2> HIDE DEF to
  <2> QED BY <1>3, DoneAway DEF Handler
<1>7. to \in {"answered", "refused"} /\ (~lost => to = "answered")
  OBVIOUS
<1>8. handlers[h].here => Known(handlers[h])
  BY DEF Begun
<1>20. y.step \in {"answered", "reading", "refused"} => y.here
  <2>1. CASE handlers[h].here
    BY <1>6, <2>1
  <2>2. CASE ~handlers[h].here
    BY <2>2 DEF Done
  <2> QED BY <2>1, <2>2
<1> HIDE DEF y, to
<1>9. y.here => handlers[h].here /\ Known(y) /\ y.act = handlers[h].act
  BY <1>2, <1>6, <1>8 DEF Known
<1>10. Bound(y) => Bound(handlers[h]) /\ y.sees = handlers[h].sees
  BY <1>2, <1>6 DEF Bound
<1>21. Holding(y) => Holding(handlers[h]) /\ y.act = handlers[h].act
  BY <1>2, <1>6 DEF Holding
<1>11. Begun'
  <2>1. Held'
    BY <1>2, <1>5, <1>21, HeldOn
  <2> QED BY <1>2, <1>5, <1>9, <1>10, <1>20, <1>21, <2>1, BegunOn
<1>12. \A v : \A x : ~Promised(h, x, v)
  BY <1>2 DEF Promised
<1>13. \A v : \A x : Owed(x, v) => Owed(x, v)'
  BY <1>5, <1>12, OwedOn
<1>14. PICK w \in Own : w = who
  BY <1>4
<1>15. \A v : Owed(w, v)'
  <2>1. CASE handlers[h].here /\ ~lost
    <3>1. \A v : Promised(h, w, v)'
      BY <1>5, <1>6, <1>7, <1>14, <2>1 DEF Promised
    <3>2. h \in DOMAIN handlers'
      BY <1>5
    <3> QED BY <3>1, <3>2 DEF Owed
  <2>2. CASE ~(handlers[h].here /\ ~lost)
    BY <1>14, <2>2 DEF Owed
  <2> QED BY <2>1, <2>2
<1>16. \A v \in Views(page) : view(v).shows \cap handlers[h].changes # {} => w \in Touching(v)
  <2>1. CASE handlers[h].here /\ ~lost
    <3>1. w \in DOMAIN Acts /\ handlers[h].changes = Acts[w].changes
      BY <1>8, <1>14, <2>1 DEF Known
    <3> QED BY <3>1 DEF Touching, Touches, view
  <2>2. CASE ~(handlers[h].here /\ ~lost)
    BY <1>14, <2>2 DEF Touching
  <2> QED BY <2>1, <2>2
<1>17. PICK changes : changes = handlers[h].changes
  OBVIOUS
<1>18. Write(changes, w)
  BY <1>5, <1>14, <1>17
<1> HIDE DEF who
<1>19. Steady'
  BY <1>2, <1>13, <1>15, <1>16, <1>17, <1>18, WriteSteady
<1> QED BY <1>11, <1>19

-----------------------------------------------------------------------------
(* Handlers begun and dialogs opened.                                      *)
\* Refuse.
LEMMA RefuseBegun == ASSUME Typed, Begun, NEW h \in DOMAIN handlers, Refuse(h) PROVE Begun'
<1> DEFINE y == IF handlers[h].here THEN [handlers[h] EXCEPT !.step = "refused"] ELSE Done
<1>1. /\ Same /\ open' = open /\ raised' = raised /\ handlers' = [handlers EXCEPT ![h] = y]
      /\ handlers[h].step = "called"
  BY DEF Refuse, tab, Same
<1>2. handlers[h] \in Handler /\ (handlers[h].here => Known(handlers[h]))
  BY HandlerAt DEF Typed, Begun
<1>3. CASE handlers[h].here
  <2>1. /\ y.step = "refused" /\ y.act = handlers[h].act /\ y.changes = handlers[h].changes
        /\ y.sees = handlers[h].sees /\ y.here
    BY <1>2, <1>3 DEF Handler
  <2> HIDE DEF y
  <2>2. Known(y) /\ ~Bound(y) /\ (Holding(y) => Holding(handlers[h]))
    BY <1>1, <1>2, <1>3, <2>1 DEF Known, Bound, Holding
  <2>3. Held'
    BY <1>1, <2>1, <2>2, HeldOn
  <2> QED BY <1>1, <1>3, <2>1, <2>2, <2>3, BegunOn
<1>4. CASE ~handlers[h].here
  <2>1. y = Done
    BY <1>4
  <2>2. ~y.here /\ ~Bound(y) /\ ~Holding(y) /\ y.step = "done"
    BY <2>1 DEF Done, Bound, Holding
  <2> HIDE DEF y
  <2>3. Held'
    BY <1>1, <2>2, HeldOn
  <2> QED BY <1>1, <2>2, <2>3, BegunOn
<1> QED BY <1>3, <1>4

\* Finish.
LEMMA FinishBegun == ASSUME Typed, Begun, NEW h \in DOMAIN handlers, Finish(h) PROVE Begun'
<1>1. Same /\ open' = open /\ handlers' = [handlers EXCEPT ![h] = Done]
  BY DEF Finish, Same
<1>2. ~Done.here /\ ~Bound(Done) /\ ~Holding(Done) /\ Done.step = "done"
  BY DEF Done, Bound, Holding
<1> DEFINE a == handlers[h].act
<1>3. /\ handlers[h].step \in {"reading", "refused"}
      /\ \/ raised' = raised
         \/ /\ raised' = raised \ {Acts[a].flag}
            /\ handlers[h].step = "reading" => "end" \in Acts[a].falls
  BY DEF Finish, Lowered, act, Acts
<1>4. handlers[h].here
  BY <1>3 DEF Begun
<1>5. \/ raised' = raised
      \/ raised' = raised \ {Acts[a].flag} /\ (Tight(Acts, a) => Holding(handlers[h]))
  BY <1>3, <1>4 DEF Holding
<1>6. Held'
  BY <1>1, <1>2, <1>4, <1>5, HeldOn
<1> QED BY <1>1, <1>2, <1>6, BegunOn

\* Reread.
LEMMA RereadBegun == ASSUME Typed, Begun, NEW h \in DOMAIN handlers, Reread(h) PROVE Begun'
<1> DEFINE y == [handlers[h] EXCEPT !.rest = Tail(@)]
<1>1. Same /\ UNCHANGED <<open, raised>> /\ handlers' = [handlers EXCEPT ![h] = y] /\ handlers[h].step = "reading"
  BY DEF Reread, tab, Same
<1>2. handlers[h] \in Handler /\ (handlers[h].here => Known(handlers[h]))
  BY HandlerAt DEF Typed, Begun
<1>3. /\ y.here = handlers[h].here /\ y.step = "reading" /\ y.act = handlers[h].act
      /\ y.changes = handlers[h].changes /\ y.sees = handlers[h].sees
  BY <1>1, <1>2 DEF Handler
<1> HIDE DEF y
<1>4. (y.here => Known(y)) /\ ~Bound(y)
  BY <1>2, <1>3 DEF Known, Bound
<1>5. handlers[h].here /\ (Holding(y) => Holding(handlers[h]))
  BY <1>1, <1>3 DEF Begun, Holding
<1>6. Held'
  BY <1>1, <1>3, <1>5, HeldOn
<1> QED BY <1>1, <1>3, <1>4, <1>5, <1>6, BegunOn

\* Two handlers begun by one dialog share its flag, and the flag is asked for first.
LEMMA BeginBegun == ASSUME Typed, Begun, NEW a \in DOMAIN Acts, Begin(a) PROVE Begun'
<1> DEFINE x == [act |-> a, step |-> "called", here |-> TRUE, changes |-> act(a).changes, rest |-> act(a).then,
                 sees |-> {v \in DOMAIN shown : OnScreen(v)}, filter |-> filter]
           new == Len(handlers) + 1
<1>1. /\ Same /\ open' = open /\ handlers' = Append(handlers, x) /\ a \in panel.offers
      /\ Acts[a].flag \notin raised /\ raised' = raised \cup ({Acts[a].flag} \ {NoFlag})
  BY DEF Begin, Same, Busy, act, Acts
<1>2. /\ x.act = a /\ x.step = "called" /\ x.here /\ x.changes = Acts[a].changes /\ x.rest = Acts[a].then
      /\ \A v \in Views(page) : OnScreen(v) => v \in x.sees
  BY DEF Acts, act, Typed, Viewed
<1>3. top \in DOMAIN Panels /\ a \in Panels[top].offers
  BY <1>1, TopIs DEF panel, Panels
<1> HIDE DEF x
<1>4. Known(x)
  <2>1. \A v \in Views(page) : view(v).panel \in {"page", top} => v \in x.sees
    BY <1>2, TopIs
  <2> QED BY <1>2, <1>3, <2>1 DEF Known
<1>5. Bound(x) => Atop(x)
  <2> SUFFICES ASSUME Bound(x) PROVE Atop(x)
    OBVIOUS
  <2>1. Modal(Acts, a)
    BY <1>2 DEF Bound
  <2>2. top = Acts[a].closes
    BY <1>3, <2>1, PageMade DEF ActFits, Modal
  <2>3. open # <<>>
    BY <2>1, <2>2, TopIs DEF Modal
  <2> QED BY <1>2, <2>2, <2>3 DEF Atop
<1>6. \A h \in DOMAIN handlers : Apart(handlers[h], x) /\ Apart(x, handlers[h])
  BY <1>1, <1>2 DEF Apart, Begun, Held
<1>7. /\ new \notin DOMAIN handlers /\ DOMAIN handlers' = DOMAIN handlers \cup {new} /\ handlers'[new] = x
      /\ \A h \in DOMAIN handlers : handlers'[h] = handlers[h]
  BY <1>1, Began
<1> HIDE DEF new
<1>8. ASSUME NEW h \in DOMAIN handlers'
      PROVE  /\ handlers'[h].here => Known(handlers'[h])
             /\ handlers'[h].step \in {"answered", "reading", "refused"} => handlers'[h].here
             /\ Bound(handlers'[h]) => Atop(handlers'[h])
  <2>1. CASE h = new
    BY <1>2, <1>4, <1>5, <1>7, <2>1
  <2>2. CASE h \in DOMAIN handlers
    BY <1>7, <2>2 DEF Begun
  <2> QED BY <1>7, <2>1, <2>2
<1>9. ASSUME NEW h \in DOMAIN handlers', NEW k \in DOMAIN handlers', h # k PROVE Apart(handlers'[h], handlers'[k])
  BY <1>6, <1>7, <1>9 DEF Begun
<1>10. Held'
  <2>1. \A h \in DOMAIN handlers' : Holding(handlers'[h]) => Acts[handlers'[h].act].flag \in raised'
    BY <1>1, <1>2, <1>7 DEF Begun, Held, Holding, Tight
  <2> QED BY <1>1, <2>1, HoldingSame DEF Held, Same, Acts
<1> QED BY <1>1, <1>8, <1>9, <1>10, KnownSame, ApartSame, AtopSame DEF Begun

\* Dialogs come and go while no form holds one.
LEMMA BegunFree ==
  ASSUME Typed, Begun, Same, UNCHANGED handlers, Firm, \A h \in DOMAIN handlers : ~Bound(handlers[h])
  PROVE  Begun'
BY KnownSame, ApartSame, HeldSame DEF Begun

\* No dialog opens over a form whose call is on its way.
LEMMA OpenDialogFree ==
  ASSUME Typed, Begun, NEW p, p \in panel.opens PROVE \A h \in DOMAIN handlers : ~Bound(handlers[h])
BY BoundTop DEF panel, Panels

\* Nor is such a form closed.
LEMMA CloseDialogFree ==
  ASSUME Typed, Begun, ~Busy(panel.locked) PROVE \A h \in DOMAIN handlers : ~Bound(handlers[h])
<1> SUFFICES ASSUME NEW h \in DOMAIN handlers, Bound(handlers[h]) PROVE FALSE
  OBVIOUS
<1>1. panel.locked = Acts[handlers[h].act].flag
  BY BoundTop DEF panel, Panels
<1>2. Holding(handlers[h])
  BY DEF Bound, Holding, Modal
<1> QED BY <1>1, <1>2 DEF Busy, Begun, Held

\* OpenDialog.
LEMMA OpenDialogKeeps ==
  ASSUME Typed, Stacked, Begun, NEW p \in DOMAIN Panels, OpenDialog(p) PROVE Stacked' /\ Begun'
<1>1. /\ Same /\ UNCHANGED handlers /\ open' = Append(open, p) /\ p \in Panels[top].opens /\ p \notin Range(open)
      /\ p \in panel.opens /\ Firm
  BY DEF OpenDialog, Same, panel, Panels, Firm
<1>2. Begun'
  BY <1>1, OpenDialogFree, BegunFree
<1>3. open \in Seq(DOMAIN Panels) /\ PanelsFit(Panels)
  BY PageMade DEF Typed, Viewed
<1>4. /\ Len(open) \in Nat /\ DOMAIN open = 1..Len(open) /\ DOMAIN open' = 1..(Len(open) + 1)
      /\ \A i \in DOMAIN open : open'[i] = open[i] /\ open[i] \in DOMAIN Panels
      /\ open'[Len(open) + 1] = p
  BY <1>1, <1>3, AppendProperties, LenProperties
<1>5. p # "page"
  BY <1>1, <1>3, TopIs DEF PanelsFit
<1>6. ASSUME NEW i \in DOMAIN open PROVE open[i] # p /\ p \in Panels[open[i]].opens
  <2>1. open[i] # p
    BY <1>1 DEF Range
  <2>2. open # <<>>
    BY <1>4, EmptySeq
  <2>3. Len(open) \in DOMAIN open /\ p \in Panels[open[Len(open)]].opens
    BY <1>1, <2>2, TopIs
  <2>4. CASE i = Len(open)
    BY <2>1, <2>3, <2>4
  <2>5. CASE i < Len(open)
    <3>1. open[Len(open)] \in Panels[open[i]].opens /\ open[i] # "page"
      BY <1>4, <2>3, <2>5 DEF Stacked
    <3>2. open[i] \in DOMAIN Panels \ {"page"} /\ open[Len(open)] \in DOMAIN Panels
      BY <1>4, <2>3, <3>1
    <3> QED BY <1>3, <2>1, <2>3, <3>1, <3>2 DEF PanelsFit
  <2> QED BY <1>4, <2>4, <2>5
<1>7. ASSUME NEW j \in DOMAIN open'
      PROVE  /\ open'[j] # "page"
             /\ \A i \in DOMAIN open' : i < j => open'[i] # open'[j] /\ open'[j] \in Panels[open'[i]].opens
  <2>1. CASE j \in DOMAIN open
    <3>1. \A i \in DOMAIN open' : i < j => i \in DOMAIN open
      BY <1>4, <2>1
    <3> QED BY <1>4, <2>1, <3>1 DEF Stacked
  <2>2. CASE j = Len(open) + 1
    <3>1. \A i \in DOMAIN open' : i < j => i \in DOMAIN open
      BY <1>4, <2>2
    <3> QED BY <1>4, <1>5, <1>6, <2>2, <3>1
  <2> QED BY <1>4, <2>1, <2>2
<1>8. Stacked'
  BY <1>1, <1>7, RouterSame DEF Stacked
<1> QED BY <1>2, <1>8

\* Closing any dialog leaves the others stacked.
LEMMA ClosedStacked == ASSUME Typed, Stacked, Same, NEW p, open' = Closed(p) PROVE Stacked'
<1>0. open \in Seq(DOMAIN Panels)
  BY DEF Typed, Viewed
<1>1. CASE p \notin Range(open)
  <2>1. open' = open
    BY <1>0, <1>1, ClosedAt
  <2> QED BY <2>1, StackedSame
<1>2. CASE p \in Range(open)
  <2>1. PICK i \in 1..Len(open) :
          /\ Len(open') = Len(open) - 1 /\ open' \in Seq(DOMAIN Panels)
          /\ \A j \in 1..(Len(open) - 1) : open'[j] = IF j < i THEN open[j] ELSE open[j + 1]
    BY <1>0, <1>2, ClosedAt
  <2>2. Len(open) \in Nat /\ DOMAIN open = 1..Len(open) /\ DOMAIN open' = 1..(Len(open) - 1)
    BY <1>0, <2>1, LenProperties
  <2> DEFINE m(j) == IF j < i THEN j ELSE j + 1
  <2>3. \A j \in DOMAIN open' : m(j) \in DOMAIN open /\ open'[j] = open[m(j)]
    BY <2>1, <2>2
  <2>4. \A j \in DOMAIN open', k \in DOMAIN open' : j < k => m(j) < m(k)
    BY <2>2
  <2> HIDE DEF m
  <2>5. ASSUME NEW j \in DOMAIN open'
        PROVE  /\ open'[j] # "page"
               /\ \A k \in DOMAIN open' : k < j => open'[k] # open'[j] /\ open'[j] \in Panels[open'[k]].opens
    BY <2>3, <2>4 DEF Stacked
  <2> QED BY <2>5, RouterSame DEF Stacked
<1> QED BY <1>1, <1>2

\* CloseDialog.
LEMMA CloseDialogKeeps == ASSUME Typed, Stacked, Begun, CloseDialog PROVE Stacked' /\ Begun'
<1>1. Same /\ UNCHANGED handlers /\ open' = Closed(top) /\ ~Busy(panel.locked) /\ Firm
  BY DEF CloseDialog, Same, Firm
<1> QED BY <1>1, ClosedStacked, CloseDialogFree, BegunFree

-----------------------------------------------------------------------------
(* An answer to a handler.                                                 *)
\* What is left when the top dialog has closed may open it again.
LEMMA ClosedTop ==
  ASSUME Typed, Stacked, open # <<>>
  PROVE  \A q \in Range(Closed(top)) : top \in Panels[q].opens
<1>1. open \in Seq(DOMAIN Panels) /\ Len(open) \in DOMAIN open /\ top = open[Len(open)]
  BY TopIs DEF Typed, Viewed
<1>2. top \in Range(open)
  BY <1>1 DEF Range
<1>3. PICK i \in 1..Len(open) :
        /\ open[i] = top /\ Len(Closed(top)) = Len(open) - 1 /\ Closed(top) \in Seq(DOMAIN Panels)
        /\ \A j \in 1..(Len(open) - 1) : Closed(top)[j] = IF j < i THEN open[j] ELSE open[j + 1]
  BY <1>1, <1>2, ClosedAt
<1>4. Len(open) \in Nat /\ DOMAIN open = 1..Len(open) /\ DOMAIN Closed(top) = 1..(Len(open) - 1)
  BY <1>1, <1>3, LenProperties
<1>5. i = Len(open)
  <2>1. ~(i < Len(open))
    BY <1>1, <1>3, <1>4 DEF Stacked
  <2> QED BY <1>3, <1>4, <2>1
<1>6. ASSUME NEW j \in DOMAIN Closed(top) PROVE top \in Panels[Closed(top)[j]].opens
  <2>1. j \in DOMAIN open /\ j < Len(open) /\ Closed(top)[j] = open[j]
    BY <1>3, <1>4, <1>5
  <2>2. open[Len(open)] \in Panels[open[j]].opens
    BY <1>1, <2>1 DEF Stacked
  <2> QED BY <1>1, <2>1, <2>2
<1> QED BY <1>6 DEF Range

\* A dialog that has closed is not open.
LEMMA ClosedOut == ASSUME Typed, Stacked, NEW p PROVE p \notin Range(Closed(p))
<1>0. open \in Seq(DOMAIN Panels)
  BY DEF Typed, Viewed
<1>1. CASE p \notin Range(open)
  BY <1>0, <1>1, ClosedAt
<1>2. CASE p \in Range(open)
  <2>1. PICK i \in 1..Len(open) :
          /\ open[i] = p /\ Len(Closed(p)) = Len(open) - 1 /\ Closed(p) \in Seq(DOMAIN Panels)
          /\ \A j \in 1..(Len(open) - 1) : Closed(p)[j] = IF j < i THEN open[j] ELSE open[j + 1]
    BY <1>0, <1>2, ClosedAt
  <2>2. Len(open) \in Nat /\ DOMAIN open = 1..Len(open) /\ DOMAIN Closed(p) = 1..(Len(open) - 1)
    BY <1>0, <2>1, LenProperties
  <2>3. ASSUME NEW j \in DOMAIN Closed(p) PROVE Closed(p)[j] # p
    <3>1. CASE j < i
      <4>1. j \in DOMAIN open /\ i \in DOMAIN open /\ Closed(p)[j] = open[j]
        BY <2>1, <2>2, <3>1
      <4> QED BY <2>1, <3>1, <4>1 DEF Stacked
    <3>2. CASE ~(j < i)
      <4>1. j + 1 \in DOMAIN open /\ i \in DOMAIN open /\ i < j + 1 /\ Closed(p)[j] = open[j + 1]
        BY <2>1, <2>2, <3>2
      <4> QED BY <2>1, <4>1 DEF Stacked
    <3> QED BY <3>1, <3>2
  <2> QED BY <2>3 DEF Range
<1> QED BY <1>1, <1>2

\* A dialog that closes below another leaves it on top.
LEMMA LooseClosed ==
  ASSUME Typed, Same, NEW p, open' = Closed(p), open # <<>>, p # top PROVE \A z : Atop(z) => Atop(z)'
<1>0. open \in Seq(DOMAIN Panels) /\ Len(open) \in DOMAIN open /\ top = open[Len(open)]
  BY TopIs DEF Typed, Viewed
<1>1. CASE p \notin Range(open)
  <2>1. open' = open
    BY <1>0, <1>1, ClosedAt
  <2> QED BY <2>1, AtopSame
<1>2. CASE p \in Range(open)
  <2>1. PICK i \in 1..Len(open) :
          /\ open[i] = p /\ Len(open') = Len(open) - 1 /\ open' \in Seq(DOMAIN Panels)
          /\ \A j \in 1..(Len(open) - 1) : open'[j] = IF j < i THEN open[j] ELSE open[j + 1]
    BY <1>0, <1>2, ClosedAt
  <2>2. Len(open) \in Nat /\ DOMAIN open = 1..Len(open) /\ DOMAIN open' = 1..(Len(open) - 1)
    BY <1>0, <2>1, LenProperties
  <2>3. i # Len(open)
    BY <1>0, <2>1
  <2>4. Len(open') # 0 /\ open'[Len(open')] = top
    BY <1>0, <2>1, <2>2, <2>3
  <2>5. open' # <<>>
    BY <2>1, <2>4, EmptySeq
  <2>6. top' = top
    BY <2>4, <2>5 DEF top
  <2>7. \A v : OnScreen(v)' => OnScreen(v)
    BY OnScreenClosed
  <2> QED BY <2>5, <2>6, <2>7, RouterSame DEF Atop, Same
<1> QED BY <1>1, <1>2

\* What closes on an answer; a form that stays has another flag.
LEMMA AnswerCloses ==
  ASSUME Typed, Stacked, Begun, NEW h \in DOMAIN handlers, Answer(h)
  PROVE  /\ handlers[h].here /\ Known(handlers[h]) /\ Same /\ open' = Closed(Acts[handlers[h].act].closes)
         /\ Modal(Acts, handlers[h].act) => Bound(handlers[h]) /\ Atop(handlers[h])
         /\ ~Modal(Acts, handlers[h].act) =>
              ((\E k \in DOMAIN handlers : Bound(handlers[k])) => \A z : Atop(z) => Atop(z)')
<1> DEFINE a == handlers[h].act
<1>1. /\ Same /\ handlers[h].step = "answered" /\ open' = Closed(Acts[a].closes)
  BY DEF Answer, Same, act, Acts
<1>2. handlers[h].here /\ Known(handlers[h]) /\ (Bound(handlers[h]) => Atop(handlers[h]))
  BY <1>1 DEF Begun
<1>3. ASSUME ~Modal(Acts, a), NEW k \in DOMAIN handlers, Bound(handlers[k])
      PROVE  Acts[a].closes # top
  <2>1. /\ open # <<>> /\ top = Acts[handlers[k].act].closes /\ Panels[top].locked = Acts[handlers[k].act].flag
        /\ Acts[handlers[k].act].flag # NoFlag /\ Known(handlers[k])
    BY <1>3, BoundTop DEF Begun, Bound
  <2>2. top # "page"
    BY <1>3, <2>1 DEF Bound, Modal
  <2> SUFFICES ASSUME Acts[a].closes = top PROVE FALSE
    OBVIOUS
  <2>3. a \in DOMAIN Acts /\ handlers[k].act \in DOMAIN Acts
    BY <1>2, <2>1 DEF Known
  <2>4. PICK p \in DOMAIN Panels : a \in Panels[p].offers
    BY <1>2 DEF Known
  <2>5. Panels[top].locked = Acts[a].flag
    <3>1. ActFits(ScreenOf(page).views, Acts, Panels, a)
      BY <2>3, PageMade
    <3> QED BY <2>2, <2>4, <3>1 DEF ActFits
  <2>6. Acts[a].falls = Acts[handlers[k].act].falls
    BY <2>1, <2>3, <2>5, PageMade DEF FlagsFit
  <2> QED BY <1>3, <2>1, <2>2, <2>5, <2>6 DEF Bound, Modal, Tight
<1>4. ASSUME ~Modal(Acts, a), NEW k \in DOMAIN handlers, Bound(handlers[k])
      PROVE  \A z : Atop(z) => Atop(z)'
  <2>1. open # <<>> /\ Acts[a].closes # top
    BY <1>3, <1>4, BoundTop
  <2> HIDE DEF a
  <2> QED BY <1>1, <2>1, LooseClosed
<1> QED BY <1>1, <1>2, <1>4 DEF Bound

\* Answer: at most the handler's own dialog closes, or one below a form that stays on top.
LEMMA AnswerBegun ==
  ASSUME Typed, Stacked, Begun, NEW h \in DOMAIN handlers, Answer(h) PROVE Stacked' /\ Begun'
<1> DEFINE y == [handlers[h] EXCEPT !.step = "reading"]
           a == handlers[h].act
<1>1. Same /\ handlers' = [handlers EXCEPT ![h] = y] /\ handlers[h].step = "answered"
  BY DEF Answer, Same
<1>2. handlers[h] \in Handler /\ handlers[h].here /\ Known(handlers[h]) /\ open' = Closed(Acts[a].closes)
  BY AnswerCloses, HandlerAt DEF Typed
<1>3. /\ y.here /\ y.step = "reading" /\ y.act = a /\ y.changes = handlers[h].changes /\ y.sees = handlers[h].sees
  BY <1>2 DEF Handler
<1> HIDE DEF y
<1>4. Known(y) /\ ~Bound(y) /\ (Holding(y) => Holding(handlers[h]))
  BY <1>1, <1>2, <1>3 DEF Known, Bound, Holding
<1>5. Stacked'
  BY <1>1, <1>2, ClosedStacked
<1>6. Held'
  <2>1. raised' = IF "answer" \in Acts[a].falls THEN raised \ {Acts[a].flag} ELSE raised
    BY DEF Answer, Lowered, act, Acts
  <2>2. CASE "answer" \in Acts[a].falls
    <3>1. ~Holding(y)
      BY <1>3, <2>2 DEF Holding, Tight
    <3>2. Tight(Acts, a) => Holding(handlers[h])
      BY <1>1, <1>2 DEF Holding
    <3> QED BY <1>1, <1>2, <2>1, <2>2, <3>1, <3>2, HeldOn
  <2>3. CASE "answer" \notin Acts[a].falls
    BY <1>1, <1>3, <1>4, <2>1, <2>3, HeldOn
  <2> QED BY <2>2, <2>3
<1>7. CASE ~Modal(Acts, a)
  <2>1. (\E k \in DOMAIN handlers : Bound(handlers[k])) => \A z : Atop(z) => Atop(z)'
    BY <1>7, AnswerCloses
  <2>2. Begun'
    BY <1>1, <1>2, <1>3, <1>4, <1>6, <2>1, BegunMoves
  <2> QED BY <1>5, <2>2
<1>8. CASE Modal(Acts, a)
  <2>1. \A k \in DOMAIN handlers : k # h => ~Bound(handlers[k])
    BY <1>8, AnswerCloses, OneBound
  <2>2. /\ DOMAIN handlers' = DOMAIN handlers /\ handlers'[h] = y
        /\ \A k \in DOMAIN handlers : k # h => handlers'[k] = handlers[k]
    BY <1>1
  <2>3. ASSUME NEW k \in DOMAIN handlers'
        PROVE  /\ handlers'[k].here => Known(handlers'[k])
               /\ handlers'[k].step \in {"answered", "reading", "refused"} => handlers'[k].here
               /\ ~Bound(handlers'[k])
    BY <1>3, <1>4, <2>1, <2>2 DEF Begun
  <2>4. \A k \in DOMAIN handlers : k # h => Apart(y, handlers[k]) /\ Apart(handlers[k], y)
    BY <1>3, <1>4 DEF Begun, Apart
  <2>5. ASSUME NEW k \in DOMAIN handlers', NEW m \in DOMAIN handlers', k # m PROVE Apart(handlers'[k], handlers'[m])
    BY <2>2, <2>4, <2>5 DEF Begun
  <2>6. Begun'
    BY <1>1, <1>6, <2>3, <2>5, KnownSame, ApartSame DEF Begun
  <2> QED BY <1>5, <2>6
<1> QED BY <1>7, <1>8

\* Land: a preview that has come lowers only the flag it lends.
LEMMA LandBegun == ASSUME Typed, Begun, NEW v, NEW i, Land(v, i) PROVE Begun'
<1>1. Same /\ open' = open /\ UNCHANGED handlers /\ raised' = raised \ {view(v).raises} /\ v \in Views(page)
  BY DEF Land, Same, Typed, Viewed
<1>2. Firm
  BY <1>1, PageMade DEF FlagsFit, view, Views, Firm
<1> QED BY <1>1, <1>2, BegunSame

\* Fail: the dialog of a preview that failed closes, and no form of another flag with it.
LEMMA FailBegun == ASSUME Typed, Stacked, Begun, NEW v, Fail(v) PROVE Stacked' /\ Begun'
<1>1. Same /\ UNCHANGED handlers /\ raised' = raised \ {view(v).raises} /\ v \in Views(page)
  BY DEF Fail, Same, Typed, Viewed
<1>2. Firm /\ (view(v).raises # NoFlag => Panels[view(v).panel].locked \in Lent)
  BY <1>1, PageMade DEF FlagsFit, view, Views, Firm
<1>3. CASE view(v).raises = NoFlag
  <2>1. open' = open
    BY <1>3 DEF Fail
  <2> QED BY <1>1, <1>2, <2>1, StackedSame, BegunSame
<1>4. CASE view(v).raises # NoFlag
  <2>1. open' = Closed(view(v).panel)
    BY <1>4 DEF Fail
  <2>2. Stacked'
    BY <1>1, <2>1, ClosedStacked
  <2>3. ASSUME NEW k \in DOMAIN handlers, Bound(handlers[k]) PROVE Atop(handlers[k])'
    <3>1. /\ open # <<>> /\ Panels[top].locked = Acts[handlers[k].act].flag /\ Atop(handlers[k])
      BY <2>3, BoundTop DEF Begun
    <3>2. view(v).panel # top
      BY <1>2, <1>4, <2>3, <3>1 DEF Bound, Modal, Tight
    <3>3. \A z : Atop(z) => Atop(z)'
      BY <1>1, <2>1, <3>1, <3>2, LooseClosed
    <3> QED BY <1>1, <3>1, <3>3
  <2>4. Begun'
    BY <1>1, <1>2, <2>3, KnownSame, ApartSame, HeldSame DEF Begun
  <2> QED BY <2>2, <2>4
<1> QED BY <1>3, <1>4

\* Each view on the screen that the call has changed is asked for by its handler, or it is forgotten.
LEMMA AnswerOwes ==
  ASSUME Typed, Stacked, Begun, NEW h \in DOMAIN handlers, Answer(h),
         NEW v \in Views(page), OnScreen(v)', ~view(v).polled, NEW x \in Touching(v), Owed(x, v)
  PROVE  Owed(x, v)'
<1> DEFINE y == [handlers[h] EXCEPT !.step = "reading"]
           a == handlers[h].act
<1>1. handlers' = [handlers EXCEPT ![h] = y] /\ handlers[h].step = "answered" /\ Same
  BY DEF Answer, Same
<1>2. handlers[h] \in Handler /\ handlers[h].here /\ Known(handlers[h]) /\ open' = Closed(Acts[a].closes)
  BY AnswerCloses, HandlerAt DEF Typed
<1>3. /\ y.here /\ y.step = "reading" /\ y.act = a /\ y.rest = handlers[h].rest /\ y.sees = handlers[h].sees
      /\ handlers'[h] = y /\ h \in DOMAIN handlers'
  BY <1>1, <1>2 DEF Handler
<1> HIDE DEF y
<1>4. CASE x = "others" \/ <<x, v>> \in Forgotten
  BY <1>4 DEF Owed
<1>5. CASE \E k \in DOMAIN handlers : k # h /\ Promised(k, x, v)
  <2>1. \A k \in DOMAIN handlers : k # h => k \in DOMAIN handlers' /\ handlers'[k] = handlers[k]
    BY <1>1
  <2> QED BY <1>5, <2>1 DEF Owed, Promised
<1>6. CASE x # "others" /\ <<x, v>> \notin Forgotten /\ Promised(h, x, v)
  <2>1. x = a /\ a \in DOMAIN Acts /\ Touches(ScreenOf(page).views, Acts, a, v)
    BY <1>6 DEF Promised, Touching
  <2>2. PICK p \in DOMAIN Panels :
          a \in Panels[p].offers /\ (\A u \in Views(page) : view(u).panel \in {"page", p} => u \in handlers[h].sees)
    BY <1>2 DEF Known
  <2>3. /\ Covers(ScreenOf(page).views, Acts, Panels, a, p, v)
        /\ Acts[a].closes # "page" => p = Acts[a].closes
    <3>1. ActFits(ScreenOf(page).views, Acts, Panels, a)
      BY <2>1, PageMade
    <3> QED BY <2>1, <2>2, <3>1 DEF ActFits, view, Views
  <2>4. OnScreen(v)
    BY <1>1, <1>2, OnScreenClosed
  <2>5. handlers[h].rest = Acts[a].then
    BY <1>1, <1>2 DEF Known
  <2>6. CASE v \in Again(Acts, a) /\ (Modal(Acts, a) \/ view(v).panel \in {"page", p})
    <3>1. v \in handlers[h].sees
      <4>1. CASE Modal(Acts, a)
        BY <2>4, <4>1, AnswerCloses DEF Atop
      <4>2. CASE view(v).panel \in {"page", p}
        BY <2>2, <4>2
      <4> QED BY <2>6, <4>1, <4>2
    <3>2. \E i \in DOMAIN handlers[h].rest : v \in handlers[h].rest[i]
      BY <2>5, <2>6 DEF Again
    <3>3. Promised(h, x, v)'
      BY <1>3, <2>1, <3>1, <3>2 DEF Promised
    <3> QED BY <1>3, <3>3 DEF Owed
  <2>7. CASE /\ Modal(Acts, a) /\ view(v).panel \in DOMAIN Panels \ {"page"}
             /\ p \notin Panels[view(v).panel].opens
    <3>1. open # <<>> /\ top = p /\ open' = Closed(top)
      BY <1>2, <2>3, <2>7, AnswerCloses DEF Atop, Modal
    <3>2. view(v).panel \in Range(open')
      BY <1>1, <2>7, TouchingSame DEF OnScreen
    <3> QED BY <2>7, <3>1, <3>2, ClosedTop
  <2>8. CASE Acts[a].closes # "page" /\ view(v).panel = Acts[a].closes
    <3>1. view(v).panel \in Range(open')
      BY <1>1, <2>8, TouchingSame DEF OnScreen
    <3> QED BY <1>2, <2>8, <3>1, ClosedOut
  <2> QED BY <1>6, <2>1, <2>3, <2>6, <2>7, <2>8 DEF Covers, view
<1> QED BY <1>4, <1>5, <1>6 DEF Owed

\* Answer.
LEMMA AnswerSteady ==
  ASSUME Typed, Steady, Stacked, Begun, NEW h \in DOMAIN handlers, Answer(h) PROVE Steady'
<1> DEFINE patched == act(handlers[h].act).patches
           less(s) == [s EXCEPT !.lacks = @ \ {handlers[h].act}]
<1>1. Same /\ filter' = filter /\ wire' = wire /\ open' = Closed(Acts[handlers[h].act].closes)
  BY AnswerCloses DEF Answer
<1>2. shown' = [v \in DOMAIN shown |-> IF v \in patched THEN less(shown[v]) ELSE shown[v]]
  BY DEF Answer
<1>3. \A s \in ViewState : /\ less(s).lacks \subseteq s.lacks /\ less(s).of = s.of
                           /\ Excused(<<>>, less(s)) = Excused(<<>>, s)
  <2>1. \A s \in ViewState : less(s).lacks \subseteq s.lacks /\ less(s).of = s.of
    BY DEF ViewState
  <2>2. \A s \in ViewState : less(s).has = s.has /\ less(s).late = s.late /\ less(s).failed = s.failed
    BY DEF ViewState
  <2> HIDE DEF less
  <2> QED BY <2>1, <2>2 DEF Excused
<1> HIDE DEF patched, less
<1>4. ASSUME NEW v \in Views(page)
      PROVE  /\ shown'[v].lacks \subseteq shown[v].lacks /\ shown'[v].of = shown[v].of
             /\ Excused(<<>>, shown'[v]) = Excused(<<>>, shown[v])
  <2>1. v \in DOMAIN shown /\ shown[v] \in ViewState
    BY DEF Typed, Viewed
  <2> QED BY <1>2, <1>3, <2>1
<1>5. Traced'
  BY <1>1, <1>4, TracedSame DEF Steady, Traced
<1>6. ASSUME NEW v \in Views(page), OnScreen(v)' PROVE Kept(v)
  <2>1. OnScreen(v)
    BY <1>1, <1>6, OnScreenClosed
  <2>2. /\ Excused(wire'[v], shown'[v]) = Excused(wire[v], shown[v])
        /\ Awaited(wire'[v], shown'[v]).of = Awaited(wire[v], shown[v]).of
        /\ Awaited(wire'[v], shown'[v]).lacks \subseteq Awaited(wire[v], shown[v]).lacks
    BY <1>1, <1>4 DEF Excused, Awaited
  <2>3. Awaited(wire[v], shown[v]).lacks \subseteq Touching(v)
    <3>1. shown[v].lacks \subseteq Touching(v) /\ wire[v] \in Seq(Fitting(v))
      BY DEF Steady, Traced
    <3>2. CASE wire[v] = <<>>
      BY <3>1, <3>2 DEF Awaited
    <3>3. CASE wire[v] # <<>>
      <4>1. Len(wire[v]) # 0 /\ Len(wire[v]) \in Nat
        BY <3>1, <3>3, EmptySeq, LenProperties
      <4>2. wire[v][Len(wire[v])] \in Fitting(v)
        BY <3>1, <4>1, ElementOfSeq
      <4> QED BY <3>3, <4>2 DEF Awaited, Fitting
    <3> QED BY <3>2, <3>3
  <2>4. ASSUME ~view(v).polled, NEW x \in Awaited(wire'[v], shown'[v]).lacks,
               x \in Awaited(wire[v], shown[v]).lacks => Owed(x, v)
        PROVE  Owed(x, v)'
    <3>1. x \in Touching(v) /\ Owed(x, v)
      BY <2>2, <2>3, <2>4
    <3> QED BY <1>6, <2>4, <3>1, AnswerOwes
  <2> QED BY <1>1, <2>1, <2>2, <2>4 DEF Kept
<1>7. Fresh' /\ ByFilter'
  <2>1. Fresh /\ ByFilter
    BY DEF Steady
  <2> QED BY <1>1, <1>6, <2>1, Carried
<1> QED BY <1>5, <1>7 DEF Steady

-----------------------------------------------------------------------------
(* A tab at rest.                                                          *)
\* The inductive invariant: a view's excuses and debts only make sense of a typed tab, the debts are
\* paid by handlers as they were begun, and these rely on the order in which dialogs are open.
IInv == Typed /\ Stacked /\ Begun /\ Steady

\* A page that has just been shown waits for everything, or holds nothing.
LEMMA Blanked ==
  ASSUME NEW b \in BOOLEAN
  PROVE  /\ [Empty EXCEPT !.loading = b].lacks = {} /\ [Empty EXCEPT !.loading = b].of = 1
         /\ [Empty EXCEPT !.has = b].lacks = {} /\ [Empty EXCEPT !.has = b].of = 1
BY DEF Empty

\* What is asked for with the page lacks nothing and follows the first filter.
LEMMA WhatIsNew ==
  \A w \in {<<>>, <<Request(1, 0)>>} : \A s :
    (s.lacks = {} /\ s.of = 1) => Awaited(w, s).lacks = {} /\ Awaited(w, s).of = 1
<1>1. Request(1, 0).lacks = {} /\ Request(1, 0).of = 1
  BY DEF Request
<1>2. \A s : Awaited(<<>>, s) = s /\ Awaited(<<Request(1, 0)>>, s) = Request(1, 0)
  BY DEF Awaited
<1> QED BY <1>1, <1>2

\* A tab at rest.
LEMMA InitKeeps == Init => IInv
<1> SUFFICES ASSUME Init PROVE IInv
  OBVIOUS
<1>1. Typed
  BY InitTyped
<1>2. open = <<>> /\ handlers = <<>> /\ filter = 1 /\ \A v \in Views(page) : wire[v] = <<>>
  BY DEF Init
<1>3. \A v \in Views(page) : shown[v].lacks = {} /\ shown[v].of = 1
  <2> DEFINE here(v) == v \in Mounted(page)
  <2>1. \A v : here(v) \in BOOLEAN
    OBVIOUS
  <2>2. shown = [v \in Views(page) |-> [Empty EXCEPT !.has = here(v)]]
    BY DEF Init
  <2> HIDE DEF here
  <2> QED BY <2>1, <2>2, Blanked
<1>4. Steady
  <2>1. \A v : <<>> \in Seq(Fitting(v))
    BY EmptySeq
  <2>2. Traced
    BY <1>2, <1>3, <2>1 DEF Traced
  <2>3. Fresh /\ ByFilter
    BY <1>2, <1>3, WhatIsNew DEF Fresh, ByFilter
  <2> QED BY <2>2, <2>3 DEF Steady
<1>5. DOMAIN <<>> = {}
  OBVIOUS
<1>6. Stacked /\ Begun
  BY <1>2, <1>5 DEF Stacked, Begun, Held
<1> QED BY <1>1, <1>4, <1>6 DEF IInv

\* What a left page leaves behind waits for no answer.
LEMMA LeftSteps ==
  ASSUME Handled PROVE \A h \in DOMAIN Left : ~Left[h].here /\ Left[h].step \in {"called", "done"}
<1>1. DOMAIN Left = DOMAIN handlers
  BY DEF Left
<1>2. ASSUME NEW h \in DOMAIN handlers PROVE Left[h].step \in {"called", "done"}
  BY DEF Left, Done
<1> QED BY <1>1, <1>2, LeftTyped

\* A page that has just been shown.
LEMMA ShowsKeeps ==
  ASSUME Typed, NEW pg, Shows(pg), Typed' PROVE IInv'
<1>1. open' = <<>> /\ handlers' = Left /\ page' = pg /\ filter' = 1
  BY DEF Shows
<1>2. DOMAIN <<>> = {}
  OBVIOUS
<1>3. Stacked'
  BY <1>1, <1>2 DEF Stacked
<1>4. Begun'
  BY <1>1, LeftSteps DEF Typed, Begun, Bound, Apart, Holding, Held
<1>5. \A v \in Views(page)' : shown'[v].lacks = {} /\ shown'[v].of = 1
  <2> DEFINE here(v) == v \in Mounted(pg)
  <2>1. \A v : here(v) \in BOOLEAN
    OBVIOUS
  <2>2. shown' = [v \in Views(pg) |-> [Empty EXCEPT !.loading = here(v)]]
    BY DEF Shows
  <2>3. Views(page)' = Views(pg)
    BY <1>1 DEF Views
  <2> HIDE DEF here
  <2> QED BY <2>1, <2>2, <2>3, Blanked
<1>6. \A v \in Views(page)' : wire'[v] = <<>> \/ wire'[v] = <<Request(1, 0)>>
  <2>1. Views(page)' = Views(pg)
    BY <1>1 DEF Views
  <2> QED BY <2>1 DEF Shows
<1>7. \A w \in {<<>>, <<Request(1, 0)>>} : \A s :
        (s.lacks = {} /\ s.of = 1) => Awaited(w, s).lacks = {} /\ Awaited(w, s).of = 1
  BY WhatIsNew
<1>8. \A v : \A w \in {<<>>, <<Request(1, 0)>>} : w \in Seq(Fitting(v)')
  <2>1. \A v : Request(1, 0) \in Fitting(v)'
    BY Requested, 0 \in Nat, 1 \in 1..2 DEF Request, Fitting
  <2>2. \A v : <<>> \in Seq(Fitting(v)')
    BY EmptySeq
  <2>3. \A S : \A r \in S : <<r>> \in Seq(S)
    OBVIOUS
  <2> QED BY <2>1, <2>2, <2>3
<1>9. Traced'
  BY <1>5, <1>6, <1>8 DEF Traced
<1>10. Fresh' /\ ByFilter'
  BY <1>1, <1>5, <1>6, <1>7 DEF Fresh, ByFilter
<1> QED BY <1>3, <1>4, <1>9, <1>10, Typed' DEF IInv, Steady

\* Neither the dialogs nor the handlers nor the flags change.
LEMMA OthersKeep ==
  ASSUME IInv, Same, open' = open, raised' = raised, UNCHANGED handlers PROVE Stacked' /\ Begun'
BY StackedSame, BegunSame DEF IInv, Firm

\* Every step.
LEMMA StepKeeps == ASSUME IInv, [Next]_vars PROVE IInv'
<1>1. Typed /\ Stacked /\ Begun /\ Steady
  BY DEF IInv
<1>2. Typed'
  BY <1>1, StepTyped
<1>3. CASE UNCHANGED vars
  <2>1. Same /\ open' = open /\ raised' = raised /\ UNCHANGED <<filter, wire, shown>> /\ UNCHANGED handlers
    BY <1>3 DEF vars, Same
  <2>2. \A v : OnScreen(v)' => OnScreen(v)
    BY <2>1, OnScreenSame
  <2>3. \A v : \A x : Owed(x, v) => Owed(x, v)'
    BY <2>1, OwedSame
  <2>4. Steady'
    BY <1>1, <2>1, <2>2, <2>3, Unseen
  <2> QED BY <1>2, <2>1, <2>4, OthersKeep DEF IInv
<1>4. CASE User
  <2>1. CASE (\E pg \in Pages \cup {"login"} : Visit(pg)) \/ doLogin \/ logout
    <3>1. \E pg : Shows(pg)
      BY <2>1 DEF Visit, doLogin, logout
    <3> QED BY <1>1, <1>2, <3>1, ShowsKeeps
  <2>2. CASE \E p \in DOMAIN ScreenOf(page).panels : OpenDialog(p)
    BY <1>1, <1>2, <2>2, OpenDialogSteady, OpenDialogKeeps DEF Panels, IInv
  <2>3. CASE CloseDialog
    BY <1>1, <1>2, <2>3, CloseDialogSteady, CloseDialogKeeps DEF IInv
  <2>4. CASE Pick \/ loadMore
    <3>1. Same /\ open' = open /\ raised' = raised /\ UNCHANGED handlers
      BY <2>4 DEF Pick, loadMore, Same, tab
    <3>2. Steady'
      BY <1>1, <2>4, PickSteady, loadMoreSteady
    <3> QED BY <1>2, <3>1, <3>2, OthersKeep DEF IInv
  <2>5. CASE Refresh
    <3>1. Same /\ open' = open /\ raised' = raised /\ UNCHANGED handlers
      BY <2>5 DEF Refresh, tab, Same
    <3>2. Steady'
      BY <1>1, <2>5, RefreshSteady
    <3> QED BY <1>2, <3>1, <3>2, OthersKeep DEF IInv
  <2>6. CASE \E a \in DOMAIN ScreenOf(page).acts : Begin(a)
    <3>1. PICK a \in DOMAIN Acts : Begin(a)
      BY <2>6 DEF Acts
    <3>2. Steady' /\ Begun'
      BY <1>1, <3>1, BeginSteady, BeginBegun
    <3>3. Same /\ open' = open
      BY <3>1 DEF Begin, Same
    <3> QED BY <1>1, <1>2, <3>2, <3>3, StackedSame DEF IInv
  <2> QED BY <1>4, <2>1, <2>2, <2>3, <2>4, <2>5, <2>6 DEF User
<1>5. CASE Server
  <2>1. CASE \E part \in Parts : Others(part)
    <3>1. PICK part \in Parts : Others(part)
      BY <2>1
    <3>2. Same /\ open' = open /\ raised' = raised /\ UNCHANGED handlers
      BY <3>1 DEF Others, tab, Same
    <3>3. Steady'
      BY <1>1, <3>1, OthersSteady
    <3> QED BY <1>2, <3>2, <3>3, OthersKeep DEF IInv
  <2>2. CASE \E h \in DOMAIN handlers : Serve(h) \/ Refuse(h)
    <3>1. PICK h \in DOMAIN handlers : Serve(h) \/ Refuse(h)
      BY <2>2
    <3>2. Same /\ open' = open
      BY <3>1 DEF Serve, Refuse, tab, Same
    <3>3. Steady' /\ Begun'
      BY <1>1, <3>1, ServeKeeps, RefuseSteady, RefuseBegun
    <3> QED BY <1>1, <1>2, <3>2, <3>3, StackedSame DEF IInv
  <2>3. CASE onUnauthorized
    <3>1. Shows("login")
      BY <2>3 DEF onUnauthorized
    <3> QED BY <1>1, <1>2, <3>1, ShowsKeeps
  <2> QED BY <1>5, <2>1, <2>2, <2>3 DEF Server
<1>6. CASE Client
  <2>1. CASE \E h \in DOMAIN handlers : Answer(h)
    BY <1>1, <1>2, <2>1, AnswerSteady, AnswerBegun DEF IInv
  <2>2. CASE \E h \in DOMAIN handlers : Reread(h) \/ Finish(h)
    <3>1. PICK h \in DOMAIN handlers : Reread(h) \/ Finish(h)
      BY <2>2
    <3>2. Same /\ open' = open
      BY <3>1 DEF Reread, Finish, tab, Same
    <3>3. Steady' /\ Begun'
      BY <1>1, <3>1, RereadSteady, FinishSteady, RereadBegun, FinishBegun
    <3> QED BY <1>1, <1>2, <3>2, <3>3, StackedSame DEF IInv
  <2>3. CASE \E v \in DOMAIN shown : Poll(v)
    <3>1. PICK v \in DOMAIN shown : Poll(v)
      BY <2>3
    <3>2. Same /\ open' = open /\ raised' = raised /\ UNCHANGED handlers
      BY <3>1 DEF Poll, tab, Same
    <3>3. Steady'
      BY <1>1, <3>1, PollSteady
    <3> QED BY <1>2, <3>2, <3>3, OthersKeep DEF IInv
  <2>4. CASE Signal
    <3>1. Same /\ open' = open /\ raised' = raised /\ UNCHANGED handlers
      BY <2>4 DEF Signal, tab, Same
    <3>2. Steady'
      BY <1>1, <2>4, SignalSteady
    <3> QED BY <1>2, <3>1, <3>2, OthersKeep DEF IInv
  <2>5. CASE \E v \in DOMAIN wire : Fail(v) \/ \E i \in DOMAIN wire[v] : Land(v, i)
    <3>1. PICK v \in DOMAIN wire : Fail(v) \/ \E i \in DOMAIN wire[v] : Land(v, i)
      BY <2>5
    <3>2. Steady'
      BY <1>1, <3>1, FailSteady, LandSteady
    <3>3. CASE Fail(v)
      BY <1>1, <1>2, <3>2, <3>3, FailBegun DEF IInv
    <3>4. CASE \E i \in DOMAIN wire[v] : Land(v, i)
      <4>1. Same /\ open' = open
        BY <3>4 DEF Land, Same
      <4>2. Begun'
        BY <1>1, <3>4, LandBegun
      <4> QED BY <1>1, <1>2, <3>2, <4>1, <4>2, StackedSame DEF IInv
    <3> QED BY <3>1, <3>3, <3>4
  <2> QED BY <1>6, <2>1, <2>2, <2>3, <2>4, <2>5 DEF Client
<1> QED BY <1>3, <1>4, <1>5, <1>6 DEF Next

\* At rest nothing is owed and nothing is on its way, so what is awaited is what is shown.
LEMMA RestIsOwn == IInv => RestShowsOwn
<1> SUFFICES ASSUME IInv, AtRest, NEW v \in DOMAIN shown, OnScreen(v), shown[v].has,
                    ~shown[v].late, ~shown[v].failed, ~view(v).polled
             PROVE  /\ view(v).picked /\ v \notin Captured => shown[v].of = filter
                    /\ \A a \in shown[v].lacks \ {"others"} : <<a, v>> \in Forgotten
  BY DEF RestShowsOwn
<1>1. v \in Views(page) /\ v \in DOMAIN wire
  BY DEF IInv, Typed, Viewed
<1>2. wire[v] = <<>> /\ \A h \in DOMAIN handlers : ~handlers[h].here
  BY <1>1 DEF AtRest
<1>3. Awaited(wire[v], shown[v]) = shown[v] /\ ~Excused(wire[v], shown[v])
  BY <1>2 DEF Awaited, Excused
<1>4. view(v).picked /\ v \notin Captured => shown[v].of = filter
  BY <1>1, <1>3 DEF IInv, Steady, ByFilter, Current
<1>5. \A x \in shown[v].lacks : Owed(x, v)
  BY <1>1, <1>3 DEF IInv, Steady, Fresh, Current
<1>6. \A a \in shown[v].lacks \ {"others"} : <<a, v>> \in Forgotten
  BY <1>2, <1>5 DEF Owed, Promised
<1> QED BY <1>4, <1>6

\* A tab at rest shows what its own user did, for every set of pages and every bound: no view on the
\* screen was read before a write of this tab, nor by a filter given up, unless its last request
\* failed, an older answer came in after a newer one (useQuery keeps no order), or the handler is one
\* of Forgotten.
THEOREM RestShowsOwnHolds == Spec => []RestShowsOwn
<1>1. Init => IInv
  BY InitKeeps
<1>2. IInv /\ [Next]_vars => IInv'
  BY StepKeeps
<1>3. IInv => RestShowsOwn
  BY RestIsOwn
<1> QED BY <1>1, <1>2, <1>3, PTL DEF Spec
=============================================================================
