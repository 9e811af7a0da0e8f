------------------------------ MODULE Screens ------------------------------
(***************************************************************************)
(* The screens of the web client, each as a record of three things:        *)
(*                                                                         *)
(*   views   what it asks the server for and shows: a card is the part of  *)
(*           the answer it renders, a view the parts of all its cards;     *)
(*   acts    its handlers that call the server to change something: the    *)
(*           flag that disables the button meanwhile and when it falls,    *)
(*           what the call changes, and which views are asked for again,   *)
(*           group after group, when it has answered;                      *)
(*   panels  the page itself and the dialogs over it: the acts they offer, *)
(*           the dialogs they open, the views whose rows they offer them   *)
(*           on, the flag that keeps them open, and the views their        *)
(*           refresh button asks for again.                                *)
(*                                                                         *)
(* Browser.tla runs them.                                                  *)
(***************************************************************************)
EXTENDS Api, Sequences

NoFlag == "none"   \* nothing is disabled meanwhile
View(shows) == [shows |-> shows, panel |-> "page", picked |-> FALSE, polled |-> FALSE,
                resets |-> FALSE, grows |-> FALSE, raises |-> NoFlag]
Picked(v) == [v EXCEPT !.picked = TRUE]    \* asked for by a filter the user picks
Grown(v) == [v EXCEPT !.grows = TRUE]      \* page by page; a new pick drops the old one's first page
Polled(v) == [v EXCEPT !.polled = TRUE]    \* asked for again by a timer
In(p, v) == [v EXCEPT !.panel = p]         \* asked for when the dialog p opens
Anew(v) == [v EXCEPT !.resets = TRUE]      \* emptied when its dialog opens
\* Its request raises the flag of a handler of its dialog and lowers it when it ends; an error
\* closes the dialog.
Raising(flag, v) == [v EXCEPT !.raises = flag]

\* falls: whether the flag falls with the answer, at the end of the handler, or at both; on an
\* error it always falls.
Act(flag, changes, then) == [flag |-> flag, falls |-> {"end"}, changes |-> changes, then |-> then,
                             closes |-> "page", patches |-> {}]
Falling(when, a) == [a EXCEPT !.falls = when]
Closing(p, a) == [a EXCEPT !.closes = p]
Patching(views, a) == [a EXCEPT !.patches = views]   \* corrected in place, not asked for again

Panel(offers, opens) == [offers |-> offers, opens |-> opens, needs |-> {}, locked |-> NoFlag,
                         rereads |-> {}]
Needing(views, p) == [p EXCEPT !.needs = views]
Locked(flag, p) == [p EXCEPT !.locked = flag]
Rereading(views, p) == [p EXCEPT !.rereads = views]

\* stream: the parts whose changes the server signals to the screen, and the views it
\* then asks for again; blank: the views without which, or while asking for which, the
\* page shows nothing.
Screen(views, acts, panels) == [views |-> views, acts |-> acts, panels |-> panels,
                                stream |-> [parts |-> {}, asks |-> {}], blank |-> {},
                                admin |-> FALSE]

-----------------------------------------------------------------------------
(* The bar over every page, and the tabs over the pages of administrators. *)

Bell == Polled(View(NoticeCalls.listNotifications))
toggleBell == Patching({"bell"}, Act(NoFlag, NoticeCalls.markNotificationsRead, <<>>))

\* Mutant: the badge is read once, when the page is mounted.
BadgeOnce == View(AdminCalls.getAdminStats \cap {"requests"})

\* The statistics hold more; the tab shows one number of them.
Badge == Polled(View(AdminCalls.getAdminStats \cap {"requests"}))

With(f, name, x) == [n \in DOMAIN f \cup {name} |-> IF n = name THEN x ELSE f[n]]
UnderNav(s) ==
  [s EXCEPT !.views = With(@, "bell", Bell), !.acts = With(@, "toggleBell", toggleBell),
            !.panels.page.offers = @ \cup {"toggleBell"}]
UnderTabs(s) == UnderNav([s EXCEPT !.views = With(@, "badge", Badge), !.admin = TRUE])

-----------------------------------------------------------------------------
(* Pages of a member.                                                      *)

WalletCard == MyCalls.getBalance
ForecastCard == DividendCalls.getMyDividend \ {"users"}
LeaveCard == MyCalls.getLeave
RunningStrip == listAuctions({"running"})

DashboardViews == [balance |-> View(WalletCard), auctions |-> View(RunningStrip),
                   dividend |-> View(ForecastCard), leave |-> View(LeaveCard)]
submitCharge == Closing("charge", Act("charging", ChargeCalls.submitChargeRequest, <<>>))
DashboardPage == Rereading({"balance", "leave", "dividend"}, Panel({}, {"charge"}))
ChargePanel == Locked("charging", Panel({"submitCharge"}, {}))
DashboardActs == [submitCharge |-> submitCharge]
DashboardPanels == [page |-> DashboardPage, charge |-> ChargePanel]
Dashboard == UnderNav(Screen(DashboardViews, DashboardActs, DashboardPanels))

HistoryTable == MyCalls.getActivity
SummaryCards == MyCalls.getActivity \cap {"ledger", "running"}
RightColumn == MyCalls.getBalance \cup listAuctions({"running"})
LeaveSegments == MyCalls.getLeave
MyActivityViews ==
  [activity |-> View(HistoryTable \cup SummaryCards), balance |-> View(RightColumn \cap {"wallets"}),
   open |-> View(RightColumn \ {"wallets"}), leave |-> View(LeaveSegments)]
MyActivity == UnderNav(Screen(MyActivityViews, <<>>, [page |-> Panel({}, {})]))

DividendBody == DividendCalls.getMyDividend
EscrowChart == DividendBody \cap {"escrow"}
Dividend == UnderNav(Screen([dividend |-> View(DividendBody \cup EscrowChart)], <<>>,
                            [page |-> Panel({}, {})]))

GridList == listAuctions(Lots)
AuctionCard == GridList
RowList == listAuctions(Lots)
TimelineBars == listAuctions(Lots)
AuctionList(cards) == UnderNav(Screen([lots |-> Picked(View(cards))], <<>>, [page |-> Panel({}, {})]))

-----------------------------------------------------------------------------
(* The page of one auction.                                                *)

ItemShowcase == AuctionCalls.getAuction \ {"users"}
BidStatus == AuctionCalls.getAuction
BidForm == {"running"} \cup MyCalls.getBalance
BidHistory == AuctionCalls.getAuction \ {"waiting"}

DetailViews == [auction |-> View(ItemShowcase \cup BidStatus \cup (BidForm \ {"wallets"}) \cup BidHistory),
                balance |-> View(BidForm \cap {"wallets"})]
onSubmitBid == Act("submitting", AuctionCalls.placeBid, <<{"auction", "balance"}>>)
DetailStream == [parts |-> {"running", "ended"}, asks |-> {"auction", "balance"}]
DetailPage == Needing({"auction"}, Panel({"onSubmitBid"}, {}))
DetailActs == [onSubmitBid |-> onSubmitBid]
AuctionDetail ==
  [UnderNav(Screen(DetailViews, DetailActs, [page |-> DetailPage]))
     EXCEPT !.stream = DetailStream, !.blank = {"auction"}]

-----------------------------------------------------------------------------
(* The market of a member.                                                 *)

RequestStrip == RedemptionCalls.listMyRedemptionRequests
Catalogue == RedemptionCalls.listRedemptionItems
RedemptionViews == [items |-> View(Catalogue), requests |-> View(RequestStrip),
                    balance |-> View(MyCalls.getBalance)]
doSubmit == Closing("confirm", Act("submitting", RedemptionCalls.submitRedemptionRequest,
                                   <<{"items", "requests", "balance"}>>))
doSubmitWish == Closing("wish", Act("wishSubmitting", RedemptionCalls.submitCustomRedemptionRequest,
                                    <<{"requests", "balance"}>>))
doConfirmReceived == Act(NoFlag, RedemptionCalls.confirmRedemptionReceived, <<{"requests"}>>)
RedemptionPage == Panel({"doConfirmReceived"}, {"confirm", "wish", "history"})
WishPanel == Locked("wishSubmitting", Panel({"doSubmitWish"}, {}))
HistoryPanel == Panel({}, {})
ConfirmPanel == Locked("submitting", Needing({"items", "balance"}, Panel({"doSubmit"}, {})))
RedemptionActs == [doSubmit |-> doSubmit, doSubmitWish |-> doSubmitWish,
                   doConfirmReceived |-> doConfirmReceived]
RedemptionPanels == [page |-> RedemptionPage, wish |-> WishPanel, history |-> HistoryPanel,
                     confirm |-> ConfirmPanel]
Redemption == UnderNav(Screen(RedemptionViews, RedemptionActs, RedemptionPanels))

-----------------------------------------------------------------------------
(* Administration: members and their charge requests.                      *)

MemberColumns == MemberCalls.listMembers \ {"leaves"}
LeaveBar == MemberCalls.listMembers \cap {"leaves"}
ChargeRows == ChargeCalls.listAdminChargeRequests
PendingCount == ChargeCalls.listAdminChargeRequests \cap {"charges"}

AdminMembersViews ==
  [members |-> View(MemberColumns \cup LeaveBar),
   chargeList |-> In("charges", Picked(View(ChargeRows))), pendingCount |-> Polled(View(PendingCount))]

\* A row's buttons are disabled while the last row decided is this one; the others' stay enabled.
reloadAfterRowAction == <<{"chargeList"}, {"pendingCount"}, {"members"}>>
doApproveRow == Act(NoFlag, ChargeCalls.approveChargeRequest, reloadAfterRowAction)
doRejectRow == Act(NoFlag, ChargeCalls.rejectChargeRequest, reloadAfterRowAction)
doCredit == Closing("credit", Act("crediting", MemberCalls.adminCreditWallet, <<{"members"}>>))
doApproveRequest == Closing("credit", Act("crediting", ChargeCalls.approveChargeRequest,
                                          <<{"members"}, {"chargeList"}, {"pendingCount"}>>))
doRejectRequest == Closing("credit", Act("crediting", ChargeCalls.rejectChargeRequest,
                                         <<{"chargeList"}, {"pendingCount"}>>))
doSync == Act("syncing", MemberCalls.syncMembers, <<{"members"}>>)
doSave == Closing("form", Act("saving", MemberCalls.createMember \cup MemberCalls.updateMember,
                              <<{"members"}>>))
toggleActive == Act(NoFlag, MemberCalls.updateMember, <<{"members"}>>)

AdminMembersPage == Rereading({"members"}, Panel({"doSync", "toggleActive"}, {"charges", "credit", "form"}))
ChargeListPanel == Rereading({"chargeList"}, Needing({"chargeList"},
                     Panel({"doApproveRow", "doRejectRow"}, {"credit"})))
CreditPanel == Locked("crediting", Needing({"members"},
                 Panel({"doCredit", "doApproveRequest", "doRejectRequest"}, {})))
FormPanel == Locked("saving", Panel({"doSave"}, {}))
AdminMembersActs ==
  [doApproveRow |-> doApproveRow, doRejectRow |-> doRejectRow, doCredit |-> doCredit,
   doApproveRequest |-> doApproveRequest, doRejectRequest |-> doRejectRequest,
   doSync |-> doSync, doSave |-> doSave, toggleActive |-> toggleActive]
AdminMembersPanels == [page |-> AdminMembersPage, charges |-> ChargeListPanel,
                       credit |-> CreditPanel, form |-> FormPanel]
AdminMembers == UnderTabs(Screen(AdminMembersViews, AdminMembersActs, AdminMembersPanels))

-----------------------------------------------------------------------------
(* Administration: operations.                                             *)

KpiCards == AdminCalls.getAdminStats \ {"outbox", "requests"}
UnsoldList == listAuctions({"ended"}) \ {"users"}
MemberPicker == MemberCalls.listMembers \cap {"users"}
DividendPreview == Raising("divLoading", In("dividend", Anew(View(DividendCalls.previewDividend))))
PoolPreview == Raising("poolLoading", In("pool", Anew(View(DividendCalls.previewPool))))
AdminOpsViews ==
  [stats |-> View(KpiCards), unsold |-> Picked(View(UnsoldList)), people |-> View(MemberPicker),
   divPreview |-> DividendPreview, poolPreview |-> PoolPreview]

doGrantUnsold == Closing("unsold", Act("unsoldGranting", UnsoldCalls.grantEventFromUnsold,
                                       <<{"stats", "unsold"}>>))
doReopenUnsold == Closing("unsold", Act("unsoldGranting", UnsoldCalls.reopenUnsoldAuction,
                                        <<{"stats", "unsold"}>>))
runPool == Closing("pool", Act("poolLoading", DividendCalls.collectLeavePool, <<{"stats"}>>))
runDividend == Closing("dividend", Act("divLoading", DividendCalls.settleDividend, <<{"stats"}>>))
triggerSettle == Act("running", LotCalls.settleDue, <<{"stats", "unsold"}>>)

AdminOpsPage == Rereading({"stats"}, Panel({"triggerSettle"}, {"unsold", "pool", "dividend"}))
UnsoldPanel == Locked("unsoldGranting", Needing({"unsold", "people"},
                 Panel({"doGrantUnsold", "doReopenUnsold"}, {})))
PoolPanel == Locked("poolLoading", Needing({"poolPreview"}, Panel({"runPool"}, {})))
DividendPanel == Locked("divLoading", Needing({"divPreview"}, Panel({"runDividend"}, {})))
AdminOpsActs ==
  [doGrantUnsold |-> doGrantUnsold, doReopenUnsold |-> doReopenUnsold, runPool |-> runPool,
   runDividend |-> runDividend, triggerSettle |-> triggerSettle]
AdminOpsPanels ==
  [page |-> AdminOpsPage, unsold |-> UnsoldPanel, pool |-> PoolPanel, dividend |-> DividendPanel]
AdminOps == UnderTabs(Screen(AdminOpsViews, AdminOpsActs, AdminOpsPanels))

-----------------------------------------------------------------------------
(* Administration: auctions.                                               *)

Counters == SupplyCalls.getAuctionsSummary
PolicyLine == PolicyCalls.getReleasePolicy
RunningRows == listAuctions({"running"})
WaitingRows == listAuctions({"waiting"}) \ {"users"}
EndedRows == listAuctions({"ended"})
ReleaseBanner == UnsoldCalls.getUpcomingRelease
AdminAuctionsViews ==
  [policy |-> View(PolicyLine), summary |-> View(Counters), upcoming |-> View(WaitingRows),
   open |-> View(RunningRows), upcomingRelease |-> View(ReleaseBanner),
   ended |-> In("ended", View(EndedRows))]

doExtend == Closing("open", Act("openActing", LotCalls.extendAuctionDeadline, <<{"summary", "open"}>>))
doCloseNow == Closing("open", Act("openActing", LotCalls.closeAuctionNow, <<{"summary", "open"}>>))
doCancel == Act("cancelling", SupplyCalls.cancelAuctions, <<{"summary", "upcoming"}>>)
doSchedule == Closing("edit", Act("acting", LotCalls.scheduleAuction, <<{"summary", "upcoming"}>>))
\* Mutant: the lot opened is not looked for among the open ones.
doOpenNowForgetful == Closing("edit", Act("acting", LotCalls.openAuction, <<{"summary", "upcoming"}>>))
doOpenNow == Closing("edit", Act("acting", LotCalls.openAuction, <<{"summary", "upcoming", "open"}>>))
\* The page's reread is not awaited in the dialog of a policy or of a new lot.
savePolicy == Falling({"answer"}, Closing("policy", Act("saving", PolicyCalls.updateReleasePolicy,
                                                        <<{"policy"}>>)))
create == Falling({"answer"}, Closing("create", Act("creating", SupplyCalls.createAuction,
                                                    <<{"summary", "upcoming"}>>)))

AdminAuctionsPage == Rereading({"summary", "upcoming", "open", "policy"},
                       Panel({"doCancel"}, {"open", "edit", "policy", "create", "ended"}))
OpenPanel == Locked("openActing", Needing({"open"}, Panel({"doExtend", "doCloseNow"}, {})))
EditPanel == Locked("acting", Needing({"upcoming"}, Panel({"doSchedule", "doOpenNow"}, {})))
PolicyPanel == Locked("saving", Panel({"savePolicy"}, {}))
CreatePanel == Locked("creating", Panel({"create"}, {}))
\* The list of ended lots unfolds on the page: what the page offers stays offered.
EndedList == AdminAuctionsPage
AdminAuctionsActs ==
  [doExtend |-> doExtend, doCloseNow |-> doCloseNow, doCancel |-> doCancel,
   doSchedule |-> doSchedule, doOpenNow |-> doOpenNow, savePolicy |-> savePolicy,
   create |-> create]
AdminAuctionsPanels ==
  [page |-> AdminAuctionsPage, open |-> OpenPanel, edit |-> EditPanel, policy |-> PolicyPanel,
   create |-> CreatePanel, ended |-> EndedList]
AdminAuctions == UnderTabs(Screen(AdminAuctionsViews, AdminAuctionsActs, AdminAuctionsPanels))

-----------------------------------------------------------------------------
(* Administration: the catalogue, the requests, the ledger.                *)

ItemGrid == StoreCalls.listAdminStoreItems
AuditRows == StoreCalls.listAdminStoreItemAudits
AdminStoreViews == [items |-> View(ItemGrid), audits |-> In("audit", View(AuditRows))]
doSaveItem == Closing("form", Act("saving", StoreCalls.createAdminStoreItem
                                              \cup StoreCalls.updateAdminStoreItem, <<{"items"}>>))
toggleItem == Act(NoFlag, StoreCalls.setAdminStoreItemActive, <<{"items"}>>)
AdminStorePage == Rereading({"items"}, Needing({"items"}, Panel({"toggleItem"}, {"form", "audit"})))
ItemFormPanel == Locked("saving", Panel({"doSaveItem"}, {}))
AuditPanel == Panel({}, {})
AdminStoreActs == [doSaveItem |-> doSaveItem, toggleItem |-> toggleItem]
AdminStorePanels == [page |-> AdminStorePage, form |-> ItemFormPanel, audit |-> AuditPanel]
AdminStore == UnderTabs(Screen(AdminStoreViews, AdminStoreActs, AdminStorePanels))

RequestGrid == RedemptionCalls.listAdminRedemptionRequests \ {"items"}
StatusCards == RedemptionCalls.getRedemptionSummary
AdminRedemptionViews == [requests |-> Picked(View(RequestGrid)), summary |-> View(StatusCards)]
\* The flag is the request decided: once its dialog has closed the next one's is free, and the
\* end of any decision clears whatever it holds by then.
decide == Falling({"answer", "end"},
                  Closing("decision", Act("acting", DecisionCalls.approveRedemptionRequest
                                                      \cup DecisionCalls.rejectRedemptionRequest,
                                          <<{"requests", "summary"}>>)))
AdminRedemptionPage == Panel({}, {"decision"})
DecisionPanel == Locked("acting", Needing({"requests"}, Panel({"decide"}, {})))
AdminRedemptionActs == [decide |-> decide]
AdminRedemptionPanels == [page |-> AdminRedemptionPage, decision |-> DecisionPanel]
AdminRedemption ==
  UnderTabs(Screen(AdminRedemptionViews, AdminRedemptionActs, AdminRedemptionPanels))

LedgerRows == AdminCalls.listLedger
AdminLedger == UnderTabs(Screen([entries |-> Grown(Picked(View(LedgerRows)))], <<>>, [page |-> Panel({}, {})]))

\* What the router shows for each path.
Screens ==
  [dashboard |-> Dashboard, grid |-> AuctionList(GridList \cup AuctionCard),
   row |-> AuctionList(RowList), timeline |-> AuctionList(TimelineBars),
   detail |-> AuctionDetail, activity |-> MyActivity, dividend |-> Dividend,
   redemption |-> Redemption, ops |-> AdminOps, ledger |-> AdminLedger, members |-> AdminMembers,
   adminRedemption |-> AdminRedemption, auctions |-> AdminAuctions, store |-> AdminStore]
=============================================================================
