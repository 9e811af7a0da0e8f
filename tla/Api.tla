-------------------------------- MODULE Api --------------------------------
(***************************************************************************)
(* What the calls of the web client read and write.                        *)
(*                                                                         *)
(* The data of the server is cut into parts; a use case that only reads is *)
(* the set of the parts its answer shows, one that writes is the set of    *)
(* the parts it changes.  A controller is a record of the routes it        *)
(* serves, and the client's library a record of the functions that call    *)
(* them, so a screen names a call and gets the parts.  What the use cases  *)
(* compute is the business of the other modules.                           *)
(***************************************************************************)

\* Auctions are cut by their state: "waiting" those not open yet, "running" the open
\* ones and their bids, "ended" those settled.  "escrow" is the sum over the BID,
\* REFUND and DIVIDEND entries of the ledger, "ledger" the entries themselves.
Lots == {"waiting", "running", "ended"}
Parts == Lots \cup {"users", "wallets", "ledger", "escrow", "leaves", "pool", "stakes", "policy",
                    "charges", "requests", "items", "audits", "outbox", "notices"}

-----------------------------------------------------------------------------
(* Use cases that read.                                                    *)

ListAuctions(statuses) == statuses \cup {"users"}
GetAuctionDetail == Lots \cup {"users"}
GetAuctionsSummary == Lots
GetWalletBalance == {"wallets"}
ListMyActivity == {"ledger"} \cup (Lots \ {"waiting"})
GetUserLeave == {"leaves"}
GetAdminStats == {"escrow", "outbox", "requests"} \cup Lots
GetMyDividend == {"stakes", "escrow", "users"}
ListLedger == {"ledger", "users"}
ListMembers == {"users", "wallets", "leaves"}
ListRedemptionItems == {"items"}
ListRedemptionRequests == {"requests", "items", "users"}
GetRedemptionSummary == {"requests"}
AdminListRedemptionItems == {"items"}
ListRedemptionItemAudits == {"audits"}
ListChargeRequests == {"charges", "users"}
GetReleasePolicy == {"policy"}
PreviewNext == {"policy", "pool"}
ListNotifications == {"notices"}
PreviewCollection == {"pool", "leaves", "users"}
PreviewDividend == {"stakes", "escrow", "users"}

-----------------------------------------------------------------------------
(* Use cases that write.                                                   *)

PlaceBid == {"running", "wallets", "ledger", "escrow"}
SettleAuction == {"running", "ended", "leaves", "ledger", "outbox"}
OpenAuction == {"waiting", "running"}
ScheduleAuction == {"waiting"}
ExtendAuctionDeadline == {"running"}
CancelAuctions == {"waiting"}
CreateAuction == {"waiting"}
ReopenUnsoldAuction == {"ended", "waiting"}
GrantEventFromUnsold == {"ended", "leaves"}
CollectLeavePool == {"pool", "stakes"}
SettleYearEndDividend == {"wallets", "ledger", "escrow"}
UpdateReleasePolicy == {"policy"}
SyncMembers == {"users", "leaves"}
ManageMembers == {"users"}
CreditWalletAdmin == {"wallets", "ledger"}
SubmitChargeRequest == {"charges", "ledger"}
ApproveChargeRequest == {"charges", "wallets", "ledger"}
RejectChargeRequest == {"charges", "ledger"}
SubmitRedemptionRequest == {"items", "requests", "wallets", "ledger"}
SubmitCustomRedemptionRequest == {"requests", "wallets", "ledger"}
ApproveRedemptionRequest == {"requests"}
RejectRedemptionRequest == {"requests", "items", "wallets", "ledger"}
ConfirmRedemptionReceived == {"requests"}
ChangeItem == {"items", "audits"}
MarkNotificationsRead == {"notices"}

-----------------------------------------------------------------------------
(* Routes of the controllers.                                              *)

AuctionRoutes == [list |-> [s \in SUBSET Lots |-> ListAuctions(s)], detail |-> GetAuctionDetail,
                  bids |-> PlaceBid]
MeRoutes == [activity |-> ListMyActivity, balance |-> GetWalletBalance, leave |-> GetUserLeave]
AdminRoutes == [stats |-> GetAdminStats, ledger |-> ListLedger]
PoolRoutes == [collect |-> CollectLeavePool, dryRun |-> PreviewCollection, upcoming |-> PreviewNext]
DividendRoutes == [settle |-> SettleYearEndDividend, dryRun |-> PreviewDividend]
MyDividendRoutes == [me |-> GetMyDividend]
MemberRoutes == [list |-> ListMembers, sync |-> SyncMembers, create |-> ManageMembers,
                 update |-> ManageMembers]
ItemRoutes == [list |-> AdminListRedemptionItems, create |-> ChangeItem, update |-> ChangeItem,
               active |-> ChangeItem, audits |-> ListRedemptionItemAudits]
MarketRoutes == [items |-> ListRedemptionItems]
RequestRoutes == [submit |-> SubmitRedemptionRequest, custom |-> SubmitCustomRedemptionRequest,
                  mine |-> ListRedemptionRequests, confirm |-> ConfirmRedemptionReceived]
DeskRoutes == [list |-> ListRedemptionRequests, summary |-> GetRedemptionSummary,
               approve |-> ApproveRedemptionRequest, reject |-> RejectRedemptionRequest]
ChargeRoutes == [list |-> ListChargeRequests, approve |-> ApproveChargeRequest,
                 reject |-> RejectChargeRequest]
CreditRoutes == [credit |-> CreditWalletAdmin]
LotRoutes == [create |-> CreateAuction, open |-> OpenAuction, schedule |-> ScheduleAuction,
              settleDue |-> SettleAuction, summary |-> GetAuctionsSummary,
              extend |-> ExtendAuctionDeadline, closeNow |-> SettleAuction,
              reopen |-> ReopenUnsoldAuction, cancel |-> CancelAuctions]
LeaveRoutes == [grantEvent |-> GrantEventFromUnsold]
PolicyRoutes == [get |-> GetReleasePolicy, update |-> UpdateReleasePolicy]
NoticeRoutes == [list |-> ListNotifications, read |-> MarkNotificationsRead]
MyChargeRoutes == [submit |-> SubmitChargeRequest]

-----------------------------------------------------------------------------
(* The functions of the client's library.                                  *)

listAuctions(statuses) == AuctionRoutes.list[statuses]
AuctionCalls == [getAuction |-> AuctionRoutes.detail, placeBid |-> AuctionRoutes.bids]
MyCalls == [getBalance |-> MeRoutes.balance, getActivity |-> MeRoutes.activity,
            getLeave |-> MeRoutes.leave]
DividendCalls == [getMyDividend |-> MyDividendRoutes.me,
                  collectLeavePool |-> PoolRoutes.collect, previewPool |-> PoolRoutes.dryRun,
                  settleDividend |-> DividendRoutes.settle, previewDividend |-> DividendRoutes.dryRun]
AdminCalls == [getAdminStats |-> AdminRoutes.stats, listLedger |-> AdminRoutes.ledger]
MemberCalls == [listMembers |-> MemberRoutes.list, syncMembers |-> MemberRoutes.sync,
                createMember |-> MemberRoutes.create, updateMember |-> MemberRoutes.update,
                adminCreditWallet |-> CreditRoutes.credit]
RedemptionCalls == [listRedemptionItems |-> MarketRoutes.items,
                    submitRedemptionRequest |-> RequestRoutes.submit,
                    submitCustomRedemptionRequest |-> RequestRoutes.custom,
                    listMyRedemptionRequests |-> RequestRoutes.mine,
                    confirmRedemptionReceived |-> RequestRoutes.confirm,
                    listAdminRedemptionRequests |-> DeskRoutes.list,
                    getRedemptionSummary |-> DeskRoutes.summary]
DecisionCalls == [approveRedemptionRequest |-> DeskRoutes.approve,
                  rejectRedemptionRequest |-> DeskRoutes.reject]
ChargeCalls == [submitChargeRequest |-> MyChargeRoutes.submit,
                listAdminChargeRequests |-> ChargeRoutes.list,
                approveChargeRequest |-> ChargeRoutes.approve,
                rejectChargeRequest |-> ChargeRoutes.reject]
LotCalls == [openAuction |-> LotRoutes.open, scheduleAuction |-> LotRoutes.schedule,
             extendAuctionDeadline |-> LotRoutes.extend, closeAuctionNow |-> LotRoutes.closeNow,
             settleDue |-> LotRoutes.settleDue]
PolicyCalls == [getReleasePolicy |-> PolicyRoutes.get, updateReleasePolicy |-> PolicyRoutes.update]
SupplyCalls == [getAuctionsSummary |-> LotRoutes.summary, cancelAuctions |-> LotRoutes.cancel,
                createAuction |-> LotRoutes.create]
UnsoldCalls == [grantEventFromUnsold |-> LeaveRoutes.grantEvent,
                reopenUnsoldAuction |-> LotRoutes.reopen, getUpcomingRelease |-> PoolRoutes.upcoming]
StoreCalls == [listAdminStoreItems |-> ItemRoutes.list, createAdminStoreItem |-> ItemRoutes.create,
               updateAdminStoreItem |-> ItemRoutes.update,
               setAdminStoreItemActive |-> ItemRoutes.active,
               listAdminStoreItemAudits |-> ItemRoutes.audits]
NoticeCalls == [listNotifications |-> NoticeRoutes.list, markNotificationsRead |-> NoticeRoutes.read]
=============================================================================
