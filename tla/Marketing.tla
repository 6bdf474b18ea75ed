------------------------------- MODULE Marketing -------------------------------
(***************************************************************************)
(* Campaigns with what they sent, and promotions with what was used of     *)
(* them: campaigns.service.ts and promotions.service.ts of                 *)
(* apps/api/src/modules/marketing.  Every method reads the row, decides,   *)
(* and writes by id alone.  A campaign has one addressee; names, dates,    *)
(* audiences and discounts are left out.                                   *)
(*                                                                         *)
(* Nothing compares usedCount with maxUses where a use is recorded.        *)
(***************************************************************************)
EXTENDS Requests, Sequences

CONSTANTS
  Campaigns,
  Promotions,
  MaxSendings,  \* bound: messages a campaign sends its addressee
  MaxUsed       \* bound: uses of a promotion

ASSUME MarketingAssumption == MaxSendings \in Nat /\ MaxUsed \in Nat

VARIABLES
  campaign,     \* campaigns
  message,      \* campaign_recipients of each
  promotion,    \* promotions
  uses          \* the uses of each that were recorded

marketingTables == <<campaign, message, promotion, uses>>
marketingVars == <<marketingTables, call>>

CampaignStatus == {"none", "draft", "scheduled", "completed", "deleted"}
Message == [opened : BOOLEAN, clicked : BOOLEAN, converted : BOOLEAN]
NewMessage == [opened |-> FALSE, clicked |-> FALSE, converted |-> FALSE]
PromotionRow == [status : {"none", "active", "inactive", "deleted"}, usedCount : 0..MaxUsed]

MarketingCall ==
  [op : {"schedule", "send", "removeCampaign"}, doc : Campaigns, read : CampaignStatus]
  \cup [op : {"recordUse", "removePromotion"}, doc : Promotions, read : 0..MaxUsed]

MarketingInit ==
  /\ campaign = [c \in Campaigns |-> "none"]
  /\ message = [c \in Campaigns |-> <<>>]
  /\ promotion = [p \in Promotions |-> [status |-> "none", usedCount |-> 0]]
  /\ uses = [p \in Promotions |-> 0]
  /\ CallsInit

-----------------------------------------------------------------------------
CreateCampaign(c) ==
  /\ campaign[c] = "none"
  /\ campaign' = [campaign EXCEPT ![c] = "draft"]
  /\ UNCHANGED <<message, promotion, uses, call>>

CampaignStepFrom(op) ==
  CASE op \in {"schedule", "removeCampaign"} -> {"draft"}
    [] op = "send" -> {"draft", "scheduled"}

StartCampaignStep(u, c, op) ==
  /\ campaign[c] \in CampaignStepFrom(op)
  /\ Enter(u, [op |-> op, doc |-> c, read |-> campaign[c]])
  /\ UNCHANGED marketingTables

FinishSchedule(u) ==
  LET c == call[u].doc
  IN  /\ call[u].op = "schedule"
      /\ campaign[c] # "deleted"
      /\ campaign' = [campaign EXCEPT ![c] = "scheduled"]
      /\ Leave(u)
      /\ UNCHANGED <<message, promotion, uses>>

(* Sending, recipients and completed are one transaction, which takes the  *)
(* campaign's row first and does not read it again.                        *)
FinishSend(u) ==
  LET c == call[u].doc
  IN  /\ call[u].op = "send"
      /\ campaign[c] # "deleted"
      /\ Len(message[c]) < MaxSendings
      /\ campaign' = [campaign EXCEPT ![c] = "completed"]
      /\ message' = [message EXCEPT ![c] = Append(@, NewMessage)]
      /\ Leave(u)
      /\ UNCHANGED <<promotion, uses>>

(* The recipients are deleted with their campaign. *)
FinishRemoveCampaign(u) ==
  LET c == call[u].doc
  IN  /\ call[u].op = "removeCampaign"
      /\ campaign[c] # "deleted"
      /\ campaign' = [campaign EXCEPT ![c] = "deleted"]
      /\ message' = [message EXCEPT ![c] = <<>>]
      /\ Leave(u)
      /\ UNCHANGED <<promotion, uses>>

(* A mark is set and never cleared, so the reading cannot be overtaken but *)
(* for the time it notes.                                                  *)
RecordEngagement(c, k, event) ==
  /\ message' = [message EXCEPT ![c][k] =
                   [opened    |-> @.opened \/ event \in {"opened", "clicked"},
                    clicked   |-> @.clicked \/ event = "clicked",
                    converted |-> @.converted \/ event = "converted"]]
  /\ UNCHANGED <<campaign, promotion, uses, call>>

CreatePromotion(p) ==
  /\ promotion[p].status = "none"
  /\ promotion' = [promotion EXCEPT ![p].status = "active"]
  /\ UNCHANGED <<campaign, message, uses, call>>

(* update of isActive. *)
SwitchPromotion(p, status) ==
  /\ promotion[p].status \in {"active", "inactive"}
  /\ promotion' = [promotion EXCEPT ![p].status = status]
  /\ UNCHANGED <<campaign, message, uses, call>>

StartPromotionStep(u, p, op) ==
  /\ promotion[p].status \in {"active", "inactive"}
  /\ Enter(u, [op |-> op, doc |-> p, read |-> promotion[p].usedCount])
  /\ UNCHANGED marketingTables

(* The count that was read, and one. *)
FinishRecordUse(u) ==
  LET c == call[u]
  IN  /\ c.op = "recordUse"
      /\ promotion[c.doc].status # "deleted" /\ uses[c.doc] < MaxUsed
      /\ promotion' = [promotion EXCEPT ![c.doc].usedCount = c.read + 1]
      /\ uses' = [uses EXCEPT ![c.doc] = @ + 1]
      /\ Leave(u)
      /\ UNCHANGED <<campaign, message>>

(* A promotion that was used is switched off, another deleted. *)
FinishRemovePromotion(u) ==
  LET c == call[u]
  IN  /\ c.op = "removePromotion"
      /\ promotion[c.doc].status # "deleted"
      /\ promotion' = [promotion EXCEPT ![c.doc].status =
                         IF c.read > 0 THEN "inactive" ELSE "deleted"]
      /\ Leave(u)
      /\ UNCHANGED <<campaign, message, uses>>

MarketingFails(u) == Fails(u) /\ UNCHANGED marketingTables

MarketingNext ==
  \/ \E c \in Campaigns :
       \/ CreateCampaign(c)
       \/ \E k \in DOMAIN message[c], event \in {"opened", "clicked", "converted"} :
            RecordEngagement(c, k, event)
  \/ \E p \in Promotions :
       CreatePromotion(p) \/ \E status \in {"active", "inactive"} : SwitchPromotion(p, status)
  \/ \E u \in Users :
       \/ \E c \in Campaigns, op \in {"schedule", "send", "removeCampaign"} :
            StartCampaignStep(u, c, op)
       \/ \E p \in Promotions, op \in {"recordUse", "removePromotion"} :
            StartPromotionStep(u, p, op)
       \/ FinishSchedule(u) \/ FinishSend(u) \/ FinishRemoveCampaign(u)
       \/ FinishRecordUse(u) \/ FinishRemovePromotion(u) \/ MarketingFails(u)

MarketingSpec == MarketingInit /\ [][MarketingNext]_marketingVars

-----------------------------------------------------------------------------
MarketingTypeOK ==
  /\ campaign \in [Campaigns -> CampaignStatus]
  /\ message \in [Campaigns -> Seq(Message)]
  /\ \A c \in Campaigns : Len(message[c]) <= MaxSendings
  /\ promotion \in [Promotions -> PromotionRow]
  /\ uses \in [Promotions -> 0..MaxUsed]
  /\ call \in [Users -> MarketingCall \cup {NoCall}]

(* A use that overlaps another may go uncounted, but none counts twice: a  *)
(* promotion is never exhausted before it was used as often as allowed.    *)
UseCountedOnce == \A p \in Promotions : promotion[p].usedCount <= uses[p]

(* A campaign that was sent is neither sent again, scheduled again nor     *)
(* deleted, and a used promotion is not deleted, but by a call that had    *)
(* read the row before.                                                    *)
SentAndUsedStay ==
  [][/\ \A c \in Campaigns : campaign[c] = "completed" /\ Fresh(c, "completed")
          => campaign'[c] = "completed" /\ Len(message'[c]) = Len(message[c])
     /\ \A p \in Promotions : uses[p] > 0 /\ Fresh(p, uses[p]) /\ promotion'[p].status = "deleted"
          => promotion[p].status = "deleted"]_marketingVars
=============================================================================
