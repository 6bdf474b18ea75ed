------------------------------- MODULE HrPolicies -------------------------------
(***************************************************************************)
(* Company policies that employees acknowledge: hr/policies                *)
(* /policies.service.ts.  An edit of a published policy makes a draft of   *)
(* the next version of it, to be published and acknowledged anew.          *)
(***************************************************************************)
EXTENDS Requests

CONSTANTS
  Policies,
  MaxTexts        \* bound on the texts a policy is given

ASSUME HrPoliciesAssumption == MaxTexts \in Nat \ {0}

VARIABLES
  policy,         \* policies; text: which text it has
  ack             \* policy_acknowledgments: the employee, who is a user, and the version

hrPoliciesTables == <<policy, ack>>
hrPoliciesVars == <<hrPoliciesTables, call>>

PolicyStatus == {"none", "draft", "published"}
Policy == [status : PolicyStatus, version : 0..MaxTexts, text : 0..MaxTexts]
NoPolicy == [status |-> "none", version |-> 0, text |-> 0]
Ack == [by : Users, of : Policies, version : 1..MaxTexts]

HrPoliciesCall ==
  [op : {"updatePolicy", "publish", "acknowledge"}, doc : Policies, read : PolicyStatus,
   version : 1..MaxTexts, text : 1..MaxTexts]

HrPoliciesInit ==
  /\ policy = [p \in Policies |-> NoPolicy]
  /\ ack = {}
  /\ CallsInit

CreatePolicy(p) ==
  /\ policy[p].status = "none"
  /\ policy' = [policy EXCEPT ![p] = [status |-> "draft", version |-> 1, text |-> 1]]
  /\ UNCHANGED <<ack, call>>

(* updatePolicy and getPolicy read the row; publish wants a draft, and an  *)
(* employee acknowledges the published text in the version it names.       *)
StartPolicyStep(u, p, op) ==
  /\ policy[p].status \in CASE op = "publish" -> {"draft"}
                            [] op = "acknowledge" -> {"published"}
                            [] OTHER -> {"draft", "published"}
  /\ Enter(u, [op |-> op, doc |-> p, read |-> policy[p].status,
               version |-> policy[p].version, text |-> policy[p].text])
  /\ UNCHANGED hrPoliciesTables

FinishUpdatePolicy(u) ==
  LET c    == call[u]
      bump == c.read = "published"
  IN  /\ c.op = "updatePolicy"
      /\ policy[c.doc].text < MaxTexts
      /\ c.version < MaxTexts
      /\ policy' = [policy EXCEPT ![c.doc] =
                      [status  |-> IF bump THEN "draft" ELSE @.status,
                       version |-> IF bump THEN c.version + 1 ELSE @.version,
                       text    |-> @.text + 1]]
      /\ Leave(u)
      /\ UNCHANGED ack

FinishPublish(u) ==
  /\ call[u].op = "publish"
  /\ policy' = [policy EXCEPT ![call[u].doc].status = "published"]
  /\ Leave(u)
  /\ UNCHANGED ack

(* The unique index on the employee, the policy and the version. *)
Acknowledged(u, p, version) == [by |-> u, of |-> p, version |-> version] \in ack

FinishAcknowledge(u) ==
  LET c == call[u]
  IN  /\ c.op = "acknowledge"
      /\ ~ Acknowledged(u, c.doc, c.version)
      /\ ack' = ack \cup {[by |-> u, of |-> c.doc, version |-> c.version]}
      /\ Leave(u)
      /\ UNCHANGED policy

PolicyFails(u) == Fails(u) /\ UNCHANGED hrPoliciesTables

HrPoliciesNext ==
  \/ \E p \in Policies : CreatePolicy(p)
  \/ \E u \in Users, p \in Policies, op \in {"updatePolicy", "publish", "acknowledge"} :
       StartPolicyStep(u, p, op)
  \/ \E u \in Users :
       FinishUpdatePolicy(u) \/ FinishPublish(u) \/ FinishAcknowledge(u) \/ PolicyFails(u)

HrPoliciesSpec == HrPoliciesInit /\ [][HrPoliciesNext]_hrPoliciesVars

-----------------------------------------------------------------------------
HrPoliciesTypeOK ==
  /\ policy \in [Policies -> Policy]
  /\ ack \subseteq Ack
  /\ call \in [Users -> HrPoliciesCall \cup {NoCall}]

(* A published text stands: it changes with the version, in a draft, and   *)
(* only a call that had read the policy as a draft, or in an earlier       *)
(* version, changes it otherwise.                                          *)
PublishedTextStands ==
  [][\A p \in Policies :
       /\ policy[p].status = "published"
       /\ Fresh(p, "published")
       /\ \A u \in Users : call[u] # NoCall => call[u].version = policy[p].version
       => \/ policy'[p].text = policy[p].text
          \/ policy'[p].version = policy[p].version + 1 /\ policy'[p].status = "draft"]_hrPoliciesVars
=============================================================================
