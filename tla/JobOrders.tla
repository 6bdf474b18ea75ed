------------------------------- MODULE JobOrders -------------------------------
(***************************************************************************)
(* Made-to-order jobs and the stages of their making:                      *)
(* job-orders.service.ts.  The status of the job and those of its stages   *)
(* hardly know of each other: a stage is completed in any status of the    *)
(* job, in any order, and the job is ready when someone says so.           *)
(***************************************************************************)
EXTENDS Requests

CONSTANTS
  Jobs,
  LastStage       \* DEFAULT_STAGES

ProductionStage == 3

ASSUME JobOrdersAssumption == LastStage \in Nat /\ LastStage >= ProductionStage

VARIABLES
  job,            \* job_orders; consumed: the material not kept in stock is booked as used
  stage           \* job_order_stages

jobOrdersTables == <<job, stage>>
jobOrdersVars == <<jobOrdersTables, call>>

Stages == 1..LastStage
JobStatus == {"none", "quotation", "design_review", "approved", "in_production", "ready",
              "delivered", "cancelled"}
JobRow == [status : JobStatus, consumed : BOOLEAN]

JobOps == {"approveQuotation", "confirmDesign", "startProduction", "markReady", "deliver", "cancel"}

JobCall ==
  [op : JobOps, doc : Jobs, read : JobStatus]
  \cup [op : {"complete"}, doc : Jobs, read : JobStatus, stage : Stages]
  \cup [op : {"completing"}, doc : Jobs, read : JobStatus, stage : Stages, goesOn : BOOLEAN]

JobOrdersInit ==
  /\ job = [j \in Jobs |-> [status |-> "none", consumed |-> FALSE]]
  /\ stage = [j \in Jobs |-> [k \in Stages |-> "pending"]]
  /\ CallsInit

(* The job, its bill of material and its stages, in one transaction. *)
CreateJob(j) ==
  /\ job[j].status = "none"
  /\ job' = [job EXCEPT ![j].status = "quotation"]
  /\ UNCHANGED <<stage, call>>

(* quality_check, from which a job may be ready too, no method sets. *)
JobStepFrom(op) ==
  CASE op = "approveQuotation" -> {"quotation"}
    [] op = "confirmDesign"    -> {"design_review"}
    [] op = "startProduction"  -> {"approved"}
    [] op = "markReady"        -> {"in_production"}
    [] op = "deliver"          -> {"ready"}
    [] op = "cancel"           -> JobStatus \ {"none", "delivered", "cancelled"}

JobStepTo(op) ==
  CASE op = "approveQuotation" -> "design_review"
    [] op = "confirmDesign"    -> "approved"
    [] op = "startProduction"  -> "in_production"
    [] op = "markReady"        -> "ready"
    [] op = "deliver"          -> "delivered"
    [] op = "cancel"           -> "cancelled"

StartJobStep(u, j, op) ==
  /\ job[j].status \in JobStepFrom(op)
  /\ Enter(u, [op |-> op, doc |-> j, read |-> job[j].status])
  /\ UNCHANGED jobOrdersTables

(* The stage k of j is written in a transaction that has not committed. *)
StageHeld(j, k) ==
  \E v \in Users : call[v].op = "completing" /\ call[v].doc = j /\ call[v].stage = k

(* startProduction books the material, and puts the production stage in    *)
(* progress whatever has become of it.                                     *)
FinishJobStep(u) ==
  LET op == call[u].op
      j  == call[u].doc
      starts == op = "startProduction"
  IN  /\ op \in JobOps
      /\ starts => ~ StageHeld(j, ProductionStage)
      /\ job' = [job EXCEPT ![j] = [status |-> JobStepTo(op), consumed |-> @.consumed \/ starts]]
      /\ stage' = IF starts THEN [stage EXCEPT ![j][ProductionStage] = "in_progress"] ELSE stage
      /\ Leave(u)

-----------------------------------------------------------------------------
StartComplete(u, j, k) ==
  /\ job[j].status # "none"
  /\ stage[j][k] # "done"
  /\ Enter(u, [op |-> "complete", doc |-> j, read |-> job[j].status, stage |-> k])
  /\ UNCHANGED jobOrdersTables

(* It takes the stage's row, then looks whether the next one is pending. *)
FindNextStage(u) ==
  LET c == call[u]
  IN  /\ c.op = "complete"
      /\ ~ StageHeld(c.doc, c.stage)
      /\ Proceed(u, [op |-> "completing", doc |-> c.doc, read |-> c.read, stage |-> c.stage,
                     goesOn |-> c.stage < LastStage /\ stage[c.doc][c.stage + 1] = "pending"])
      /\ UNCHANGED jobOrdersTables

FinishComplete(u) ==
  LET c == call[u]
  IN  /\ c.op = "completing"
      /\ c.goesOn => ~ StageHeld(c.doc, c.stage + 1)
      /\ stage' = [stage EXCEPT ![c.doc] =
                     [k \in Stages |-> IF k = c.stage THEN "done"
                                       ELSE IF c.goesOn /\ k = c.stage + 1 THEN "in_progress"
                                       ELSE @[k]]]
      /\ Leave(u)
      /\ UNCHANGED job

JobFails(u) == Fails(u) /\ UNCHANGED jobOrdersTables

JobOrdersNext ==
  \/ \E j \in Jobs : CreateJob(j)
  \/ \E u \in Users, j \in Jobs :
       \/ \E op \in JobOps : StartJobStep(u, j, op)
       \/ \E k \in Stages : StartComplete(u, j, k)
  \/ \E u \in Users : FinishJobStep(u) \/ FindNextStage(u) \/ FinishComplete(u) \/ JobFails(u)

JobOrdersSpec == JobOrdersInit /\ [][JobOrdersNext]_jobOrdersVars

-----------------------------------------------------------------------------
JobOrdersTypeOK ==
  /\ job \in [Jobs -> JobRow]
  /\ stage \in [Jobs -> [Stages -> {"pending", "in_progress", "done"}]]
  /\ call \in [Users -> JobCall \cup {NoCall}]

(* Nothing is ready or delivered whose material was not booked: however    *)
(* the steps overlap and overwrite each other's status, production was     *)
(* started before.                                                         *)
MadeBeforeReady ==
  \A j \in Jobs : job[j].status \in {"in_production", "ready", "delivered"} => job[j].consumed

(* A delivered or cancelled job keeps its status: only a call that had     *)
(* read an earlier one overwrites it.                                      *)
JobSealed ==
  [][\A j \in Jobs :
       job[j].status \in {"delivered", "cancelled"} /\ Fresh(j, job[j].status)
         => job'[j].status = job[j].status]_jobOrdersVars
=============================================================================
