---------------------------- MODULE NativeReadiness ----------------------------
(***************************************************************************)
(* The readiness of native Kubernetes objects, by the table of rules in    *)
(* internal/xp/native.go.  An object is what the rules read of it:         *)
(*   gk      - group and kind;                                             *)
(*   conds   - its status conditions; status - it has a status at all;     *)
(*   phase   - status.phase, "" if missing;                                *)
(*   said    - what status.reason and status.message say, "" when there is *)
(*             no reason; hints - the payloads in it;                      *)
(*   ready   - status.readyReplicas; want - spec.replicas, 1 by default.   *)
(***************************************************************************)
EXTENDS Classification

\* conditionByType: <<>> when there is none.
ConditionByType(cs, type) ==
  LET hits == {i \in 1..Len(cs) : cs[i].type = type}
  IN  IF hits = {} THEN <<>> ELSE <<cs[Min(hits)]>>
Holds(cs, type) == ConditionByType(cs, type) # <<>> /\ ConditionByType(cs, type)[1].status = "True"

RuleLine(about) == Plainly("rule", about)

Says(state, reasons) == [state |-> state, reasons |-> reasons]

LineOr_ConditionOnly(c) == IF c.text # "" THEN <<ConditionLine(c)>> ELSE <<>>

\* A condition without reason and message is given a text.
LineOr(c) == <<IF c.text # "" THEN ConditionLine(c) ELSE RuleLine(c.type)>>

DeploymentReadiness(cs) ==
  LET prog      == ConditionByType(cs, "Progressing")
      avail     == ConditionByType(cs, "Available")
      deadline  == prog # <<>> /\ prog[1].status = "False" /\ prog[1].text = "deadline"
      noReplica == Holds(cs, "ReplicaFailure")
  IN  IF deadline \/ noReplica
      THEN Says("Blocked", (IF deadline THEN LineOr(prog[1]) ELSE <<>>)
                           \o IF noReplica THEN LineOr(ConditionByType(cs, "ReplicaFailure")[1]) ELSE <<>>)
      ELSE IF avail = <<>> THEN Declined
      ELSE IF Holds(cs, "Available") THEN Says("Ready", <<>>)
      ELSE Says("Pending", LineOr(avail[1]))

JobReadiness(cs) ==
  IF Holds(cs, "Complete") THEN Says("Ready", <<>>)
  ELSE IF Holds(cs, "Failed") THEN Says("Blocked", LineOr(ConditionByType(cs, "Failed")[1]))
  ELSE Says("Pending", <<RuleLine("completion")>>)

PvcReadiness(o) ==
  CASE o.phase = "Bound" -> Says("Ready", <<>>)
    [] o.phase = "Lost" -> Says("Blocked", <<RuleLine("phase")>>)
    [] o.phase = "Pending" -> Says("Pending", <<RuleLine("phase")>>)
    [] OTHER -> Declined

StatusLine(o) ==
  [from |-> "rule", about |-> "phase", noise |-> o.said = "noise", hints |-> o.hints]

\* Only the two final phases are judged; what a failed one says of itself comes
\* before its Ready condition.
PodReadiness(o) ==
  LET ready == ConditionByType(o.conds, "Ready")
  IN  CASE o.phase = "Succeeded" -> Says("Ready", <<>>)
        [] o.phase = "Failed" ->
             Says("Blocked", IF o.said # "" THEN <<StatusLine(o)>>
                             ELSE IF ready # <<>> /\ ready[1].text # "" THEN <<ConditionLine(ready[1])>>
                             ELSE <<RuleLine("phase")>>)
        [] OTHER -> Declined

\* Never blocked.
StatefulSetReadiness(o) ==
  IF ~o.status THEN Declined
  ELSE IF o.ready >= o.want THEN Says("Ready", <<>>)
  ELSE Says("Pending", <<RuleLine("readiness")>>)

NativeReadiness(o) ==
  CASE o.gk = "apps/Deployment" -> DeploymentReadiness(o.conds)
    [] o.gk = "batch/Job" -> JobReadiness(o.conds)
    [] o.gk = "/PersistentVolumeClaim" -> PvcReadiness(o)
    [] o.gk = "/Pod" -> PodReadiness(o)
    [] o.gk = "apps/StatefulSet" -> StatefulSetReadiness(o)
    [] OTHER -> Declined
=============================================================================
