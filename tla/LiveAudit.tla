----------------------------- MODULE LiveAudit -----------------------------
(***************************************************************************)
(* The check-up of a plan: plan_audit (solvers/plan.ts) with its findings  *)
(* and fixes, and the view that recomputes it live (useLiveSolver.ts,      *)
(* PlanAuditView.tsx): a change of the form starts the debounce, its end   *)
(* sends a request, answers come in any order or not at all, and a fix     *)
(* patches the form as it is by then.                                      *)
(*                                                                         *)
(* Quantities are in hundredths, margins and shares that are computed in   *)
(* units of 1/10000, both rounded as the code rounds them.  Demand is      *)
(* positive.  Titles and reasons are left out.                             *)
(***************************************************************************)
EXTENDS Integers, Sequences, FiniteSets

CONSTANTS
    Baselines,    \* forms the view may start from
    FieldValues,  \* per field that may be edited its values
    T,            \* the thresholds: solverParams.audit
    MaxChanges,   \* bound on the changes of the form
    StaleFixes    \* whether a fix may be applied to another form than it was made for

Segments3 == {"seg_pas", "seg_ess", "seg_com"}
Fields == Segments3 \cup {"dem", "sup", "kitGap", "gmTarget", "cashCushion", "capex"}

ASSUME AuditAssumption ==
    /\ Baselines \subseteq [Fields -> Nat] /\ DOMAIN FieldValues \subseteq Fields /\ MaxChanges \in Nat
    /\ \A f \in Baselines : f.dem > 0
    /\ \A x \in DOMAIN FieldValues : FieldValues[x] \subseteq Nat /\ (x = "dem" => 0 \notin FieldValues[x])
    /\ {T.segTolerance, T.gapHard, T.gapSoft, T.gmHardOver, T.gmSoftUnder, T.kitHard, T.kitFixTons, T.cashHard, T.cashSoft,
        T.essShareBaseline, T.essShareTol, T.capexSoft, T.scoreH, T.scoreM, T.passScore, T.condScore,
        T.margins.pas, T.margins.ess, T.margins.com} \subseteq Nat
    /\ T.gapSoft < T.gapHard /\ T.cashHard < T.cashSoft /\ 100 - T.scoreH < T.passScore /\ StaleFixes \in BOOLEAN

VARIABLES
    baseline, \* what reset brings back
    form,     \* the form as it is
    debounce, \* whether its timer runs
    asked,    \* the requests under way, and how many there were: seqRef
    shown,    \* the form whose findings are on the screen, and its request
    failed,   \* whether the last request failed
    changes   \* how often the form was changed

auditVars == <<baseline, form, debounce, asked, shown, failed, changes>>

NotShown == [seq |-> 0]
AuditTypeOK ==
    /\ baseline \in Baselines /\ form \in [Fields -> Int] /\ debounce \in BOOLEAN /\ failed \in BOOLEAN
    /\ asked.seq \in Nat /\ \A r \in asked.open : r.seq \in 1..asked.seq
    /\ shown.seq \in 0..asked.seq /\ changes \in 0..MaxChanges

AuditInit ==
    /\ baseline \in Baselines /\ form = baseline /\ debounce = TRUE
    /\ asked = [seq |-> 0, open |-> {}] /\ shown = NotShown /\ failed = FALSE /\ changes = 0

-----------------------------------------------------------------------------
(* plan_audit *)

Rounded(a, b) == (2 * a + b) \div (2 * b)
Distance(a, b) == IF a > b THEN a - b ELSE b - a
AtLeastZero(n) == IF n < 0 THEN 0 ELSE n

SegmentSum(f) == f.seg_pas + f.seg_ess + f.seg_com
GmStruct(f) ==
    Rounded(10000 * (f.seg_pas * T.margins.pas + f.seg_ess * T.margins.ess + f.seg_com * T.margins.com), f.dem)
EssShare(f) == Rounded(10000 * f.seg_ess, f.dem)

\* The segments in proportion; all of them zero stay zero.
ScaledSegments(f) == [s \in Segments3 |-> IF SegmentSum(f) = 0 THEN 0 ELSE Rounded(f[s] * f.dem, SegmentSum(f))]

\* How serious each finding is, if it is one.
Severity(f, id) ==
    LET gap == f.dem - f.sup
        target == 100 * f.gmTarget
        Level(hard, soft) == IF hard THEN "H" ELSE IF soft THEN "M" ELSE "none" IN
    CASE id = "X01" -> Level(Distance(SegmentSum(f), f.dem) > T.segTolerance, FALSE)
      [] id = "X02" -> Level(gap > T.gapHard, gap > T.gapSoft)
      [] id = "X03" -> Level(target > GmStruct(f) + T.gmHardOver, target > GmStruct(f) - T.gmSoftUnder)
      [] id = "X04" -> Level(f.kitGap > T.kitHard, f.kitGap > 0)
      [] id = "X05" -> Level(f.cashCushion < T.cashHard, f.cashCushion < T.cashSoft)
      [] id = "R01" -> Level(FALSE, Distance(EssShare(f), T.essShareBaseline) > T.essShareTol)
      [] id = "R02" -> Level(FALSE, f.capex >= T.capexSoft)

FindingIds == {"X01", "X02", "X03", "X04", "X05", "R01", "R02"}
Found(f, severity) == {id \in FindingIds : Severity(f, id) = severity}
Fixable(f) == {id \in FindingIds \ {"R01", "R02"} : Severity(f, id) # "none"}

\* The patch of each fix, for the form the finding was made in.
PatchOf(f, id) ==
    LET cash == IF Severity(f, "X05") = "H" THEN T.cashHard ELSE T.cashSoft IN
    CASE id = "X01" -> ScaledSegments(f)
      [] id = "X02" -> [x \in {"sup"} |-> f.dem]
      [] id = "X03" -> [x \in {"gmTarget"} |-> Rounded(GmStruct(f), 100)]
      [] id = "X04" -> [x \in {"kitGap"} |-> AtLeastZero(f.kitGap - T.kitFixTons)]
      [] id = "X05" -> [cashCushion |-> cash, capex |-> AtLeastZero(f.capex - (cash - f.cashCushion))]

Patched(f, patch) == [x \in Fields |-> IF x \in DOMAIN patch THEN patch[x] ELSE f[x]]

Score(f) == AtLeastZero(100 - T.scoreH * Cardinality(Found(f, "H")) - T.scoreM * Cardinality(Found(f, "M")))
Verdict(f) ==
    IF Score(f) >= T.passScore THEN "pass" ELSE IF Score(f) >= T.condScore THEN "conditional" ELSE "fail"

-----------------------------------------------------------------------------
(* The view.  The debounce is an effect of the form's value: to the same value it does not start again. *)

FormSet(new) ==
    /\ changes < MaxChanges /\ changes' = changes + 1
    /\ form' = new /\ debounce' = (debounce \/ new # form)

FieldEdited(field) == \E v \in FieldValues[field] :
    /\ FormSet([form EXCEPT ![field] = v])
    /\ UNCHANGED <<baseline, asked, shown, failed>>

FormReset ==
    /\ FormSet(baseline)
    /\ UNCHANGED <<baseline, asked, shown, failed>>

\* applyFix: the patch of a finding on the screen is laid over the form as it is.
FixApplied(id) ==
    /\ shown # NotShown /\ id \in Fixable(shown.form)
    /\ StaleFixes \/ shown.form = form
    /\ FormSet(Patched(form, PatchOf(shown.form, id)))
    /\ UNCHANGED <<baseline, asked, shown, failed>>

\* fire: the next number; the request before it is aborted, though its answer may be here already.
DebounceEnds ==
    /\ debounce
    /\ debounce' = FALSE
    /\ asked' = [seq |-> asked.seq + 1, open |-> asked.open \cup {[seq |-> asked.seq + 1, form |-> form]}]
    /\ UNCHANGED <<baseline, form, shown, failed, changes>>

\* Mutant of AnswerShown: every answer gets on the screen.
AnswerShownAny(r) ==
    /\ r \in asked.open /\ asked' = [asked EXCEPT !.open = @ \ {r}]
    /\ shown' = r /\ failed' = FALSE
    /\ UNCHANGED <<baseline, form, debounce, changes>>

\* Only the answer to the last request gets on the screen,
AnswerShown(r) ==
    /\ r \in asked.open /\ r.seq = asked.seq
    /\ asked' = [asked EXCEPT !.open = @ \ {r}]
    /\ shown' = r /\ failed' = FALSE
    /\ UNCHANGED <<baseline, form, debounce, changes>>

\* and only its failure is told: the findings before it stay.
AnswerFails(r) ==
    /\ r \in asked.open /\ r.seq = asked.seq
    /\ asked' = [asked EXCEPT !.open = @ \ {r}]
    /\ failed' = TRUE
    /\ UNCHANGED <<baseline, form, debounce, shown, changes>>

LateAnswerDropped(r) ==
    /\ r \in asked.open /\ r.seq # asked.seq
    /\ asked' = [asked EXCEPT !.open = @ \ {r}]
    /\ UNCHANGED <<baseline, form, debounce, shown, failed, changes>>

AuditNext ==
    \/ \E field \in DOMAIN FieldValues : FieldEdited(field)
    \/ \E id \in FindingIds : FixApplied(id)
    \/ FormReset \/ DebounceEnds
    \/ \E r \in asked.open : AnswerShown(r) \/ AnswerFails(r) \/ LateAnswerDropped(r)

AuditSpec == AuditInit /\ [][AuditNext]_auditVars

-----------------------------------------------------------------------------
(* Properties *)

\* A fix takes its finding down from hard; but demand spread over segments that are all zero stays, and
\* a kit gap is reduced by one purchase.  Of the other findings it turns none hard but, when segments are
\* scaled, the margin.
FixHelps(f, id) ==
    LET after == Patched(f, PatchOf(f, id)) IN
    /\ Severity(after, id) = "H" =>
        \/ id = "X01" /\ SegmentSum(f) = 0
        \/ id = "X04" /\ after.kitGap = f.kitGap - T.kitFixTons
    /\ Found(after, "H") \ Found(f, "H") \subseteq {x \in {"X03"} : id = "X01"}

\* Once the debounce is over and the last request answered, the findings on the screen are those of the
\* form, unless that request failed; a fix offered there helps; and a plan that passes has nothing hard.
LiveSound ==
    /\ ~debounce /\ (\A r \in asked.open : r.seq < asked.seq) /\ ~failed => shown # NotShown /\ shown.form = form
    /\ shown # NotShown =>
        /\ \A id \in Fixable(shown.form) : FixHelps(shown.form, id)
        /\ Verdict(shown.form) = "pass" => Found(shown.form, "H") = {}

=============================================================================
