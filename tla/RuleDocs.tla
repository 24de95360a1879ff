------------------------------ MODULE RuleDocs ------------------------------
(***************************************************************************)
(* One rule document (ruledocs.ts): extraction segment by segment, retry   *)
(* of a segment, review of the candidates and the publication of a rule    *)
(* for each that is approved.                                              *)
(*                                                                         *)
(* What the LLM finds in a segment is one candidate or none, or the call   *)
(* fails; a candidate is the segment and the number of the extraction.     *)
(* The publication itself is RulePublish's.                                *)
(***************************************************************************)
EXTENDS Naturals, FiniteSets

CONSTANTS
    Segments,       \* number of segments of the document
    MaxExtractions, \* bound: extractions of one segment
    MaxCalls,       \* bound: calls of review and retrySegment
    Reviewers       \* calls of review and retrySegment that may overlap

ASSUME RuleDocsAssumption == Segments \in Nat \ {0} /\ MaxExtractions \in Nat \ {0} /\ MaxCalls \in Nat

Candidates == (1..Segments) \X (1..MaxExtractions)

VARIABLES
    doc,        \* the status of the RuleDoc
    next,       \* the next segment of the first extraction
    found,      \* candidates of the first extraction, not yet stored
    segments,   \* per segment: the ExtractSegment record and the extractions done
    candidates, \* per candidate: none, PENDING, APPROVED or REJECTED
    ruleCount,  \* per candidate: rules published for it
    reviews,    \* per reviewer: the call under way
    docCalls,   \* calls made, for the bound
    simple      \* history: no two calls overlapped and none broke off

docVars == <<doc, next, found, segments, candidates, ruleCount, reviews, docCalls, simple>>

Segment == [status : {"none", "OK", "FAILED"}, done : 0..MaxExtractions]
Review == [at : {"idle", "publish", "reject", "approve", "finalize", "retry", "settle"},
           cand : Candidates \cup {"none"}, seg : 0..Segments, status : {"", "PUBLISHED", "REJECTED"}]
NoReview == [at |-> "idle", cand |-> "none", seg |-> 0, status |-> ""]

DocTypeOK ==
    /\ doc \in {"PARSED", "EXTRACTED", "PARTIAL", "IN_REVIEW", "PUBLISHED", "REJECTED"}
    /\ next \in 1..(Segments + 1) /\ found \subseteq Candidates
    /\ segments \in [1..Segments -> Segment]
    /\ candidates \in [Candidates -> {"none", "PENDING", "APPROVED", "REJECTED"}]
    /\ ruleCount \in [Candidates -> Nat] /\ reviews \in [Reviewers -> Review]
    /\ docCalls \in 0..MaxCalls /\ simple \in BOOLEAN

DocInit ==
    /\ doc = "PARSED" /\ next = 1 /\ found = {}
    /\ segments = [s \in 1..Segments |-> [status |-> "none", done |-> 0]]
    /\ candidates = [c \in Candidates |-> "none"] /\ ruleCount = [c \in Candidates |-> 0]
    /\ reviews = [v \in Reviewers |-> NoReview] /\ docCalls = 0 /\ simple = TRUE

Known == {c \in Candidates : candidates[c] # "none"}
Calm == \A v \in Reviewers : reviews[v].at = "idle"
SegmentsFailed == \E s \in 1..Segments : segments[s].status = "FAILED"
DocStatus(failed, any) == IF failed THEN "PARTIAL" ELSE IF any THEN "IN_REVIEW" ELSE "EXTRACTED"

StartReview(v, review) ==
    /\ reviews[v].at = "idle" /\ docCalls < MaxCalls
    /\ docCalls' = docCalls + 1
    /\ reviews' = [reviews EXCEPT ![v] = review]
    /\ simple' = (simple /\ Calm)

-----------------------------------------------------------------------------
(* uploadAndProcess *)

\* One segment: the LLM finds a candidate or none, or fails, which the segment records.
ExtractSegment == \E ok \in BOOLEAN, hit \in BOOLEAN :
    /\ doc = "PARSED" /\ next \in 1..Segments
    /\ segments' = [segments EXCEPT ![next] = [status |-> IF ok THEN "OK" ELSE "FAILED", done |-> 1]]
    /\ found' = IF ok /\ hit THEN found \cup {<<next, 1>>} ELSE found
    /\ next' = next + 1
    /\ UNCHANGED <<doc, candidates, ruleCount, reviews, docCalls, simple>>

\* All candidates are stored, then the status.
ExtractionEnds ==
    /\ doc = "PARSED" /\ next = Segments + 1
    /\ candidates' = [c \in Candidates |-> IF c \in found THEN "PENDING" ELSE candidates[c]]
    /\ doc' = DocStatus(SegmentsFailed, found # {}) /\ found' = {}
    /\ UNCHANGED <<next, segments, ruleCount, reviews, docCalls, simple>>

-----------------------------------------------------------------------------
(* retrySegment *)

\* Any segment of a PARTIAL document, whether it failed or not.
RetryReads(v, s) ==
    /\ doc = "PARTIAL" /\ segments[s].done < MaxExtractions
    /\ StartReview(v, [NoReview EXCEPT !.at = "retry", !.seg = s])
    /\ UNCHANGED <<doc, next, found, segments, candidates, ruleCount>>

\* The extraction succeeds: its candidates and the segment are stored.  It may as well fail.
RetryExtracts(v) == LET s == reviews[v].seg IN \E ok \in BOOLEAN, hit \in BOOLEAN :
    /\ reviews[v].at = "retry" /\ segments[s].done < MaxExtractions
    /\ segments' = [segments EXCEPT ![s] = [status |-> IF ok THEN "OK" ELSE @.status, done |-> @.done + 1]]
    /\ candidates' = IF ok /\ hit THEN [candidates EXCEPT ![<<s, segments[s].done + 1>>] = "PENDING"] ELSE candidates
    /\ reviews' = [reviews EXCEPT ![v] = IF ok THEN [@ EXCEPT !.at = "settle"] ELSE NoReview]
    /\ UNCHANGED <<doc, next, found, ruleCount, docCalls, simple>>

\* The status follows from the segments that are left failed.
RetryEnds(v) ==
    /\ reviews[v].at = "settle"
    /\ doc' = DocStatus(SegmentsFailed, Known # {})
    /\ reviews' = [reviews EXCEPT ![v] = NoReview]
    /\ UNCHANGED <<next, found, segments, candidates, ruleCount, docCalls, simple>>

-----------------------------------------------------------------------------
(* review *)

\* A PENDING candidate is approved, edited or not, or rejected.
ReviewReads(v, c) == \E to \in {"publish", "reject"} :
    /\ candidates[c] = "PENDING"
    /\ StartReview(v, [NoReview EXCEPT !.at = to, !.cand = c])
    /\ UNCHANGED <<doc, next, found, segments, candidates, ruleCount>>

\* Approved: the rule is created as PUBLISHED first,
ReviewPublishes(v) ==
    /\ reviews[v].at = "publish"
    /\ ruleCount' = [ruleCount EXCEPT ![reviews[v].cand] = @ + 1]
    /\ reviews' = [reviews EXCEPT ![v].at = "approve"]
    /\ UNCHANGED <<doc, next, found, segments, candidates, docCalls, simple>>

\* then the candidate is put.
ReviewPuts(v) == LET w == reviews[v] IN
    /\ w.at \in {"approve", "reject"}
    /\ candidates' = [candidates EXCEPT ![w.cand] = IF w.at = "approve" THEN "APPROVED" ELSE "REJECTED"]
    /\ reviews' = [reviews EXCEPT ![v].at = "finalize"]
    /\ UNCHANGED <<doc, next, found, segments, ruleCount, docCalls, simple>>

\* Mutant of FinalizeDoc: the candidates that are still to be reviewed are not looked for.
FinalizeDocEarly(v) ==
    /\ reviews[v].at = "finalize"
    /\ doc' = IF \E c \in Known : candidates[c] = "APPROVED" THEN "PUBLISHED" ELSE "REJECTED"
    /\ reviews' = [reviews EXCEPT ![v] = NoReview]
    /\ UNCHANGED <<next, found, segments, candidates, ruleCount, docCalls, simple>>

\* maybeFinalizeDoc: the document ends when no candidate is PENDING, whatever its own status.
FinalizeDoc(v) ==
    /\ reviews[v].at = "finalize"
    /\ doc' = IF \E c \in Known : candidates[c] = "PENDING" THEN doc
              ELSE IF \E c \in Known : candidates[c] = "APPROVED" THEN "PUBLISHED" ELSE "REJECTED"
    /\ reviews' = [reviews EXCEPT ![v] = NoReview]
    /\ UNCHANGED <<next, found, segments, candidates, ruleCount, docCalls, simple>>

\* A call breaks off between its steps.
ReviewBreaks(v) ==
    /\ reviews[v].at # "idle"
    /\ reviews' = [reviews EXCEPT ![v] = NoReview] /\ simple' = FALSE
    /\ UNCHANGED <<doc, next, found, segments, candidates, ruleCount, docCalls>>

DocNext ==
    \/ ExtractSegment \/ ExtractionEnds
    \/ \E v \in Reviewers : \/ \E s \in 1..Segments : RetryReads(v, s)
                            \/ \E c \in Candidates : ReviewReads(v, c)
                            \/ RetryExtracts(v) \/ RetryEnds(v) \/ ReviewPublishes(v) \/ ReviewPuts(v)
                            \/ FinalizeDoc(v) \/ ReviewBreaks(v)

DocSpec == DocInit /\ [][DocNext]_docVars

-----------------------------------------------------------------------------
(* Properties *)

\* The review decides: no candidate is APPROVED without a rule, however calls overlap and break
\* off; and if they do neither, each has exactly one and a candidate that is not approved none, and
\* the document ends as PUBLISHED or REJECTED just when nothing is left to review.
ReviewDecides ==
    /\ \A c \in Candidates : candidates[c] = "APPROVED" => ruleCount[c] > 0
    /\ simple /\ Calm =>
        /\ \A c \in Candidates : ruleCount[c] = IF candidates[c] = "APPROVED" THEN 1 ELSE 0
        /\ doc = "PUBLISHED" => \A c \in Known : candidates[c] # "PENDING"
        /\ doc = "REJECTED" => \A c \in Known : candidates[c] = "REJECTED"

\* ruledocs.ts:193: with a segment failed the document stays PARTIAL, so that it can be retried.
FailedCanBeRetried == doc # "PARSED" /\ Calm /\ SegmentsFailed => doc = "PARTIAL"

=============================================================================
