----------------------------- MODULE Governance -----------------------------
(***************************************************************************)
(* One publish request of the ontology (ontology-governance.ts) and the    *)
(* sign-offs of the owners of the domains it touches, with the route that  *)
(* publishes when the last one approves (app.ts).                          *)
(*                                                                         *)
(* A sign-off reads the request, decides one row in its copy and puts the  *)
(* whole copy back; so does the sweep that expires old requests.  Ages are *)
(* the two thresholds the code asks about.                                 *)
(***************************************************************************)
EXTENDS Naturals, FiniteSets

CONSTANTS
    Signers,     \* users that call signoff; each has at most one call under way
    Admins,      \* those with the role catalog_admin
    Domains,     \* the domains the request touches
    OwnerOf,     \* the owner of each domain, or Nobody
    Nobody,
    MaxSignoffs  \* bound: accepted sign-offs

ASSUME GovernanceAssumption ==
    /\ Admins \subseteq Signers /\ Nobody \notin Signers /\ MaxSignoffs \in Nat
    /\ OwnerOf \in [Domains -> Signers \cup {Nobody}]

VARIABLES
    request,    \* the stored PublishRequestRecord, ABSENT before it is created
    calls,      \* per signer: the call under way
    sweep,      \* the copy the sweep holds, or none
    age,        \* new, behalf (72 h) or stale (7 days)
    approvedBy, \* history: per domain, the signers whose approval was accepted
    rejected,   \* history: somebody's REJECT has been stored
    published,  \* ontology versions published for the request
    accepted    \* accepted sign-offs, for the bound

govVars == <<request, calls, sweep, age, approvedBy, rejected, published, accepted>>

Decision == {"none", "APPROVE", "REJECT"}
Request == [status : {"ABSENT", "PENDING_SIGNOFF", "APPROVED", "REJECTED", "EXPIRED"},
            signoffs : [Domains -> Decision]]
Undecided == [d \in Domains |-> "none"]
NoRequest == [status |-> "ABSENT", signoffs |-> Undecided]
SignCall == [at : {"idle", "put", "publish"}, copy : Request]
NoSignCall == [at |-> "idle", copy |-> NoRequest]

GovTypeOK ==
    /\ request \in Request /\ calls \in [Signers -> SignCall] /\ sweep \in Request
    /\ age \in {"new", "behalf", "stale"} /\ approvedBy \in [Domains -> SUBSET Signers]
    /\ rejected \in BOOLEAN /\ published \in Nat /\ accepted \in 0..MaxSignoffs

GovInit ==
    /\ request = NoRequest /\ calls = [u \in Signers |-> NoSignCall] /\ sweep = NoRequest
    /\ age = "new" /\ approvedBy = [d \in Domains |-> {}] /\ rejected = FALSE
    /\ published = 0 /\ accepted = 0

-----------------------------------------------------------------------------

\* createPublishRequest, once the impact gate has let it through: one row per domain; without
\* domains the request is born approved and nothing publishes it.
CreateRequest ==
    /\ request.status = "ABSENT"
    /\ request' = [status |-> IF Domains = {} THEN "APPROVED" ELSE "PENDING_SIGNOFF", signoffs |-> Undecided]
    /\ UNCHANGED <<calls, sweep, age, approvedBy, rejected, published, accepted>>

\* The rows a caller may decide: its own, or on behalf of their owners any, for an administrator
\* after 72 hours.
MayDecide(u, d) == OwnerOf[d] = u \/ (u \in Admins /\ age # "new")

Every(signoffs) == \A d \in Domains : signoffs[d] = "APPROVE"

\* Mutant of StatusAfter: one approval is enough.
StatusAfterAny(decision, signoffs) == IF decision = "REJECT" THEN "REJECTED" ELSE "APPROVED"

StatusAfter(decision, signoffs) ==
    CASE decision = "REJECT" -> "REJECTED"
      [] Every(signoffs) -> "APPROVED"
      [] OTHER -> "PENDING_SIGNOFF"

\* signoff up to its put: the request is pending and the row undecided in what was read.
SignReads(u) == \E d \in Domains, decision \in {"APPROVE", "REJECT"} :
    /\ calls[u].at = "idle" /\ request.status = "PENDING_SIGNOFF" /\ accepted < MaxSignoffs
    /\ request.signoffs[d] = "none" /\ MayDecide(u, d)
    /\ LET rows == [request.signoffs EXCEPT ![d] = decision] IN
       calls' = [calls EXCEPT ![u] = [at |-> "put", copy |-> [status |-> StatusAfter(decision, rows), signoffs |-> rows]]]
    /\ approvedBy' = [approvedBy EXCEPT ![d] = IF decision = "APPROVE" THEN @ \cup {u} ELSE @]
    /\ accepted' = accepted + 1
    /\ UNCHANGED <<request, sweep, age, rejected, published>>

\* The put, and back to the route.
SignPuts(u) == LET done == calls[u].copy IN
    /\ calls[u].at = "put"
    /\ request' = done /\ rejected' = (rejected \/ done.status = "REJECTED")
    /\ calls' = [calls EXCEPT ![u] = IF done.status = "APPROVED" THEN [at |-> "publish", copy |-> NoRequest]
                                                                 ELSE NoSignCall]
    /\ UNCHANGED <<sweep, age, approvedBy, published, accepted>>

\* The route publishes the ontology, or that fails and nobody tries again.
RoutePublishes(u) == \E n \in {0, 1} :
    /\ calls[u].at = "publish"
    /\ calls' = [calls EXCEPT ![u] = NoSignCall] /\ published' = published + n
    /\ UNCHANGED <<request, sweep, age, approvedBy, rejected, accepted>>

-----------------------------------------------------------------------------

\* expireStaleRequests lists a pending request that is 7 days old.
SweepLists ==
    /\ sweep.status = "ABSENT" /\ age = "stale" /\ request.status = "PENDING_SIGNOFF"
    /\ sweep' = [request EXCEPT !.status = "EXPIRED"]
    /\ UNCHANGED <<request, calls, age, approvedBy, rejected, published, accepted>>

SweepPuts ==
    /\ sweep.status # "ABSENT"
    /\ request' = sweep /\ sweep' = NoRequest
    /\ UNCHANGED <<calls, age, approvedBy, rejected, published, accepted>>

\* 72 hours, then 7 days, have passed.
RequestAges ==
    /\ request.status # "ABSENT" /\ age # "stale"
    /\ age' = IF age = "new" THEN "behalf" ELSE "stale"
    /\ UNCHANGED <<request, calls, sweep, approvedBy, rejected, published, accepted>>

GovNext ==
    \/ CreateRequest \/ RequestAges \/ SweepLists \/ SweepPuts
    \/ \E u \in Signers : SignReads(u) \/ SignPuts(u) \/ RoutePublishes(u)

GovSpec == GovInit /\ [][GovNext]_govVars

-----------------------------------------------------------------------------
(* Properties *)

\* Whatever calls overlap and whatever sign-off is lost under another: the ontology is published,
\* and the request APPROVED, only when for every domain an approval by its owner, or by an
\* administrator for it, was accepted.
PublishedIsApproved ==
    published > 0 \/ request.status = "APPROVED" => \A d \in Domains : approvedBy[d] # {}

\* docs/PRD-addendum-ontology-governance.md:113: a REJECT ends the request for good.
RejectIsFinal == rejected => request.status = "REJECTED"

=============================================================================
