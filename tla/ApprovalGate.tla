----------------------------- MODULE ApprovalGate -----------------------------
(***************************************************************************)
(* The human-in-the-loop gate for credit decisions: credit/approval_gate.rs.*)
(* One mutex guards the map, so each call is a step. Time is in seconds; a  *)
(* decision id is the worker and the second it was submitted in.            *)
(***************************************************************************)
EXTENDS Integers, Sequences

CONSTANTS Worker, DecisionType, TimeoutSeconds,
          MaxTime, MaxAnswers     \* bounds: the clock, entries of a trail

VARIABLES decisions,    \* pending_decisions: <<worker, second>> -> decision
          clock,
          consent       \* history: ids a user said yes to in time

gateVars == <<decisions, clock, consent>>

ApprovalStatus == {"Pending", "Approved", "Rejected", "Expired", "AutoApproved"}

GateInit == decisions = [i \in {} |-> 0] /\ clock = 0 /\ consent = {}

\* confidence and amount against the thresholds of the configuration.
NoTypeCheck(type, confident, small) == confident /\ small       \* fault
CanAutoApprove(type, confident, small) ==
  confident /\ small /\ type # "LoanApplication"

Entry(action) == [action |-> action, at |-> clock]
Put(id, decision) ==
  decisions' = [i \in DOMAIN decisions \cup {id} |-> IF i = id THEN decision ELSE decisions[i]]

\* A second submission of a worker within a second replaces the first.
SubmitDecision(w, type, confident, small) ==
  /\ Put(<<w, clock>>,
         [type |-> type, expires_at |-> clock + TimeoutSeconds,
          status |-> IF CanAutoApprove(type, confident, small) THEN "AutoApproved" ELSE "Pending",
          trail |-> <<Entry("submitted")>>])
  /\ consent' = consent \ {<<w, clock>>}
  /\ UNCHANGED clock

NeverLate(id) == FALSE                                           \* fault
Late(id) == clock > decisions[id].expires_at

Answered(approved) == IF approved THEN "Approved" ELSE "Rejected"
Close(id, status) ==
  decisions' = [decisions EXCEPT ![id].status = status,
                                 ![id].trail = Append(@, Entry(status))]

\* confirm_decision looks at no status: an answer can be changed while time is
\* left, and an answer that comes too late expires what was approved.
ConfirmDecision(id, approved) ==
  /\ id \in DOMAIN decisions /\ Len(decisions[id].trail) <= MaxAnswers
  /\ IF Late(id)
     THEN Close(id, "Expired") /\ UNCHANGED consent
     ELSE /\ Close(id, Answered(approved))
          /\ consent' = IF approved THEN consent \cup {id} ELSE consent \ {id}
  /\ UNCHANGED clock

ExpireStale ==
  /\ decisions' = [id \in DOMAIN decisions |->
       IF decisions[id].status = "Pending" /\ Late(id)
       THEN [decisions[id] EXCEPT !.status = "Expired", !.trail = Append(@, Entry("Expired"))]
       ELSE decisions[id]]
  /\ UNCHANGED <<clock, consent>>

SecondPasses == clock < MaxTime /\ clock' = clock + 1 /\ UNCHANGED <<decisions, consent>>

GateNext ==
  \/ \E w \in Worker, t \in DecisionType, confident, small \in BOOLEAN :
       SubmitDecision(w, t, confident, small)
  \/ \E id \in DOMAIN decisions, approved \in BOOLEAN : ConfirmDecision(id, approved)
  \/ ExpireStale \/ SecondPasses

GateSpec == GateInit /\ [][GateNext]_gateVars

\* timeout_seconds is unsigned.
GateAssumption == TimeoutSeconds \in Nat /\ MaxTime \in Nat

-----------------------------------------------------------------------------
GateTypeOK ==
  \A id \in DOMAIN decisions :
    /\ id \in Worker \X (0..MaxTime)
    /\ decisions[id].status \in ApprovalStatus /\ decisions[id].type \in DecisionType

\* Whatever answers come, in any order and however late: what stands approved
\* was consented to while there was time, a loan application is approved in no
\* other way, and the trail ends with the status and is in the order of time.
ConsentGoverns ==
  \A id \in DOMAIN decisions :
    LET d == decisions[id]
        last == d.trail[Len(d.trail)]
    IN /\ d.status = "Approved" => id \in consent /\ last.at <= id[2] + TimeoutSeconds
       /\ d.type = "LoanApplication" => d.status # "AutoApproved"
       /\ IF d.status \in {"Pending", "AutoApproved"}
          THEN last.action = "submitted" ELSE last.action = d.status
       /\ \A i \in 1..Len(d.trail) - 1 : d.trail[i].at <= d.trail[i + 1].at

\* An expired decision stays expired.
ExpiredIsFinal ==
  [][\A id \in DOMAIN decisions :
       decisions[id].status = "Expired" => decisions'[id].status = "Expired"]_gateVars
=============================================================================
