---------------------------- MODULE HumanApproval ----------------------------
(***************************************************************************)
(* The approval queue of gateway/human_approval.rs: pending approvals are   *)
(* Redis keys with a time to live. resolve_approval is a GET, a check, a    *)
(* DEL and an answer, with an await at each call of Redis, so two requests  *)
(* for one approval interleave. Who may resolve it is not modelled.         *)
(***************************************************************************)
EXTENDS Integers

CONSTANTS Approvals,   \* confirmation ids (uuid v4)
          Requests,    \* requests to resolve that run concurrently
          Timeout,     \* timeout_seconds of the action type
          NULL

VARIABLES created,    \* ids handed out to clients
          age,        \* now - created_at of the stored record; NULL: no key
          resolving,  \* what a request knows between its GET and its DEL
          answers     \* history: approvals and refusals given for an id

vars == <<created, age, resolving, answers>>

Idle == [id |-> NULL, expired |-> FALSE, approved |-> FALSE]
Verdict == {"approved", "rejected"}

Init == /\ created = {}
        /\ age = [i \in Approvals |-> NULL]
        /\ resolving = [r \in Requests |-> Idle]
        /\ answers = [i \in Approvals |-> {}]

\* create_approval: the result of SET is ignored, the id is handed out anyway.
CreateApproval(i) ==
  /\ i \notin created
  /\ created' = created \cup {i}
  /\ age' \in {age, [age EXCEPT ![i] = 0]}
  /\ UNCHANGED <<resolving, answers>>

\* now > expires_at.
IsExpired(i) == age[i] > Timeout

\* resolve_approval up to the DEL: GET and the check of the expiry.
FetchApproval(r, i, approved) ==
  /\ resolving[r] = Idle
  /\ age[i] # NULL
  /\ resolving' = [resolving EXCEPT ![r] =
                     [id |-> i, expired |-> IsExpired(i), approved |-> approved]]
  /\ UNCHANGED <<created, age, answers>>

\* No key, or Redis fails: "not found", for both.
ApprovalNotFound(r, i) ==
  /\ resolving[r] = Idle /\ i \in created
  /\ UNCHANGED vars

\* DEL, whose result is ignored too: how many keys it removed, or an error.
DeleteKey(i) == age' \in {age, [age EXCEPT ![i] = NULL]}

\* The DEL and the answer: "expired", or what the user decided.
ResolveApproval(r) ==
  LET q == resolving[r] IN
  /\ q # Idle
  /\ DeleteKey(q.id)
  /\ answers' = IF q.expired THEN answers
                ELSE [answers EXCEPT ![q.id] =
                        @ \cup {IF q.approved THEN "approved" ELSE "rejected"}]
  /\ resolving' = [resolving EXCEPT ![r] = Idle]
  /\ UNCHANGED created

\* The client goes away and the handler's future is dropped.
RequestDropped(r) ==
  /\ resolving[r] # Idle
  /\ resolving' = [resolving EXCEPT ![r] = Idle]
  /\ UNCHANGED <<created, age, answers>>

\* External: Redis drops a key Timeout seconds after its SET.
KeyExpires(i) ==
  /\ age[i] # NULL /\ age[i] >= Timeout
  /\ age' = [age EXCEPT ![i] = NULL]
  /\ UNCHANGED <<created, resolving, answers>>

\* A second passes; ages beyond Timeout + 1 are one value.
Tick ==
  /\ age' = [i \in Approvals |-> IF age[i] # NULL /\ age[i] <= Timeout
                                   THEN age[i] + 1 ELSE age[i]]
  /\ UNCHANGED <<created, resolving, answers>>

Next ==
  \/ Tick
  \/ \E i \in Approvals :
       \/ CreateApproval(i) \/ KeyExpires(i)
       \/ \E r \in Requests, approved \in BOOLEAN : FetchApproval(r, i, approved)
       \/ \E r \in Requests : ApprovalNotFound(r, i)
  \/ \E r \in Requests : ResolveApproval(r) \/ RequestDropped(r)

Spec == Init /\ [][Next]_vars

-----------------------------------------------------------------------------
\* "Delete the approval (one-time use)" (human_approval.rs:387): an approval is
\* not both granted and refused. resolve_approval does not look at what its DEL
\* returned.
OneTimeUse == \A i \in Approvals : answers[i] # Verdict
=============================================================================
