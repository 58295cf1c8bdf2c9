------------------------------ MODULE DeviceSync ------------------------------
(***************************************************************************)
(* Uploads of one device: sync/receiver.rs and sync/verification.rs.        *)
(*                                                                         *)
(* process_sync holds the write lock on device_states from the lookup of   *)
(* the device until it returns, so a request is one step and devices do    *)
(* not disturb each other. The device is the environment: it may send any  *)
(* batch of its transactions again at any time, because an answer was lost *)
(* or because a batch was refused. The state lives in memory only.         *)
(***************************************************************************)
EXTENDS Integers, Sequences, FiniteSets, SequencesExt

CONSTANTS Txs,          \* the transactions of the device
          Keyed,        \* those with a dedup_key (old apps send none)
          Valid,        \* those whose category, method, amount and time are valid
          MaxPerSync,   \* MAX_TRANSACTIONS_PER_SYNC
          DedupWindow,  \* 1000: dedup keys remembered
          MaxBatch      \* bound: transactions in one request

ASSUME SyncAssumption ==
  /\ Keyed \subseteq Txs /\ Valid \subseteq Txs
  /\ MaxPerSync \in Nat \ {0} /\ DedupWindow \in Nat \ {0}
  /\ MaxBatch \in Nat

VARIABLES known,    \* known_dedup_keys of the device, oldest first
          counted,  \* history: transactions accepted since the process started
          since,    \* history: keys sent after a transaction was last accepted
          fresh     \* history: transactions accepted by the last request

vars == <<known, counted, since, fresh>>

Batch == BoundedSeq(Txs, MaxBatch)

Init == /\ known = <<>>
        /\ counted = {}
        /\ since = [t \in Txs |-> {}]
        /\ fresh = {}

-----------------------------------------------------------------------------
(* verify_sync: the batch is judged by the keys known before it.           *)

TooLarge(batch) == Len(batch) > MaxPerSync

IsDuplicate(t) == t \in Keyed /\ t \in ToSet(known)

\* A payload that is too large is rejected as a whole, unread.
Judge(batch, t) ==
  CASE TooLarge(batch) -> "rejected"
    [] ~TooLarge(batch) /\ IsDuplicate(t) -> "duplicate"
    [] ~TooLarge(batch) /\ ~IsDuplicate(t) ->
         IF t \in Valid THEN "accepted" ELSE "rejected"

Accepted(batch) == {t \in ToSet(batch) : Judge(batch, t) = "accepted"}

-----------------------------------------------------------------------------
(* process_sync.                                                           *)

\* Every key of the batch is remembered, in its order and once.
Pushed(keys, t) == IF t \in Keyed /\ t \notin ToSet(keys) THEN Append(keys, t) ELSE keys
Remember(batch) ==
  LET keys[i \in 0..Len(batch)] ==
        IF i = 0 THEN known ELSE Pushed(keys[i - 1], batch[i])
  IN  keys[Len(batch)]

\* "Keep dedup window to last 1000 keys": the oldest are drained.
KeepOldest(keys) ==                            \* fault: truncate instead of drain
  SubSeq(keys, 1, IF Len(keys) > DedupWindow THEN DedupWindow ELSE Len(keys))
KeepLast(keys) ==
  SubSeq(keys, IF Len(keys) > DedupWindow THEN Len(keys) - DedupWindow + 1 ELSE 1, Len(keys))

\* The keys of the batch behind the first occurrence of t.
Behind(batch, t) ==
  LET first == CHOOSE i \in DOMAIN batch :
                 batch[i] = t /\ \A j \in 1..(i - 1) : batch[j] # t
  IN  {batch[i] : i \in (first + 1)..Len(batch)} \cap (Keyed \ {t})

ProcessSync(batch) ==
  /\ known' = KeepLast(Remember(batch))
  /\ counted' = counted \cup Accepted(batch)
  /\ since' = [t \in Txs |->
                 IF t \in Accepted(batch) THEN Behind(batch, t)
                 ELSE IF t \in counted THEN since[t] \cup (ToSet(batch) \cap (Keyed \ {t}))
                 ELSE {}]
  /\ fresh' = Accepted(batch)

\* A protocol that is too old is answered before anything is looked up.
RefuseOldProtocol ==
  /\ fresh' = {}
  /\ UNCHANGED <<known, counted, since>>

\* The process restarts: device_states is not stored anywhere.
Restart ==
  /\ known' = <<>>
  /\ counted' = {}
  /\ since' = [t \in Txs |-> {}]
  /\ fresh' = {}

Next == \/ \E batch \in Batch : ProcessSync(batch)
        \/ RefuseOldProtocol \/ Restart

Spec == Init /\ [][Next]_vars

-----------------------------------------------------------------------------
(* Properties.                                                             *)

\* Type invariant: the remembered keys are a window without repetition.
TypeOK ==
  /\ known \in BoundedSeq(Keyed, DedupWindow) /\ IsInjective(known)
  /\ counted \in SUBSET Txs
  /\ since \in [Txs -> SUBSET Keyed]
  /\ fresh \in SUBSET counted

\* However uploads are repeated, cut anew and reordered, a transaction with a
\* key that has been accepted is not accepted by a later sync, unless as many
\* other keys as the window holds were sent in between (or the process
\* restarted).
CountedAgainOnlyPastWindow ==
  [][\A t \in Keyed :
       t \in counted /\ t \in fresh'
         => Cardinality(since[t]) >= DedupWindow]_vars

\* "Update dedup keys with accepted transactions" (receiver.rs:139): a valid
\* transaction that would be refused as a duplicate has been accepted before.
DuplicateWasAccepted == \A t \in Valid : IsDuplicate(t) => t \in counted
=============================================================================
