---------------------------- MODULE Records_proofs ----------------------------
(***************************************************************************)
(* Proofs about the records the backend keeps of its users: the audit      *)
(* trail, data retention, the cohorts it may speak of, its invoices, the   *)
(* uploads of a device, and what devices send of what they learnt.         *)
(***************************************************************************)
EXTENDS AuditTrail, DataRetention, KAnonymity, Invoices, DeviceSync, GraphSync,
        FiniteSetTheorems, SequenceTheorems, WellFoundedInduction, TLAPS

(***************************************************************************)
(* Audit trail. The entry of a request that was carried out, and no other, *)
(* is somewhere, in one place at a time; it has no row while it waits to   *)
(* be flushed, and one that is lost never comes back.                      *)
(***************************************************************************)
AuditTypes ==
  /\ handled \subseteq Request /\ toLog \subseteq Request /\ lost \subseteq Request
  /\ buffer \in Seq(Request)
  /\ flushing \in [batch : BOOLEAN, entries : Seq(Request)]
  /\ inserts \in [Request -> {0, 1}]
  /\ Len(buffer) < MaxBufferSize

InBuffer(r) == \E i \in 1..Len(buffer) : buffer[i] = r
InFlush(r) == \E i \in 1..Len(flushing.entries) : flushing.entries[i] = r

OneEach ==
  /\ \A i, j \in 1..Len(buffer) : buffer[i] = buffer[j] => i = j
  /\ \A i, j \in 1..Len(flushing.entries) :
       flushing.entries[i] = flushing.entries[j] => i = j

OnePlace ==
  \A r \in Request :
    /\ r \in toLog => ~InBuffer(r) /\ ~InFlush(r)
    /\ InBuffer(r) => ~InFlush(r)
    /\ r \in lost => r \notin toLog /\ ~InBuffer(r) /\ ~InFlush(r)

NoRowYet ==
  \A r \in Request :
    r \in toLog \/ InBuffer(r) \/ r \in lost => inserts[r] = 0

Somewhere ==
  \A r \in Request :
    r \in handled <=> r \in toLog \/ InBuffer(r) \/ InFlush(r) \/ r \in lost \/ inserts[r] = 1

AuditInv == AuditTypes /\ OneEach /\ OnePlace /\ NoRowYet /\ Somewhere

LEMMA AuditInvInit == ASSUME AuditAssumption, AuditInit PROVE AuditInv
  BY DEF AuditInit, AuditAssumption, AuditInv, AuditTypes, OneEach, OnePlace, NoRowYet,
         Somewhere, InBuffer, InFlush, NotFlushing

LEMMA AuditAnswer ==
  ASSUME AuditInv, NEW r \in Request, CarryOut(r) PROVE AuditInv'
<1>1. ~InBuffer(r) /\ ~InFlush(r) /\ r \notin lost /\ inserts[r] = 0
  BY DEF CarryOut, AuditInv, AuditTypes, Somewhere
<1>2. \A q \in Request : InBuffer(q)' = InBuffer(q) /\ InFlush(q)' = InFlush(q)
  BY DEF CarryOut, InBuffer, InFlush
<1>3. QED
  BY <1>1, <1>2 DEF CarryOut, AuditInv, AuditTypes, OneEach, OnePlace, NoRowYet, Somewhere

LEMMA AuditLog ==
  ASSUME AuditAssumption, AuditInv, NEW r \in Request, Log(r) PROVE AuditInv'
<1> USE DEF AuditInv, AuditTypes
<1>1. flushing.entries = <<>> /\ flushing.batch = FALSE
  BY DEF Log, Locked, NotFlushing
<1>2. /\ Append(buffer, r) \in Seq(Request) /\ Len(Append(buffer, r)) = Len(buffer) + 1
      /\ \A i \in 1..Len(buffer) : Append(buffer, r)[i] = buffer[i]
      /\ Append(buffer, r)[Len(buffer) + 1] = r
  OBVIOUS
<1>3. ~InBuffer(r) /\ r \in toLog /\ inserts[r] = 0 /\ r \notin lost
  BY DEF Log, OnePlace, NoRowYet
<1>4. \A q \in Request : ~InFlush(q)
  BY <1>1 DEF InFlush
<1>5. toLog' = toLog \ {r} /\ UNCHANGED <<handled, inserts, lost>>
  BY DEF Log
<1>6. \A i, j \in 1..(Len(buffer) + 1) : Append(buffer, r)[i] = Append(buffer, r)[j] => i = j
  BY <1>2, <1>3 DEF OneEach, InBuffer
<1>7. \A q \in Request : (\E i \in 1..(Len(buffer) + 1) : Append(buffer, r)[i] = q)
                         <=> (InBuffer(q) \/ q = r)
  BY <1>2 DEF InBuffer
<1>8. CASE Full(Append(buffer, r))
  <2>1. buffer' = <<>> /\ flushing' = [batch |-> TRUE, entries |-> Append(buffer, r)]
    BY <1>8 DEF Log
  <2>2. \A q \in Request : ~InBuffer(q)' /\ (InFlush(q)' <=> (InBuffer(q) \/ q = r))
    BY <2>1, <1>2, <1>7 DEF InBuffer, InFlush
  <2>3. AuditTypes' /\ OneEach'
    BY <2>1, <1>2, <1>5, <1>6 DEF OneEach, AuditAssumption
  <2>4. OnePlace' /\ NoRowYet' /\ Somewhere'
    BY <2>2, <1>3, <1>4, <1>5 DEF OnePlace, NoRowYet, Somewhere
  <2>5. QED
    BY <2>3, <2>4
<1>9. CASE ~Full(Append(buffer, r))
  <2>1. buffer' = Append(buffer, r) /\ flushing' = flushing
    BY <1>9 DEF Log
  <2>2. \A q \in Request : (InBuffer(q)' <=> (InBuffer(q) \/ q = r)) /\ ~InFlush(q)'
    BY <2>1, <1>2, <1>4, <1>7 DEF InBuffer, InFlush
  <2>3. AuditTypes' /\ OneEach'
    BY <2>1, <1>1, <1>2, <1>5, <1>6, <1>9 DEF OneEach, AuditAssumption, Full
  <2>4. OnePlace' /\ NoRowYet' /\ Somewhere'
    BY <2>2, <1>3, <1>4, <1>5 DEF OnePlace, NoRowYet, Somewhere
  <2>5. QED
    BY <2>3, <2>4
<1>10. QED
  BY <1>8, <1>9

LEMMA AuditBatch ==
  ASSUME AuditInv, NEW wrote \in BOOLEAN, NEW reported \in BOOLEAN,
         FlushBatch(wrote, reported)
  PROVE  AuditInv'
<1> USE DEF AuditInv, AuditTypes
<1>1. UNCHANGED <<handled, toLog, buffer, lost>>
  BY DEF FlushBatch
<1>2. /\ inserts' \in [Request -> {0, 1}]
      /\ \A r \in Request : ~InFlush(r) => inserts'[r] = inserts[r]
  BY DEF FlushBatch, Inserted, Contains, InFlush
<1>3. /\ flushing' \in [batch : BOOLEAN, entries : Seq(Request)]
      /\ flushing'.entries = flushing.entries \/ flushing'.entries = <<>>
  <2>1. CASE reported
    <3>1. flushing' = [batch |-> FALSE, entries |-> <<>>]
      BY <2>1 DEF FlushBatch, NotFlushing
    <3>2. <<>> \in Seq(Request)
      OBVIOUS
    <3>3. QED
      BY <3>1, <3>2
  <2>2. CASE ~reported
    BY <2>2 DEF FlushBatch
  <2>3. QED
    BY <2>1, <2>2
<1>4. \A r \in Request : InBuffer(r)' = InBuffer(r) /\ (InFlush(r)' => InFlush(r))
  BY <1>1, <1>3 DEF InBuffer, InFlush
<1>5. AuditTypes'
  BY <1>1, <1>2, <1>3
<1>6. OneEach'
  <2>1. CASE flushing'.entries = flushing.entries
    BY <1>1, <2>1, Zenon DEF OneEach
  <2>2. CASE flushing'.entries = <<>>
    <3>1. 1..Len(flushing'.entries) = {}
      BY <2>2
    <3> QED BY <1>1, <3>1, Zenon DEF OneEach
  <2> QED BY <1>3, <2>1, <2>2, Zenon
<1>7. OnePlace' /\ NoRowYet'
  BY <1>1, <1>2, <1>4 DEF OnePlace, NoRowYet
<1>7a. \A r \in Request : /\ inserts[r] = 1 => inserts'[r] = 1
                          /\ InFlush(r) => InFlush(r)' \/ inserts'[r] = 1
  <2>1. CASE reported
    <3>1. wrote
      BY <2>1 DEF FlushBatch
    <3>2. QED
      BY <3>1 DEF FlushBatch, Inserted, Contains, InFlush
  <2>2. CASE ~reported
    BY <2>2 DEF FlushBatch, Inserted, Contains, InFlush
  <2>3. QED
    BY <2>1, <2>2
<1>7b. Somewhere'
  BY <1>1, <1>2, <1>4, <1>7a DEF Somewhere
<1>8. QED
  BY <1>5, <1>6, <1>7, <1>7b

LEMMA AuditOne ==
  ASSUME AuditInv, NEW wrote \in BOOLEAN, FlushOne(wrote) PROVE AuditInv'
<1> USE DEF AuditInv, AuditTypes
<1>1. flushing.entries # <<>> /\ flushing.batch = FALSE
  BY DEF FlushOne, Locked, NotFlushing
<1>0. PICK es \in Seq(Request) : es = flushing.entries
  OBVIOUS
<1>2. PICK first \in Request :
        /\ first = Head(es) /\ first = es[1] /\ Tail(es) \in Seq(Request) /\ Len(es) >= 1
        /\ Len(Tail(es)) = Len(es) - 1
        /\ \A i \in 1..Len(Tail(es)) : Tail(es)[i] = es[i + 1]
  <2>1. es # <<>>
    BY <1>0, <1>1
  <2>2. QED
    BY <2>1, HeadTailProperties
<1>2a. Len(es) \in Nat
  OBVIOUS
<1>3. /\ flushing' = [batch |-> FALSE, entries |-> Tail(es)]
      /\ UNCHANGED <<handled, toLog, buffer>>
      /\ inserts' = (IF wrote THEN [inserts EXCEPT ![first] = Inserted(first)] ELSE inserts)
      /\ lost' = IF inserts'[first] = 0 THEN lost \cup {first} ELSE lost
  BY <1>0, <1>1, <1>2 DEF FlushOne
<1>4. inserts' \in [Request -> {0, 1}] /\ \A q \in Request \ {first} : inserts'[q] = inserts[q]
  BY <1>2, <1>3 DEF Inserted
<1>5. InFlush(first) /\ ~InFlush(first)'
  <2>1. InFlush(first)
    BY <1>0, <1>2, <1>2a DEF InFlush
  <2>2. flushing'.entries = Tail(es)
    BY <1>3
  <2>3. \A i \in 1..Len(Tail(es)) : Tail(es)[i] # es[1]
    BY <1>0, <1>2, <1>2a DEF OneEach
  <2>4. ~InFlush(first)'
    BY <1>2, <1>2a, <2>2, <2>3 DEF InFlush
  <2>5. QED
    BY <2>1, <2>4
<1>6. \A q \in Request : InBuffer(q)' = InBuffer(q) /\ (InFlush(q)' => InFlush(q))
  BY <1>0, <1>2, <1>3 DEF InFlush, InBuffer
<1>7. AuditTypes' /\ OneEach'
  BY <1>0, <1>2, <1>3, <1>4 DEF OneEach
<1>8. OnePlace' /\ NoRowYet'
  <2>1. \A q \in lost' : q \in lost \/ (q = first /\ inserts'[first] = 0)
    BY <1>3
  <2>2. first \notin toLog /\ ~InBuffer(first) /\ first \notin lost
    BY <1>2, <1>5 DEF OnePlace
  <2>3. \A q \in Request : /\ q \in toLog' => q \in toLog
                           /\ InBuffer(q)' => InBuffer(q)
    BY <1>3, <1>6
  <2>4. \A q \in Request : InFlush(q)' => InFlush(q) /\ q # first
    BY <1>0, <1>2, <1>3, <1>5 DEF InFlush
  <2>5. OnePlace'
    BY <2>1, <2>2, <2>3, <2>4 DEF OnePlace
  <2>6. NoRowYet'
    BY <1>3, <1>4, <1>6, <2>1, <2>2 DEF NoRowYet
  <2>7. QED
    BY <2>5, <2>6
<1>8a. Somewhere'
  <2>1. \A q \in Request \ {first} : InFlush(q)' <=> InFlush(q)
    <3> SUFFICES ASSUME NEW q \in Request \ {first}, InFlush(q) PROVE InFlush(q)'
      BY <1>6
    <3>1. PICK i \in 1..Len(es) : es[i] = q
      BY <1>0 DEF InFlush
    <3>2. i - 1 \in 1..Len(Tail(es)) /\ Tail(es)[i - 1] = q
      BY <1>2, <1>2a, <3>1
    <3>3. flushing'.entries = Tail(es)
      BY <1>3
    <3>4. QED
      BY <3>2, <3>3 DEF InFlush
  <2>2. first \in handled' /\ (first \in lost' \/ inserts'[first] = 1)
    BY <1>2, <1>3, <1>4, <1>5 DEF Somewhere
  <2>3. QED
    BY <1>3, <1>4, <1>6, <2>1, <2>2 DEF Somewhere
<1>9. QED
  BY <1>7, <1>8, <1>8a

LEMMA AuditDropWaiting ==
  ASSUME AuditInv, NEW r \in Request, DropWaiting(r) PROVE AuditInv'
<1>1. \A q \in Request : InBuffer(q)' = InBuffer(q) /\ InFlush(q)' = InFlush(q)
  BY DEF DropWaiting, InBuffer, InFlush
<1>2. QED
  BY <1>1 DEF DropWaiting, AuditInv, AuditTypes, OneEach, OnePlace, NoRowYet, Somewhere

LEMMA AuditDropFlushing ==
  ASSUME AuditAssumption, AuditInv, NEW wrote \in BOOLEAN, DropFlushing(wrote) PROVE AuditInv'
<1> USE DEF AuditInv, AuditTypes
<1> DEFINE sent == IF flushing.batch THEN ToSet(flushing.entries) ELSE {Head(flushing.entries)}
<1>1. \A r \in Request : r \in ToSet(flushing.entries) <=> InFlush(r)
  BY DEF ToSet, InFlush
<1>2. \A r \in Request : r \in sent => InFlush(r)
  <2>1. CASE flushing.batch
    BY <1>1, <2>1
  <2>2. CASE ~flushing.batch
    <3>1. flushing.entries # <<>>
      BY <2>2 DEF DropFlushing, Locked, NotFlushing
    <3>2. Len(flushing.entries) \in Nat /\ Len(flushing.entries) >= 1
      BY <3>1
    <3>3. Head(flushing.entries) = flushing.entries[1] /\ 1 \in 1..Len(flushing.entries)
      BY <3>1, <3>2
    <3>4. QED
      BY <2>2, <3>3 DEF InFlush
  <2>3. QED
    BY <2>1, <2>2
<1>3. /\ inserts' = [r \in Request |-> IF wrote /\ r \in sent THEN Inserted(r) ELSE inserts[r]]
      /\ lost' = lost \cup {r \in ToSet(flushing.entries) : inserts'[r] = 0}
      /\ flushing' = NotFlushing /\ UNCHANGED <<handled, toLog, buffer>>
  BY DEF DropFlushing
<1> HIDE DEF sent
<1>4. /\ inserts' \in [Request -> {0, 1}]
      /\ \A r \in Request : ~InFlush(r) => inserts'[r] = inserts[r]
      /\ \A r \in Request : inserts[r] = 1 => inserts'[r] = 1
  BY <1>2, <1>3 DEF Inserted
<1>5. ToSet(flushing.entries) \subseteq Request
  BY DEF ToSet
<1>6. \A r \in Request : InBuffer(r)' = InBuffer(r) /\ ~InFlush(r)'
  BY <1>3 DEF InBuffer, InFlush, NotFlushing
<1>7. AuditTypes' /\ OneEach'
  BY <1>3, <1>4, <1>5 DEF OneEach, NotFlushing
<1>8. \A r \in Request : r \in lost' <=> r \in lost \/ (InFlush(r) /\ inserts'[r] = 0)
  BY <1>1, <1>3
<1>9. OnePlace' /\ NoRowYet' /\ Somewhere'
  BY <1>3, <1>4, <1>6, <1>8 DEF OnePlace, NoRowYet, Somewhere
<1>10. QED
  BY <1>7, <1>9

LEMMA AuditCrash == ASSUME AuditAssumption, AuditInv, Crash PROVE AuditInv'
<1> USE DEF AuditInv, AuditTypes
<1>1. /\ toLog' = {} /\ buffer' = <<>> /\ flushing' = NotFlushing
      /\ UNCHANGED <<handled, inserts>>
      /\ lost' = lost \cup toLog \cup ToSet(buffer)
                 \cup {r \in ToSet(flushing.entries) : inserts[r] = 0}
  BY DEF Crash
<1>2. ToSet(buffer) \subseteq Request /\ ToSet(flushing.entries) \subseteq Request
  BY DEF ToSet
<1>3. \A r \in ToSet(buffer) : inserts[r] = 0
  BY <1>2 DEF ToSet, NoRowYet, InBuffer
<1>4. \A q \in Request : ~InBuffer(q)' /\ ~InFlush(q)'
  BY <1>1 DEF InBuffer, InFlush, NotFlushing
<1>5. AuditTypes' /\ OneEach'
  BY <1>1, <1>2 DEF OneEach, NotFlushing, AuditAssumption
<1>6. \A q \in Request : /\ q \in ToSet(buffer) <=> InBuffer(q)
                         /\ q \in ToSet(flushing.entries) <=> InFlush(q)
  BY DEF ToSet, InBuffer, InFlush
<1>7. OnePlace' /\ NoRowYet' /\ Somewhere'
  BY <1>1, <1>2, <1>3, <1>4, <1>6 DEF OnePlace, NoRowYet, Somewhere
<1>8. QED
  BY <1>5, <1>7

\* The invariant holds.
LEMMA AuditInvAlways == ASSUME AuditAssumption PROVE AuditSpec => []AuditInv
<1>1. AuditInit => AuditInv
  BY AuditInvInit
<1>2. AuditInv /\ [AuditNext]_auditVars => AuditInv'
  <2> SUFFICES ASSUME AuditInv, [AuditNext]_auditVars PROVE AuditInv'
    OBVIOUS
  <2>1. CASE UNCHANGED auditVars
    BY <2>1 DEF auditVars, AuditInv, AuditTypes, OneEach, OnePlace, NoRowYet, Somewhere,
               InBuffer, InFlush
  <2>2. ASSUME NEW r \in Request, CarryOut(r) \/ Log(r) \/ DropWaiting(r) PROVE AuditInv'
    BY <2>2, AuditAnswer, AuditLog, AuditDropWaiting
  <2>3. ASSUME NEW wrote \in BOOLEAN, NEW reported \in BOOLEAN, FlushBatch(wrote, reported)
        PROVE  AuditInv'
    BY <2>3, AuditBatch
  <2>4. ASSUME NEW wrote \in BOOLEAN, FlushOne(wrote) \/ DropFlushing(wrote) PROVE AuditInv'
    BY <2>4, AuditOne, AuditDropFlushing
  <2>5. CASE Crash
    BY <2>5, AuditCrash
  <2>6. QED
    BY <2>1, <2>2, <2>3, <2>4, <2>5 DEF AuditNext
<1> QED BY <1>1, <1>2, PTL DEF AuditSpec

\* gateway/audit.rs: for any number of requests and any size of the buffer, the entry
\* of every request that was carried out is in exactly one place: it waits for the
\* lock, or in the buffer, or in a flush, or is in the table, once, or was lost by a
\* crash, by an error of its own statement, or with the handler that flushed it.
THEOREM EntriesAccountedAlways ==
  ASSUME AuditAssumption PROVE AuditSpec => []EntriesAccounted
<1>1. AuditInv => EntriesAccounted
  <2> SUFFICES ASSUME AuditInv PROVE EntriesAccounted
    OBVIOUS
  <2> USE DEF AuditInv, AuditTypes
  <2>1. DOMAIN buffer = 1..Len(buffer) /\ DOMAIN flushing.entries = 1..Len(flushing.entries)
    OBVIOUS
  <2>2. \A r : /\ Contains(buffer, r) <=> InBuffer(r)
               /\ Contains(flushing.entries, r) <=> InFlush(r)
    BY <2>1 DEF Contains, InBuffer, InFlush
  <2>3. IsInjective(buffer) /\ IsInjective(flushing.entries)
    BY <2>1 DEF IsInjective, OneEach
  <2>4. \A r \in Request : inserts[r] <= 1
    OBVIOUS
  <2>5. ASSUME NEW r \in Request
        PROVE  /\ "log" \in Places(r) <=> r \in toLog
               /\ "buffer" \in Places(r) <=> InBuffer(r)
               /\ "flush" \in Places(r) <=> InFlush(r) /\ inserts[r] = 0
               /\ "table" \in Places(r) <=> inserts[r] = 1
               /\ "lost" \in Places(r) <=> r \in lost
               /\ Places(r) \subseteq {"log", "buffer", "flush", "table", "lost"}
    BY <2>2 DEF Places
  <2>6. ASSUME NEW r \in Request \ handled PROVE Places(r) = {}
    BY <2>5 DEF Somewhere
  <2>7. ASSUME NEW r \in handled PROVE \E p \in Places(r) : Places(r) = {p}
    <3>1. r \in Request
      OBVIOUS
    <3>2. CASE r \in toLog
      <4>1. inserts[r] = 0 /\ ~InFlush(r) /\ ~InBuffer(r) /\ r \notin lost
        BY <3>1, <3>2 DEF OnePlace, NoRowYet
      <4>2. Places(r) = {"log"}
        BY <2>5, <3>1, <3>2, <4>1
      <4>3. QED
        BY <4>2
    <3>3. CASE InBuffer(r)
      <4>1. inserts[r] = 0 /\ ~InFlush(r) /\ r \notin toLog /\ r \notin lost
        BY <3>1, <3>3 DEF OnePlace, NoRowYet
      <4>2. Places(r) = {"buffer"}
        BY <2>5, <3>1, <3>3, <4>1
      <4>3. QED
        BY <4>2
    <3>4. CASE r \in lost
      <4>1. inserts[r] = 0 /\ ~InFlush(r) /\ ~InBuffer(r) /\ r \notin toLog
        BY <3>1, <3>4 DEF OnePlace, NoRowYet
      <4>2. Places(r) = {"lost"}
        BY <2>5, <3>1, <3>4, <4>1
      <4>3. QED
        BY <4>2
    <3>5. CASE inserts[r] = 1
      <4>1. Places(r) = {"table"}
        BY <2>5, <3>1, <3>5 DEF NoRowYet
      <4>2. QED
        BY <4>1
    <3>6. CASE InFlush(r) /\ inserts[r] = 0
      <4>1. Places(r) = {"flush"}
        BY <2>5, <3>1, <3>6 DEF OnePlace
      <4>2. QED
        BY <4>1
    <3>7. QED
      BY <3>1, <3>2, <3>3, <3>4, <3>5, <3>6 DEF Somewhere
  <2>8. QED
    BY <2>3, <2>4, <2>6, <2>7 DEF EntriesAccounted
<1> QED BY <1>1, AuditInvAlways, PTL

\* gateway/audit.rs: the buffer stays below the size at which a request flushes it.
THEOREM AuditTypesAlways == ASSUME AuditAssumption PROVE AuditSpec => []AuditTypeOK
<1>1. AuditInv => AuditTypeOK
  BY DEF AuditInv, AuditTypes, AuditTypeOK
<1> QED BY <1>1, AuditInvAlways, PTL

(***************************************************************************)
(* Data retention. A statement that waits has a cutoff that is no later    *)
(* than it would be if it were generated now.                              *)
(***************************************************************************)
RetentionInv ==
  /\ today \in Nat
  /\ \A r \in rows : r.day \in Nat
  /\ \A q \in queries : /\ q.category \in Enforced
                        /\ q.cutoff \in Int /\ q.cutoff <= today - Period[q.category]
  /\ RetentionRespected

LEMMA RunRetentionKeeps ==
  ASSUME RetentionAssumption, RetentionInv, NEW q \in queries, RunRetention(q)
  PROVE  RetentionInv'
<1>1. PICK gone \in SUBSET {r \in rows : r.category = q.category /\ r.day < q.cutoff} :
        rows' = rows \ gone /\ deletedOn' = deletedOn \cup {<<r, today>> : r \in gone}
  BY DEF RunRetention
<1>2. \A d \in deletedOn' \ deletedOn : \E r \in gone : d = <<r, today>>
  BY <1>1
<1>3. \A r \in gone : /\ today - r.day > Period[r.category]
                      /\ r.category # "billing_records"
  BY <1>1 DEF RetentionInv, RetentionAssumption, Enforced
<1>4. RetentionRespected'
  BY <1>2, <1>3 DEF RetentionInv, RetentionRespected
<1>5. QED
  BY <1>1, <1>4 DEF RetentionInv, RunRetention

\* gateway/data_retention.rs: for any categories, periods and batch limit, nothing
\* is deleted before its period is over, however late its statement is run, and
\* nothing that is kept for the tax authority.
THEOREM RetentionRespectedAlways ==
  ASSUME RetentionAssumption PROVE RetentionSpec => []RetentionRespected
<1>1. RetentionInit => RetentionInv
  BY DEF RetentionInit, RetentionInv, RetentionRespected
<1>2. RetentionInv /\ [RetentionNext]_retentionVars => RetentionInv'
  <2> SUFFICES ASSUME RetentionInv, [RetentionNext]_retentionVars PROVE RetentionInv'
    OBVIOUS
  <2> USE DEF RetentionInv, RetentionRespected
  <2>1. CASE UNCHANGED retentionVars
    BY <2>1 DEF retentionVars
  <2>2. CASE NextDay
    BY <2>2 DEF NextDay, RetentionAssumption, Enforced
  <2>3. CASE GenerateRetentionQueries
    BY <2>3 DEF GenerateRetentionQueries, RetentionAssumption, Enforced, Cutoff
  <2>4. CASE RunErasure
    BY <2>4 DEF RunErasure
  <2>5. ASSUME NEW c \in Category, NEW p \in Person, NEW h \in CohortHash, Write(c, p, h)
        PROVE  RetentionInv'
    BY <2>5 DEF Write
  <2>6. ASSUME NEW q \in queries, RunRetention(q) PROVE RetentionInv'
    BY <2>6, RunRetentionKeeps
  <2>7. ASSUME NEW p \in Person, RequestErasure(p) PROVE RetentionInv'
    BY <2>7 DEF RequestErasure
  <2>8. QED
    BY <2>1, <2>2, <2>3, <2>4, <2>5, <2>6, <2>7 DEF RetentionNext
<1>3. RetentionInv => RetentionRespected
  BY DEF RetentionInv
<1>4. QED
  BY <1>1, <1>2, <1>3, PTL DEF RetentionSpec

(***************************************************************************)
(* K-anonymity: the ring of decisions. It holds the last of them in order; *)
(* a drain takes the oldest of a full ring, and leaves the rest.           *)
(***************************************************************************)
Decision == [cohort_key : CohortKey, sample_size : {K - 1, K}, allowed : BOOLEAN]

RingTypes == auditLog \in Seq(Decision) /\ decided \in Seq(Decision)

\* `log` ends as the decisions do.
Newest(log, all) ==
  /\ Len(log) <= Len(all)
  /\ \A i \in 1..Len(log) : log[i] = all[Len(all) - Len(log) + i]

RingFull ==
  LET n == Len(decided)  m == Len(auditLog)
  IN /\ m <= MaxLog
     /\ m >= IF n < MaxLog - Drained + 1 THEN n ELSE MaxLog - Drained + 1

RingInv == RingTypes /\ Newest(auditLog, decided) /\ RingFull

\* The older part of a log can be cut off.
LEMMA DrainedIsNewest ==
  ASSUME KAnonymityAssumption, NEW log \in Seq(Decision), NEW all \in Seq(Decision),
         Newest(log, all), Len(log) >= MaxLog
  PROVE  /\ Drain(log) \in Seq(Decision) /\ Len(Drain(log)) = Len(log) - Drained
         /\ Newest(Drain(log), all)
<1>1. /\ Drained \in Nat /\ Drained >= 1 /\ Drained <= MaxLog /\ MaxLog \in Nat
      /\ Len(log) \in Nat /\ Len(all) \in Nat
  BY DEF KAnonymityAssumption
<1>2. \A i \in (Drained + 1)..Len(log) : log[i] \in Decision
  BY <1>1
<1>3. /\ SubSeq(log, Drained + 1, Len(log)) \in Seq(Decision)
      /\ Len(SubSeq(log, Drained + 1, Len(log)))
           = IF Drained + 1 <= Len(log) THEN Len(log) - (Drained + 1) + 1 ELSE 0
      /\ \A i \in 1..(Len(log) - (Drained + 1) + 1) :
           SubSeq(log, Drained + 1, Len(log))[i] = log[Drained + 1 + i - 1]
  BY <1>1, <1>2, SubSeqProperties
<1>4. Len(Drain(log)) = Len(log) - Drained
  BY <1>1, <1>3 DEF Drain
<1>5. \A i \in 1..(Len(log) - Drained) : Drain(log)[i] = log[Drained + i]
  BY <1>1, <1>3 DEF Drain
<1>6. \A i \in 1..(Len(log) - Drained) :
        log[Drained + i] = all[Len(all) - Len(log) + (Drained + i)]
  BY <1>1 DEF Newest
<1>7. \A i \in 1..Len(Drain(log)) :
        Drain(log)[i] = all[Len(all) - Len(Drain(log)) + i]
  BY <1>1, <1>4, <1>5, <1>6
<1>8. Len(Drain(log)) <= Len(all)
  BY <1>1, <1>4 DEF Newest
<1>9. QED
  BY <1>3, <1>4, <1>7, <1>8 DEF Newest, Drain

\* A decision is added to both.
LEMMA AppendedIsNewest ==
  ASSUME NEW log \in Seq(Decision), NEW all \in Seq(Decision), NEW d \in Decision,
         Newest(log, all)
  PROVE  Newest(Append(log, d), Append(all, d))
<1>1. PICK longer \in Seq(Decision), more \in Seq(Decision) :
        /\ longer = Append(log, d) /\ more = Append(all, d)
        /\ Len(longer) = Len(log) + 1 /\ Len(more) = Len(all) + 1
        /\ \A i \in 1..Len(log) : longer[i] = log[i]
        /\ \A i \in 1..Len(all) : more[i] = all[i]
        /\ longer[Len(log) + 1] = d /\ more[Len(all) + 1] = d
  <2>1. /\ Append(log, d) \in Seq(Decision) /\ Append(all, d) \in Seq(Decision)
        /\ Len(Append(log, d)) = Len(log) + 1 /\ Len(Append(all, d)) = Len(all) + 1
        /\ \A i \in 1..Len(log) : Append(log, d)[i] = log[i]
        /\ \A i \in 1..Len(all) : Append(all, d)[i] = all[i]
        /\ Append(log, d)[Len(log) + 1] = d /\ Append(all, d)[Len(all) + 1] = d
    OBVIOUS
  <2>2. QED
    BY <2>1, Zenon
<1>2. Len(log) \in Nat /\ Len(all) \in Nat
  OBVIOUS
<1>3. ASSUME NEW i \in 1..Len(longer)
      PROVE  longer[i] = more[Len(more) - Len(longer) + i]
  <2>1. CASE i = Len(log) + 1
    BY <1>1, <1>2, <2>1
  <2>2. CASE i # Len(log) + 1
    <3>1. i \in 1..Len(log) /\ Len(more) - Len(longer) + i = Len(all) - Len(log) + i
      BY <1>1, <1>2, <2>2
    <3>2. log[i] = all[Len(all) - Len(log) + i] /\ Len(log) <= Len(all)
      BY <3>1 DEF Newest
    <3>3. Len(all) - Len(log) + i \in 1..Len(all)
      BY <1>2, <3>1, <3>2
    <3>4. QED
      BY <1>1, <3>1, <3>2, <3>3
  <2>3. QED
    BY <2>1, <2>2
<1>4. Len(longer) <= Len(more)
  BY <1>1, <1>2 DEF Newest
<1>5. Newest(longer, more)
  BY <1>3, <1>4 DEF Newest
<1>6. QED
  BY <1>1, <1>5

LEMMA EnforceKeeps ==
  ASSUME KAnonymityAssumption, RingInv, NEW k \in CohortKey, NEW size \in {K - 1, K},
         Enforce(k, size)
  PROVE  RingInv'
<1>1. PICK d \in Decision :
        /\ auditLog' = Append(IF Len(auditLog) >= MaxLog THEN Drain(auditLog) ELSE auditLog, d)
        /\ decided' = Append(decided, d)
  <2> DEFINE record == [cohort_key |-> k, sample_size |-> size, allowed |-> size >= K]
  <2>1. record \in Decision
    BY DEF Decision
  <2>2. QED
    BY <2>1 DEF Enforce
<1>2. RingTypes /\ Newest(auditLog, decided) /\ RingFull
  BY DEF RingInv
<1>3. PICK log \in Seq(Decision) :
        /\ log = IF Len(auditLog) >= MaxLog THEN Drain(auditLog) ELSE auditLog
        /\ Newest(log, decided)
        /\ Len(log) = IF Len(auditLog) >= MaxLog THEN Len(auditLog) - Drained ELSE Len(auditLog)
  BY <1>2, DrainedIsNewest DEF RingTypes
<1>4. auditLog' = Append(log, d)
  BY <1>1, <1>3
<1>5. Newest(auditLog, decided)'
  <2>1. decided \in Seq(Decision)
    BY <1>2 DEF RingTypes
  <2>2. Newest(Append(log, d), Append(decided, d))
    BY <1>3, <2>1, AppendedIsNewest
  <2>3. Newest(auditLog', decided')
    BY <1>1, <1>4, <2>2, Zenon
  <2>4. QED
    BY <2>3 DEF Newest
<1>6. RingTypes'
  <2>1. Append(log, d) \in Seq(Decision) /\ Append(decided, d) \in Seq(Decision)
    BY <1>2 DEF RingTypes
  <2>2. auditLog' \in Seq(Decision) /\ decided' \in Seq(Decision)
    BY <1>1, <1>4, <2>1, Zenon
  <2>3. QED
    BY <2>2 DEF RingTypes, Decision
<1>7. Len(auditLog') = Len(log) + 1 /\ Len(decided') = Len(decided) + 1
  BY <1>1, <1>2, <1>4 DEF RingTypes
<1>8. /\ Len(log) \in Nat /\ Len(decided) \in Nat /\ Len(auditLog) \in Nat
      /\ Drained \in 1..MaxLog /\ MaxLog \in Nat
  BY <1>2 DEF RingTypes, KAnonymityAssumption
<1>9. RingFull'
  BY <1>2, <1>3, <1>7, <1>8 DEF RingFull
<1>10. QED
  BY <1>5, <1>6, <1>9 DEF RingInv

\* gateway/k_anonymity.rs: for any capacity of the ring and any part of it that is
\* drained, what can be looked up are the newest decisions, in order, and enough
\* of them.
LEMMA RingShowsNewest ==
  ASSUME KAnonymityAssumption, RingInv PROVE DecisionsKept
<1> DEFINE n == Len(decided)  m == Len(auditLog)
<1>1. auditLog \in Seq(Decision) /\ decided \in Seq(Decision) /\ n \in Nat /\ m \in Nat
  BY DEF RingInv, RingTypes
<1>2. /\ m <= n /\ \A i \in 1..m : auditLog[i] = decided[n - m + i]
      /\ m <= MaxLog /\ m >= IF n < MaxLog - Drained + 1 THEN n ELSE MaxLog - Drained + 1
  BY DEF RingInv, Newest, RingFull
<1>3. \A i \in (n - m + 1)..n : decided[i] \in Decision
  BY <1>1, <1>2
<1>4. /\ SubSeq(decided, n - m + 1, n) \in Seq(Decision)
      /\ Len(SubSeq(decided, n - m + 1, n))
           = IF n - m + 1 <= n THEN n - (n - m + 1) + 1 ELSE 0
      /\ \A i \in 1..(n - (n - m + 1) + 1) :
           SubSeq(decided, n - m + 1, n)[i] = decided[n - m + 1 + i - 1]
  BY <1>1, <1>2, <1>3, SubSeqProperties
<1>5. Len(SubSeq(decided, n - m + 1, n)) = m
  BY <1>1, <1>2, <1>4
<1>6. \A i \in 1..m : SubSeq(decided, n - m + 1, n)[i] = auditLog[i]
  BY <1>1, <1>2, <1>4
<1>7. auditLog = SubSeq(decided, n - m + 1, n)
  BY <1>1, <1>4, <1>5, <1>6, SeqEqual
<1>8. ASSUME n > 0 PROVE Last(RecentAudit(1)) = Last(decided)
  <2>1. m >= 1
    BY <1>1, <1>2, <1>8 DEF KAnonymityAssumption
  <2>2. RecentAudit(1) = SubSeq(auditLog, m, m)
    <3>1. \A x \in Nat : x >= 1 => (IF x > 1 THEN x - 1 + 1 ELSE 1) = x
      OBVIOUS
    <3>2. (IF m > 1 THEN m - 1 + 1 ELSE 1) = m
      BY <1>1, <2>1, <3>1
    <3>3. QED
      BY <3>2, Zenon DEF RecentAudit
  <2>3. \A i \in m..m : auditLog[i] \in Decision
    BY <1>1, <2>1
  <2>4. /\ Len(SubSeq(auditLog, m, m)) = IF m <= m THEN m - m + 1 ELSE 0
        /\ \A i \in 1..(m - m + 1) : SubSeq(auditLog, m, m)[i] = auditLog[m + i - 1]
    BY <1>1, <2>3, SubSeqProperties
  <2>5. Len(SubSeq(auditLog, m, m)) = 1 /\ SubSeq(auditLog, m, m)[1] = auditLog[m]
    BY <1>1, <2>1, <2>4
  <2>6. auditLog[m] = decided[n]
    BY <1>1, <1>2, <2>1
  <2>7. QED
    BY <2>2, <2>5, <2>6 DEF Last
<1>9. QED
  BY <1>2, <1>7, <1>8 DEF DecisionsKept

(***************************************************************************)
(* K-anonymity: merging small cohorts. A cohort that is not on the list of *)
(* those still to merge is large; cohorts are disjoint; and nobody is left *)
(* out as long as there is one that is not on the list.                    *)
(***************************************************************************)
CohortsOK ==
  /\ small \subseteq DOMAIN cohorts /\ DOMAIN cohorts \subseteq CohortKey
  /\ \A k \in DOMAIN cohorts : cohorts[k] \subseteq Member
  /\ \A k \in DOMAIN cohorts \ small : Cardinality(cohorts[k]) >= K
  /\ \A j, k \in DOMAIN cohorts : j # k => cohorts[j] \cap cohorts[k] = {}

EveryoneInACohort ==
  DOMAIN cohorts \ small # {} => \A m \in Member : \E k \in DOMAIN cohorts : m \in cohorts[k]

MergeInv == CohortsOK /\ EveryoneInACohort

LEMMA BeginMergeKeeps ==
  ASSUME KAnonymityAssumption, BeginMerge PROVE MergeInv'
<1>1. PICK home \in [Member -> CohortKey] :
        cohorts' = [k \in {home[m] : m \in Member} |-> {m \in Member : home[m] = k}]
  BY DEF BeginMerge
<1>2. /\ DOMAIN cohorts' = {home[m] : m \in Member}
      /\ \A k \in DOMAIN cohorts' : cohorts'[k] = {m \in Member : home[m] = k}
  BY <1>1
<1>3. /\ small' \subseteq DOMAIN cohorts'
      /\ \A k \in DOMAIN cohorts' \ small' : ~(Cardinality(cohorts'[k]) < K)
  BY DEF BeginMerge, SmallerThan
<1>4. \A k \in DOMAIN cohorts' : Cardinality(cohorts'[k]) \in Nat
  BY <1>2, FS_Subset, FS_CardinalityType DEF KAnonymityAssumption
<1>5. \A k \in DOMAIN cohorts' \ small' : Cardinality(cohorts'[k]) >= K
  BY <1>3, <1>4 DEF KAnonymityAssumption
<1>6. \A m \in Member : home[m] \in DOMAIN cohorts' /\ m \in cohorts'[home[m]]
  BY <1>2
<1>7. CohortsOK'
  BY <1>2, <1>3, <1>5 DEF CohortsOK
<1>8. QED
  BY <1>6, <1>7 DEF MergeInv, EveryoneInACohort

LEMMA MergeOneKeeps ==
  ASSUME KAnonymityAssumption, MergeInv, NEW k \in CohortKey, MergeOne(k) PROVE MergeInv'
<1> DEFINE rest == DOMAIN cohorts \ {k}
<1>1. k \in DOMAIN cohorts /\ k \in small /\ small' = small \ {k}
  BY DEF MergeOne, MergeInv, CohortsOK
<1>2. CASE rest = {}
  <2>1. DOMAIN cohorts' = {}
    BY <1>2 DEF MergeOne
  <2>2. small' = {}
    BY <1>1, <1>2 DEF MergeInv, CohortsOK
  <2>3. QED
    BY <2>1, <2>2 DEF MergeInv, CohortsOK, EveryoneInACohort
<1>3. CASE rest # {}
  <2>1. PICK near \in rest :
          cohorts' = [c \in rest |-> IF c = near THEN cohorts[c] \cup cohorts[k] ELSE cohorts[c]]
    BY <1>3 DEF MergeOne
  <2>2. /\ DOMAIN cohorts' = rest
        /\ cohorts'[near] = cohorts[near] \cup cohorts[k]
        /\ \A c \in rest \ {near} : cohorts'[c] = cohorts[c]
    BY <2>1
  <2>3. \A c \in rest : cohorts[c] \subseteq cohorts'[c] /\ cohorts'[c] \subseteq Member
    BY <1>1, <2>2 DEF MergeInv, CohortsOK
  <2>4. \A c \in rest : /\ Cardinality(cohorts[c]) <= Cardinality(cohorts'[c])
                        /\ Cardinality(cohorts[c]) \in Nat /\ Cardinality(cohorts'[c]) \in Nat
    BY <2>3, FS_Subset, FS_CardinalityType DEF KAnonymityAssumption
  <2>5. DOMAIN cohorts' \ small' = DOMAIN cohorts \ small
    BY <1>1, <2>2
  <2>6. \A c \in DOMAIN cohorts' \ small' : Cardinality(cohorts'[c]) >= K
    BY <2>2, <2>4, <2>5 DEF MergeInv, CohortsOK, KAnonymityAssumption
  <2>7. \A i, j \in DOMAIN cohorts' : i # j => cohorts'[i] \cap cohorts'[j] = {}
    BY <1>1, <2>2 DEF MergeInv, CohortsOK
  <2>8. CohortsOK'
    BY <1>1, <2>2, <2>3, <2>6, <2>7 DEF MergeInv, CohortsOK
  <2>9. \A c \in DOMAIN cohorts : \A m \in cohorts[c] : \E e \in DOMAIN cohorts' : m \in cohorts'[e]
    BY <1>1, <2>2, <2>3
  <2>10. EveryoneInACohort'
    BY <2>5, <2>9 DEF MergeInv, EveryoneInACohort
  <2>11. QED
    BY <2>8, <2>10 DEF MergeInv
<1>4. QED
  BY <1>2, <1>3

LEMMA MergedIsLarge == ASSUME MergeInv PROVE MergedCohortsAreLarge
<1> USE DEF MergeInv, CohortsOK
<1>1. UNION {cohorts[k] : k \in DOMAIN cohorts} \subseteq Member
  OBVIOUS
<1>2. DOMAIN cohorts \ small # {} => Member \subseteq UNION {cohorts[k] : k \in DOMAIN cohorts}
  BY DEF EveryoneInACohort
<1>3. QED
  BY <1>1, <1>2 DEF MergedCohortsAreLarge

KInv == RingInv /\ MergeInv

\* The invariant holds.
LEMMA KInvAlways == ASSUME KAnonymityAssumption PROVE KSpec => []KInv
<1>1. KInit => KInv
  BY DEF KInit, KInv, RingInv, RingTypes, Newest, RingFull, MergeInv, CohortsOK,
         EveryoneInACohort, KAnonymityAssumption
<1>2. KInv /\ [KNext]_kVars => KInv'
  <2> SUFFICES ASSUME KInv, [KNext]_kVars PROVE KInv'
    OBVIOUS
  <2>1. UNCHANGED merging => MergeInv'
    BY DEF merging, KInv, MergeInv, CohortsOK, EveryoneInACohort
  <2>2. UNCHANGED enforcer => RingInv'
    BY DEF enforcer, KInv, RingInv, RingTypes, Newest, RingFull
  <2>3. CASE UNCHANGED kVars
    BY <2>1, <2>2, <2>3 DEF kVars, merging, enforcer, KInv
  <2>4. ASSUME NEW k \in CohortKey, NEW size \in {K - 1, K}, Enforce(k, size) PROVE KInv'
    BY <2>1, <2>4, EnforceKeeps DEF KInv, Enforce
  <2>5. CASE BeginMerge
    BY <2>2, <2>5, BeginMergeKeeps DEF KInv, BeginMerge
  <2>6. ASSUME NEW k \in CohortKey, MergeOne(k) PROVE KInv'
    BY <2>2, <2>6, MergeOneKeeps DEF KInv, MergeOne
  <2>7. QED
    BY <2>3, <2>4, <2>5, <2>6 DEF KNext
<1>3. QED
  BY <1>1, <1>2, PTL DEF KSpec

\* gateway/k_anonymity.rs: what can be looked up are the newest decisions, in
\* order; merged, no cohort is too small, and none loses or shares a member. For
\* any threshold, regions, trades, members and capacity of the ring.
THEOREM CohortsAnonymousAlways ==
  ASSUME KAnonymityAssumption PROVE KSpec => [](DecisionsKept /\ MergedCohortsAreLarge)
<1>1. KInv => DecisionsKept /\ MergedCohortsAreLarge
  BY RingShowsNewest, MergedIsLarge DEF KInv
<1>2. QED
  BY <1>1, KInvAlways, PTL

\* What was released are the sizes of cohorts that were large enough.
SizesReleased ==
  /\ cohortSizes = [k \in CohortKey |-> cohortSizes[k]]
  /\ \A k \in CohortKey : cohortSizes[k] = 0 \/ cohortSizes[k] >= K

LEMMA SizesStay ==
  ASSUME KAnonymityAssumption, SizesReleased, [KNext]_kVars PROVE SizesReleased'
<1>1. CASE UNCHANGED cohortSizes
  BY <1>1 DEF SizesReleased
<1>2. ASSUME NEW k \in CohortKey, NEW size \in {K - 1, K}, Enforce(k, size) PROVE SizesReleased'
  <2>1. UNCHANGED cohortSizes \/ (size >= K /\ cohortSizes' = [cohortSizes EXCEPT ![k] = size])
    BY <1>2 DEF Enforce
  <2>2. CASE size >= K /\ cohortSizes' = [cohortSizes EXCEPT ![k] = size]
    BY <2>2 DEF SizesReleased
  <2> QED BY <1>1, <2>1, <2>2
<1> QED BY <1>1, <1>2 DEF KNext, BeginMerge, MergeOne, enforcer, kVars

\* gateway/k_anonymity.rs: the ring stays within its capacity, and every cohort size that
\* was released reaches the threshold.
THEOREM KTypesAlways == ASSUME KAnonymityAssumption PROVE KSpec => []KTypeOK
<1>1. KInit => SizesReleased
  BY DEF KInit, SizesReleased
<1>2. SizesReleased /\ [KNext]_kVars => SizesReleased'
  BY SizesStay
<1>3. KInv /\ SizesReleased => KTypeOK
  BY DEF KInv, RingInv, RingFull, SizesReleased, KTypeOK
<1> QED BY <1>1, <1>2, <1>3, KInvAlways, PTL DEF KSpec

(***************************************************************************)
(* Invoices. All the numbers up to the count of a year are taken, and a    *)
(* call that overlaps others holds one of them or the next: only the next  *)
(* can be inserted. A payment that waits has read the clock after that of  *)
(* its invoice.                                                            *)
(***************************************************************************)
InvoiceNumber == [year : Nat, seq : Nat]
Invoice == [number : InvoiceNumber, status : {"issued", "overdue", "paid"}, due : Int,
            mpesa_receipt : Receipt \cup {"none"}, settledBy : Receipt \cup {"none"},
            paid_at : Int]

InvoiceTypes ==
  /\ invoices \in Seq(Invoice) /\ Len(invoices) <= MaxInvoices
  /\ issuedOn \in [Creator -> Int] /\ \A c \in Creator : issuedOn[c] >= NotYet /\ issuedOn[c] <= day
  /\ creating \in [Creator -> InvoiceNumber \cup {NotCreating}]
  /\ paying \in [Receipt -> [invoice : Nat, at : Int]]
  /\ overdueAsOf \in Int /\ lastRun \in [asOf : Int, seen : Nat]
  /\ day \in Nat

\* The places of the invoices of a year among the first n.
OfYear(table, y, n) == {j \in 1..n : table[j].number.year = y}
Counted(table, y) == Cardinality(OfYear(table, y, Len(table)))

Numbered(table) ==
  \A i \in 1..Len(table) :
    table[i].number.seq = Cardinality(OfYear(table, table[i].number.year, i))

NumbersTaken(table) ==
  \A y \in Nat : \A s \in 1..Counted(table, y) :
    \E i \in 1..Len(table) : table[i].number = [year |-> y, seq |-> s]

HoldsNext(table, calls) ==
  \A c \in Creator : calls[c] # NotCreating =>
    calls[c].seq \in 1..(Counted(table, calls[c].year) + 1)

NumberInv == Numbered(invoices) /\ NumbersTaken(invoices) /\ HoldsNext(invoices, creating)

Settled(invoice) ==
  /\ invoice.mpesa_receipt = invoice.settledBy
  /\ (invoice.status = "paid") = (invoice.settledBy # "none")
  /\ invoice.status = "paid" => invoice.due - DaysToPay <= invoice.paid_at
  /\ invoice.due - DaysToPay <= day

InTime(table, calls) ==
  \A r \in Receipt : calls[r] # NotPaying =>
    /\ calls[r].invoice \in 1..Len(table)
    /\ table[calls[r].invoice].due - DaysToPay <= calls[r].at

SettledInv == (\A i \in 1..Len(invoices) : Settled(invoices[i])) /\ InTime(invoices, paying)

RunInv ==
  /\ lastRun.seen <= Len(invoices)
  /\ \A i \in 1..lastRun.seen : invoices[i].status = "issued" => invoices[i].due >= lastRun.asOf

InvoiceInv == InvoiceTypes /\ NumberInv /\ SettledInv /\ RunInv

\* The count of a year is finite.
LEMMA CountIsFinite ==
  ASSUME NEW table, NEW y, NEW n \in Nat
  PROVE  IsFiniteSet(OfYear(table, y, n)) /\ Cardinality(OfYear(table, y, n)) \in Nat
<1>1. IsFiniteSet(1..n)
  BY FS_Interval
<1>2. OfYear(table, y, n) \subseteq 1..n
  BY DEF OfYear
<1>3. QED
  BY <1>1, <1>2, FS_Subset, FS_CardinalityType

\* What keeps the numbers keeps the numbering.
LEMMA SameNumbers ==
  ASSUME NEW table \in Seq(Invoice), NEW changed \in Seq(Invoice),
         Len(changed) = Len(table),
         \A i \in 1..Len(table) : changed[i].number = table[i].number,
         Numbered(table), NumbersTaken(table), NEW calls, HoldsNext(table, calls)
  PROVE  Numbered(changed) /\ NumbersTaken(changed) /\ HoldsNext(changed, calls)
<1>1. ASSUME NEW y, NEW n \in 0..Len(table) PROVE OfYear(changed, y, n) = OfYear(table, y, n)
  BY DEF OfYear
<1>2. \A y : Counted(changed, y) = Counted(table, y)
  BY <1>1 DEF Counted
<1>3. Numbered(changed)
  <2> SUFFICES ASSUME NEW i \in 1..Len(table)
               PROVE  changed[i].number.seq
                        = Cardinality(OfYear(changed, changed[i].number.year, i))
    BY DEF Numbered
  <2>1. OfYear(changed, table[i].number.year, i) = OfYear(table, table[i].number.year, i)
    BY <1>1
  <2>2. table[i].number.seq = Cardinality(OfYear(table, table[i].number.year, i))
    BY DEF Numbered
  <2>3. changed[i].number = table[i].number
    OBVIOUS
  <2>4. QED
    BY <2>1, <2>2, <2>3
<1>4. NumbersTaken(changed)
  BY <1>2 DEF NumbersTaken
<1>5. HoldsNext(changed, calls)
  BY <1>2 DEF HoldsNext
<1>6. QED
  BY <1>3, <1>4, <1>5

\* An invoice that takes the next number of its year.
LEMMA NextNumber ==
  ASSUME NEW table \in Seq(Invoice), NEW new \in Invoice,
         Numbered(table), NumbersTaken(table), NEW calls,
         calls \in [Creator -> InvoiceNumber \cup {NotCreating}], HoldsNext(table, calls),
         new.number.seq = Counted(table, new.number.year) + 1
  PROVE  /\ Numbered(Append(table, new)) /\ NumbersTaken(Append(table, new))
         /\ HoldsNext(Append(table, new), calls)
<1> DEFINE n == Len(table)
           y == new.number.year
<1>1. PICK longer \in Seq(Invoice) :
        /\ longer = Append(table, new)
        /\ Len(longer) = n + 1 /\ longer[n + 1] = new
        /\ \A i \in 1..n : longer[i] = table[i]
  <2>1. /\ Append(table, new) \in Seq(Invoice) /\ Len(Append(table, new)) = n + 1
        /\ Append(table, new)[n + 1] = new
        /\ \A i \in 1..n : Append(table, new)[i] = table[i]
    OBVIOUS
  <2>2. QED
    BY <2>1, Zenon
<1>2. n \in Nat /\ y \in Nat
  BY DEF Invoice, InvoiceNumber
<1> HIDE DEF n, y
<1>3. ASSUME NEW z, NEW i \in 0..n PROVE OfYear(longer, z, i) = OfYear(table, z, i)
  BY <1>1, <1>2 DEF OfYear
<1>4. OfYear(longer, y, n + 1) = OfYear(table, y, n) \cup {n + 1}
  BY <1>1, <1>2 DEF OfYear, y
<1>5. n + 1 \notin OfYear(table, y, n)
  BY <1>2 DEF OfYear
<1>6. Cardinality(OfYear(longer, y, n + 1)) = Cardinality(OfYear(table, y, n)) + 1
  BY <1>2, <1>4, <1>5, CountIsFinite, FS_AddElement
<1>7. ASSUME NEW z, z # y PROVE OfYear(longer, z, n + 1) = OfYear(table, z, n)
  BY <1>1, <1>2, <1>7 DEF OfYear, y
<1>8. /\ Counted(longer, y) = Counted(table, y) + 1
      /\ \A z : z # y => Counted(longer, z) = Counted(table, z)
      /\ \A z : Counted(table, z) \in Nat
  BY <1>1, <1>2, <1>6, <1>7, CountIsFinite DEF Counted, n
<1>9. Numbered(longer)
  <2> SUFFICES ASSUME NEW i \in 1..(n + 1)
               PROVE  longer[i].number.seq = Cardinality(OfYear(longer, longer[i].number.year, i))
    BY <1>1 DEF Numbered
  <2>1. CASE i = n + 1
    <3>1. longer[i].number.seq = Counted(table, y) + 1 /\ longer[i].number.year = y
      BY <1>1, <2>1 DEF y
    <3>2. Cardinality(OfYear(longer, y, i)) = Counted(table, y) + 1
      BY <1>6, <2>1 DEF Counted, n
    <3>3. QED
      BY <3>1, <3>2
  <2>2. CASE i # n + 1
    <3>1. i \in 1..n
      BY <1>2, <2>2
    <3>2. OfYear(longer, table[i].number.year, i) = OfYear(table, table[i].number.year, i)
      BY <1>3, <3>1
    <3>3. table[i].number.seq = Cardinality(OfYear(table, table[i].number.year, i))
      BY <3>1 DEF Numbered, n
    <3>4. QED
      BY <1>1, <3>1, <3>2, <3>3
  <2>3. QED
    BY <2>1, <2>2
<1>10. NumbersTaken(longer)
  <2> SUFFICES ASSUME NEW z \in Nat, NEW s \in 1..Counted(longer, z)
               PROVE  \E i \in 1..Len(longer) : longer[i].number = [year |-> z, seq |-> s]
    BY DEF NumbersTaken
  <2>1. CASE z = y /\ s = Counted(table, y) + 1
    <3>1. new.number = [year |-> y, seq |-> Counted(table, y) + 1]
      BY DEF y, Invoice, InvoiceNumber
    <3>2. n + 1 \in 1..Len(longer)
      BY <1>1, <1>2
    <3>3. QED
      BY <1>1, <2>1, <3>1, <3>2
  <2>2. CASE ~(z = y /\ s = Counted(table, y) + 1)
    <3>1. s \in 1..Counted(table, z)
      BY <1>8, <2>2
    <3>2. PICK i \in 1..n : table[i].number = [year |-> z, seq |-> s]
      BY <3>1 DEF NumbersTaken, n
    <3>3. longer[i].number = [year |-> z, seq |-> s] /\ i \in 1..Len(longer)
      BY <1>1, <1>2, <3>2
    <3>4. QED
      BY <3>3
  <2>3. QED
    BY <2>1, <2>2
<1>11. HoldsNext(longer, calls)
  <2> SUFFICES ASSUME NEW c \in Creator, calls[c] # NotCreating
               PROVE  calls[c].seq \in 1..(Counted(longer, calls[c].year) + 1)
    BY DEF HoldsNext
  <2>1. calls[c].seq \in 1..(Counted(table, calls[c].year) + 1)
    BY DEF HoldsNext
  <2>2. Counted(longer, calls[c].year) \in {Counted(table, calls[c].year),
                                            Counted(table, calls[c].year) + 1}
    BY <1>8
  <2>3. QED
    BY <1>8, <2>1, <2>2
<1>12. QED
  BY <1>1, <1>9, <1>10, <1>11

\* A call moves, or time passes: the table stays as it is.
LEMMA TableStays ==
  ASSUME InvoiceAssumption, InvoiceInv, InvoiceTypes', invoices' = invoices, lastRun' = lastRun, day' >= day,
         HoldsNext(invoices, creating'), InTime(invoices, paying')
  PROVE  InvoiceInv'
<1>1. NumberInv'
  BY DEF InvoiceInv, NumberInv, HoldsNext
<1>2. ASSUME NEW i \in 1..Len(invoices) PROVE Settled(invoices[i])'
  <2>1. invoices[i] \in Invoice /\ Settled(invoices[i])
    BY DEF InvoiceInv, InvoiceTypes, SettledInv
  <2>2. invoices[i].due \in Int /\ day \in Int /\ day' \in Int
    BY <2>1 DEF Invoice, InvoiceInv, InvoiceTypes
  <2>3. QED
    BY <2>1, <2>2 DEF Settled, InvoiceAssumption
<1>3. SettledInv' /\ RunInv'
  BY <1>2 DEF InvoiceInv, SettledInv, InTime, RunInv
<1>4. QED
  BY <1>1, <1>3 DEF InvoiceInv

LEMMA CreationKeeps ==
  ASSUME InvoiceAssumption, InvoiceInv, NEW c \in Creator,
         BeginInvoice(c) \/ CountInvoices(c) \/ CreationFails(c)
  PROVE  InvoiceInv'
<1>1. /\ invoices' = invoices /\ lastRun' = lastRun /\ day' = day /\ paying' = paying
      /\ overdueAsOf' = overdueAsOf
  BY DEF BeginInvoice, CountInvoices, CreationFails
<1>2. Len(invoices) \in Nat /\ DOMAIN invoices = 1..Len(invoices) /\ day \in Nat
  BY DEF InvoiceInv, InvoiceTypes
<1>3. InTime(invoices, paying')
  BY <1>1 DEF InvoiceInv, SettledInv, InTime
<1>4. InvoiceTypes' /\ HoldsNext(invoices, creating')
  <2>1. CASE BeginInvoice(c) \/ CreationFails(c)
    <3>1. /\ creating' = creating \/ creating' = [creating EXCEPT ![c] = NotCreating]
          /\ issuedOn' = [issuedOn EXCEPT ![c] = day] \/ issuedOn' = [issuedOn EXCEPT ![c] = NotYet]
      BY <2>1 DEF BeginInvoice, CreationFails
    <3>1a. creating' \in [Creator -> InvoiceNumber \cup {NotCreating}]
      BY <3>1 DEF InvoiceInv, InvoiceTypes
    <3>1b. /\ issuedOn' \in [Creator -> Int]
           /\ \A a \in Creator : issuedOn'[a] >= NotYet /\ issuedOn'[a] <= day
      <4>1. PICK v \in Int : issuedOn' = [issuedOn EXCEPT ![c] = v] /\ v >= NotYet /\ v <= day
        <5>1. /\ day \in Int /\ day >= NotYet /\ day <= day
              /\ NotYet \in Int /\ NotYet >= NotYet /\ NotYet <= day
          BY <1>2 DEF NotYet
        <5>2. QED
          BY <3>1, <5>1, Zenon
      <4>2. QED
        BY <4>1 DEF InvoiceInv, InvoiceTypes
    <3>2. InvoiceTypes'
      BY <1>1, <1>2, <3>1a, <3>1b DEF InvoiceInv, InvoiceTypes
    <3>3. HoldsNext(invoices, creating')
      BY <3>1 DEF InvoiceInv, InvoiceTypes, NumberInv, HoldsNext
    <3>4. QED
      BY <3>2, <3>3
  <2>2. CASE CountInvoices(c)
    <3>1. PICK y \in Year(issuedOn[c])..Year(day) :
            creating' = [creating EXCEPT ![c] = [year |-> y, seq |-> CountOf(y) + 1]]
      BY <2>2 DEF CountInvoices
    <3>2. y \in Nat
      <4>1. issuedOn[c] \in Nat
        BY <2>2 DEF CountInvoices, InvoiceInv, InvoiceTypes, NotYet
      <4>2. Year(issuedOn[c]) \in Nat
        BY <4>1 DEF Year, InvoiceAssumption
      <4>3. QED
        BY <4>2
    <3>3. CountOf(y) = Counted(invoices, y) /\ Counted(invoices, y) \in Nat
      BY <1>2, CountIsFinite DEF CountOf, Counted, OfYear
    <3>4. issuedOn' = issuedOn
      BY <2>2 DEF CountInvoices
    <3>5. InvoiceTypes'
      BY <1>1, <3>1, <3>2, <3>3, <3>4 DEF InvoiceInv, InvoiceTypes, InvoiceNumber
    <3>6. HoldsNext(invoices, creating')
      BY <3>1, <3>3 DEF InvoiceInv, InvoiceTypes, NumberInv, HoldsNext
    <3>7. QED
      BY <3>5, <3>6
  <2>3. QED
    BY <2>1, <2>2
<1>5. QED
  BY <1>1, <1>2, <1>3, <1>4, TableStays

LEMMA InsertInvoiceKeeps ==
  ASSUME InvoiceAssumption, InvoiceInv, NEW c \in Creator, InsertInvoice(c)
  PROVE  InvoiceInv'
<1> USE DEF InvoiceInv
<1> DEFINE new == [number |-> creating[c], status |-> "issued", due |-> issuedOn[c] + DaysToPay,
                   mpesa_receipt |-> "none", settledBy |-> "none", paid_at |-> NotYet]
<1>1. /\ creating[c] \in InvoiceNumber /\ creating[c] # NotCreating
      /\ issuedOn[c] \in Int /\ issuedOn[c] <= day
  BY DEF InsertInvoice, InvoiceTypes
<1>2. new \in Invoice
  BY <1>1 DEF Invoice, InvoiceAssumption, NotYet
<1>3. /\ invoices' = Append(invoices, new) /\ creating' = [creating EXCEPT ![c] = NotCreating]
      /\ issuedOn' = [issuedOn EXCEPT ![c] = NotYet]
      /\ UNCHANGED <<paying, overdueAsOf, lastRun, day>>
  BY DEF InsertInvoice
<1>4. new.number = creating[c] /\ new.number.year \in Nat
  BY <1>1 DEF InvoiceNumber
<1>5. PICK issued \in Invoice : issued = new
  BY <1>2
<1>6. /\ issued.number = creating[c] /\ issued.number.year \in Nat
      /\ issued.status = "issued" /\ issued.mpesa_receipt = "none"
      /\ issued.settledBy = "none" /\ issued.due - DaysToPay <= day
  BY <1>1, <1>4, <1>5 DEF InvoiceTypes, InvoiceAssumption
<1>7. invoices' = Append(invoices, issued)
  BY <1>3, <1>5
<1>8. invoices \in Seq(Invoice) /\ Len(invoices) \in Nat /\ DOMAIN invoices = 1..Len(invoices)
  BY DEF InvoiceTypes
<1>9. issued.number.seq = Counted(invoices, issued.number.year) + 1
  <2> DEFINE y == creating[c].year
             s == creating[c].seq
  <2>1. s \in 1..(Counted(invoices, y) + 1) /\ y \in Nat /\ s \in Nat
    BY <1>1 DEF NumberInv, HoldsNext, InvoiceNumber
  <2>2. creating[c] = [year |-> y, seq |-> s]
    BY <1>1 DEF InvoiceNumber
  <2>3. \A i \in 1..Len(invoices) : invoices[i].number # creating[c]
    BY <1>8 DEF InsertInvoice, NumberIsFree
  <2> HIDE DEF y, s
  <2>4. s \notin 1..Counted(invoices, y)
    BY <2>1, <2>2, <2>3 DEF NumberInv, NumbersTaken
  <2>5. Counted(invoices, y) \in Nat
    BY <1>8, CountIsFinite DEF Counted
  <2>6. s = Counted(invoices, y) + 1
    BY <2>1, <2>4, <2>5
  <2>7. QED
    BY <1>6, <2>6 DEF y, s
<1>10. creating \in [Creator -> InvoiceNumber \cup {NotCreating}]
  BY DEF InvoiceTypes
<1>11. /\ Numbered(Append(invoices, issued)) /\ NumbersTaken(Append(invoices, issued))
       /\ HoldsNext(Append(invoices, issued), creating)
  BY <1>8, <1>9, <1>10, NextNumber DEF NumberInv
<1>12. /\ Numbered(invoices') /\ NumbersTaken(invoices') /\ HoldsNext(invoices', creating)
  BY <1>7, <1>11, Zenon
<1>13. HoldsNext(invoices', creating')
  BY <1>3, <1>10, <1>12 DEF HoldsNext
<1>14. NumberInv'
  BY <1>12, <1>13 DEF NumberInv, Numbered, NumbersTaken, HoldsNext, Counted, OfYear
<1>15. /\ Append(invoices, issued) \in Seq(Invoice)
       /\ Len(Append(invoices, issued)) = Len(invoices) + 1
       /\ Append(invoices, issued)[Len(invoices) + 1] = issued
       /\ \A i \in 1..Len(invoices) : Append(invoices, issued)[i] = invoices[i]
  BY <1>8
<1>16. /\ invoices' \in Seq(Invoice) /\ Len(invoices') = Len(invoices) + 1
       /\ invoices'[Len(invoices) + 1] = issued
       /\ \A i \in 1..Len(invoices) : invoices'[i] = invoices[i]
  BY <1>7, <1>15, Zenon
<1>17. Len(invoices') <= MaxInvoices
  BY <1>8, <1>16 DEF InsertInvoice, InvoiceAssumption
<1>18. /\ creating' \in [Creator -> InvoiceNumber \cup {NotCreating}]
       /\ issuedOn' \in [Creator -> Int]
       /\ \A a \in Creator : issuedOn'[a] >= NotYet /\ issuedOn'[a] <= day
  BY <1>3, <1>10 DEF InvoiceTypes, NotYet
<1>19. InvoiceTypes'
  BY <1>3, <1>16, <1>17, <1>18 DEF InvoiceTypes, Invoice, InvoiceNumber
<1>20. SettledInv'
  <2>1. ASSUME NEW i \in 1..(Len(invoices) + 1) PROVE Settled(invoices[i])'
    <3>1. CASE i = Len(invoices) + 1
      BY <1>3, <1>6, <1>16, <3>1 DEF Settled
    <3>2. CASE i # Len(invoices) + 1
      BY <1>3, <1>8, <1>16, <3>2 DEF Settled, SettledInv
    <3>3. QED
      BY <3>1, <3>2
  <2>2. InTime(invoices', paying')
    BY <1>3, <1>8, <1>16 DEF SettledInv, InTime
  <2>3. QED
    BY <1>16, <2>1, <2>2 DEF SettledInv, Settled, InTime
<1>21. RunInv'
  BY <1>3, <1>8, <1>16 DEF RunInv, InvoiceTypes
<1>22. QED
  BY <1>14, <1>19, <1>20, <1>21

LEMMA PaymentMoves ==
  ASSUME InvoiceAssumption, InvoiceInv, NEW r \in Receipt,
         (\E i \in DOMAIN invoices : BeginPayment(r, i)) \/ PaymentFails(r)
  PROVE  InvoiceInv'
<1>1. /\ invoices' = invoices /\ lastRun' = lastRun /\ day' = day
      /\ UNCHANGED <<issuedOn, creating, overdueAsOf>>
  BY DEF BeginPayment, PaymentFails
<1>2. Len(invoices) \in Nat /\ DOMAIN invoices = 1..Len(invoices) /\ day \in Nat
  BY DEF InvoiceInv, InvoiceTypes
<1>3. InvoiceTypes' /\ InTime(invoices, paying')
  <2>1. CASE PaymentFails(r)
    <3>1. paying' = [paying EXCEPT ![r] = NotPaying]
      BY <2>1 DEF PaymentFails
    <3>2. QED
      BY <1>1, <3>1 DEF InvoiceInv, InvoiceTypes, SettledInv, InTime, NotPaying, NotYet
  <2>2. CASE \E i \in DOMAIN invoices : BeginPayment(r, i)
    <3>1. PICK i \in 1..Len(invoices) : paying' = [paying EXCEPT ![r] = [invoice |-> i, at |-> day]]
      BY <1>2, <2>2 DEF BeginPayment
    <3>2. invoices[i].due - DaysToPay <= day
      BY DEF InvoiceInv, SettledInv, Settled
    <3>3. InvoiceTypes'
      BY <1>1, <1>2, <3>1 DEF InvoiceInv, InvoiceTypes
    <3>4. InTime(invoices, paying')
      BY <3>1, <3>2 DEF InvoiceInv, InvoiceTypes, SettledInv, InTime
    <3>5. QED
      BY <3>3, <3>4
  <2>3. QED
    BY <2>1, <2>2
<1>4. HoldsNext(invoices, creating')
  BY <1>1 DEF InvoiceInv, NumberInv, HoldsNext
<1>5. QED
  BY <1>1, <1>2, <1>3, <1>4, TableStays

\* A step that changes the status of invoices in place, and neither their numbers nor
\* when they are due.
LEMMA ChangedInPlace ==
  ASSUME InvoiceInv, UNCHANGED <<issuedOn, creating, day>>,
         paying' \in [Receipt -> [invoice : Nat, at : Int]], overdueAsOf' \in Int,
         lastRun' \in [asOf : Int, seen : Nat],
         \A r \in Receipt : paying'[r] = paying[r] \/ paying'[r] = NotPaying,
         invoices' \in Seq(Invoice), Len(invoices') = Len(invoices),
         \A i \in 1..Len(invoices) : /\ invoices'[i].number = invoices[i].number
                                     /\ invoices'[i].due = invoices[i].due
  PROVE  InvoiceTypes' /\ NumberInv' /\ InTime(invoices, paying)'
<1>1. InvoiceTypes'
  BY DEF InvoiceInv, InvoiceTypes, Invoice, InvoiceNumber
<1>2. invoices \in Seq(Invoice)
  BY DEF InvoiceInv, InvoiceTypes
<1>3. Numbered(invoices') /\ NumbersTaken(invoices') /\ HoldsNext(invoices', creating)
  BY <1>2, SameNumbers DEF InvoiceInv, NumberInv
<1>4. NumberInv'
  BY <1>3 DEF NumberInv, Numbered, NumbersTaken, HoldsNext, Counted, OfYear
<1>5. InTime(invoices, paying)'
  BY <1>2 DEF InvoiceInv, SettledInv, InTime
<1>6. QED
  BY <1>1, <1>4, <1>5

LEMMA MarkPaidKeeps ==
  ASSUME InvoiceAssumption, InvoiceInv, NEW r \in Receipt, MarkInvoicePaid(r)
  PROVE  InvoiceInv'
<1>1. invoices \in Seq(Invoice) /\ Len(invoices) \in Nat /\ DOMAIN invoices = 1..Len(invoices)
  BY DEF InvoiceInv, InvoiceTypes
<1>2. /\ UNCHANGED <<issuedOn, creating, overdueAsOf, lastRun, day>>
      /\ paying' = [paying EXCEPT ![r] = NotPaying]
  BY DEF MarkInvoicePaid
<1>3. PICK i \in 1..Len(invoices), at \in Int :
        /\ i = paying[r].invoice /\ at = paying[r].at
        /\ invoices[i].due - DaysToPay <= at
  BY DEF MarkInvoicePaid, InvoiceInv, InvoiceTypes, SettledInv, InTime
<1>4. PICK old \in Invoice : old = invoices[i] /\ Settled(old)
  BY <1>1 DEF InvoiceInv, SettledInv
<1> DEFINE paid == [old EXCEPT !.status = "paid", !.mpesa_receipt = r, !.paid_at = at,
                               !.settledBy = IF @ = "none" THEN r ELSE @]
           new == IF Unpaid(old) THEN paid ELSE old
<1>5. /\ new \in Invoice /\ Settled(new)
      /\ new.number = old.number /\ new.due = old.due
      /\ new.status = "issued" => old.status = "issued"
  <2>1. CASE Unpaid(old)
    <3>1. paid \in Invoice
      BY DEF Invoice
    <3>2. /\ paid.number = old.number /\ paid.due = old.due /\ paid.status = "paid"
          /\ paid.mpesa_receipt = r /\ paid.paid_at = at
          /\ paid.settledBy = IF old.settledBy = "none" THEN r ELSE old.settledBy
      BY DEF Invoice
    <3>3. old.settledBy = "none" /\ r # "none"
      BY <1>4, <2>1 DEF Unpaid, Settled, InvoiceAssumption
    <3> HIDE DEF paid
    <3>4. QED
      BY <1>3, <1>4, <2>1, <3>1, <3>2, <3>3 DEF Settled
  <2>2. CASE ~Unpaid(old)
    BY <1>4, <2>2
  <2>3. QED
    BY <2>1, <2>2
<1>6. invoices' = [invoices EXCEPT ![i] = new]
  <2>1. invoices' = IF Unpaid(old) THEN [invoices EXCEPT ![i] = paid] ELSE invoices
    BY <1>3, <1>4 DEF MarkInvoicePaid
  <2> HIDE DEF paid
  <2>2. CASE Unpaid(old)
    BY <2>1, <2>2
  <2>3. CASE ~Unpaid(old)
    BY <1>1, <1>4, <2>1, <2>3
  <2>4. QED
    BY <2>2, <2>3
<1> HIDE DEF new
<1>7. /\ invoices' \in Seq(Invoice) /\ Len(invoices') = Len(invoices)
      /\ \A j \in 1..Len(invoices) : invoices'[j] = IF j = i THEN new ELSE invoices[j]
  BY <1>1, <1>5, <1>6, ExceptSeq
<1>8. \A j \in 1..Len(invoices) : /\ invoices'[j].number = invoices[j].number
                                  /\ invoices'[j].due = invoices[j].due
  BY <1>4, <1>5, <1>7
<1>9. InvoiceTypes' /\ NumberInv' /\ InTime(invoices, paying)'
  <2>1. /\ paying' \in [Receipt -> [invoice : Nat, at : Int]]
        /\ overdueAsOf' \in Int /\ lastRun' \in [asOf : Int, seen : Nat]
        /\ \A q \in Receipt : paying'[q] = paying[q] \/ paying'[q] = NotPaying
    BY <1>2 DEF InvoiceInv, InvoiceTypes, NotPaying, NotYet
  <2>2. QED
    BY <1>2, <1>7, <1>8, <2>1, ChangedInPlace
<1>10. SettledInv'
  <2>1. \A j \in 1..Len(invoices) : Settled(invoices'[j])
    BY <1>5, <1>7 DEF InvoiceInv, SettledInv
  <2>2. \A j \in 1..Len(invoices) : Settled(invoices[j])'
    BY <1>2, <2>1 DEF Settled
  <2>3. QED
    BY <1>7, <1>9, <2>2 DEF SettledInv
<1>11. RunInv'
  <2>1. \A j \in 1..Len(invoices) : /\ invoices'[j].due = invoices[j].due
                                    /\ invoices'[j].status = "issued" => invoices[j].status = "issued"
    BY <1>4, <1>5, <1>7
  <2>2. QED
    BY <1>1, <1>2, <1>7, <2>1 DEF InvoiceInv, InvoiceTypes, RunInv
<1>12. QED
  BY <1>9, <1>10, <1>11 DEF InvoiceInv

LEMMA ProcessOverdueKeeps ==
  ASSUME InvoiceAssumption, InvoiceInv, ProcessOverdueInvoices PROVE InvoiceInv'
<1>1. invoices \in Seq(Invoice) /\ Len(invoices) \in Nat /\ DOMAIN invoices = 1..Len(invoices)
  BY DEF InvoiceInv, InvoiceTypes
<1>2. /\ UNCHANGED <<issuedOn, creating, paying, day>> /\ overdueAsOf' = NotYet
      /\ lastRun' = [asOf |-> overdueAsOf, seen |-> Len(invoices)]
  BY DEF ProcessOverdueInvoices
<1> DEFINE Run(i) == IF Overdue(invoices[i]) THEN [invoices[i] EXCEPT !.status = "overdue"]
                     ELSE invoices[i]
<1>3. invoices' = [i \in 1..Len(invoices) |-> Run(i)]
  BY <1>1 DEF ProcessOverdueInvoices
<1>4. ASSUME NEW i \in 1..Len(invoices)
      PROVE  /\ Run(i) \in Invoice /\ Settled(Run(i))
             /\ Run(i).number = invoices[i].number /\ Run(i).due = invoices[i].due
             /\ Run(i).status = "issued" => Run(i).due >= overdueAsOf
  <2>1. PICK old \in Invoice : old = invoices[i] /\ Settled(old)
    BY <1>1 DEF InvoiceInv, SettledInv
  <2>2. old.due \in Int /\ overdueAsOf \in Int
    BY DEF Invoice, InvoiceInv, InvoiceTypes
  <2>3. CASE Overdue(old)
    <3>1. PICK late : late = [old EXCEPT !.status = "overdue"]
      OBVIOUS
    <3>2. /\ late \in Invoice /\ late.status = "overdue" /\ late.number = old.number
          /\ late.due = old.due /\ late.mpesa_receipt = old.mpesa_receipt
          /\ late.settledBy = old.settledBy
      BY <3>1 DEF Invoice
    <3>3. Settled(late)
      BY <2>1, <2>3, <3>2 DEF Settled, Overdue
    <3>4. Run(i) = late
      BY <2>1, <2>3, <3>1
    <3>5. QED
      BY <2>1, <3>2, <3>3, <3>4
  <2>4. CASE ~Overdue(old)
    BY <2>1, <2>2, <2>4 DEF Overdue
  <2>5. QED
    BY <2>3, <2>4
<1> HIDE DEF Run
<1>5. /\ invoices' \in Seq(Invoice) /\ Len(invoices') = Len(invoices)
      /\ \A i \in 1..Len(invoices) : invoices'[i] = Run(i)
  BY <1>1, <1>3, <1>4
<1>6. InvoiceTypes' /\ NumberInv' /\ InTime(invoices, paying)'
  <2>1. /\ paying' = paying /\ paying \in [Receipt -> [invoice : Nat, at : Int]]
        /\ overdueAsOf' \in Int /\ lastRun' \in [asOf : Int, seen : Nat]
    BY <1>1, <1>2 DEF InvoiceInv, InvoiceTypes, NotYet
  <2>2. \A i \in 1..Len(invoices) : /\ invoices'[i].number = invoices[i].number
                                    /\ invoices'[i].due = invoices[i].due
    BY <1>4, <1>5
  <2>3. QED
    BY <1>2, <1>5, <2>1, <2>2, ChangedInPlace
<1>7. SettledInv'
  <2>1. \A i \in 1..Len(invoices) : Settled(invoices'[i])
    BY <1>4, <1>5
  <2>2. \A i \in 1..Len(invoices) : Settled(invoices[i])'
    BY <1>2, <2>1 DEF Settled
  <2>3. QED
    BY <1>5, <1>6, <2>2 DEF SettledInv
<1>8. RunInv'
  BY <1>1, <1>2, <1>4, <1>5 DEF RunInv
<1>9. QED
  BY <1>6, <1>7, <1>8 DEF InvoiceInv

\* billing/invoice.rs: for any number of overlapping calls, any year and any time
\* to pay, and however long a call waits after it read the clock, the numbers of a
\* year have no gap and follow the order of the INSERTs, the first payment of an
\* invoice stays, and what an overdue run saw is not issued past its due date.
THEOREM InvoicesSoundAlways ==
  ASSUME InvoiceAssumption PROVE InvoiceSpec => []InvoicesSound
<1>1. InvoiceInit => InvoiceInv
  <2> SUFFICES ASSUME InvoiceInit PROVE InvoiceInv
    OBVIOUS
  <2>1. InvoiceTypes /\ Numbered(invoices)
    BY DEF InvoiceInit, InvoiceTypes, Numbered, InvoiceAssumption, NotYet, NotPaying
  <2>2. SettledInv /\ RunInv
    BY DEF InvoiceInit, SettledInv, InTime, RunInv
  <2>3. \A y : OfYear(invoices, y, Len(invoices)) = {}
    BY DEF InvoiceInit, OfYear
  <2>4. \A y : Counted(invoices, y) = 0
    BY <2>3, FS_EmptySet DEF Counted
  <2>5. NumbersTaken(invoices) /\ HoldsNext(invoices, creating)
    BY <2>4 DEF NumbersTaken, HoldsNext, InvoiceInit
  <2>6. QED
    BY <2>1, <2>2, <2>5 DEF InvoiceInv, NumberInv
<1>2. InvoiceInv /\ [InvoiceNext]_invoiceVars => InvoiceInv'
  <2> SUFFICES ASSUME InvoiceInv, [InvoiceNext]_invoiceVars PROVE InvoiceInv'
    OBVIOUS
  <2>1. ASSUME UNCHANGED <<invoices, issuedOn, creating, paying, lastRun>>,
               overdueAsOf' \in Int, day' \in Nat, day' >= day
        PROVE  InvoiceInv'
    <3>1. InvoiceTypes' /\ HoldsNext(invoices, creating') /\ InTime(invoices, paying')
      BY <2>1 DEF InvoiceInv, InvoiceTypes, NumberInv, SettledInv, HoldsNext, InTime
    <3>2. QED
      BY <2>1, <3>1, TableStays
  <2>2. day \in Nat /\ overdueAsOf \in Int
    BY DEF InvoiceInv, InvoiceTypes
  <2>3. CASE UNCHANGED invoiceVars
    BY <2>1, <2>2, <2>3 DEF invoiceVars
  <2>4. CASE BeginOverdueRun \/ OverdueRunFails \/ PassDay
    BY <2>1, <2>2, <2>4 DEF BeginOverdueRun, OverdueRunFails, PassDay, NotYet
  <2>5. ASSUME NEW c \in Creator,
               BeginInvoice(c) \/ CountInvoices(c) \/ InsertInvoice(c) \/ CreationFails(c)
        PROVE  InvoiceInv'
    BY <2>5, CreationKeeps, InsertInvoiceKeeps
  <2>6. ASSUME NEW r \in Receipt, \E i \in DOMAIN invoices : BeginPayment(r, i) PROVE InvoiceInv'
    BY <2>6, PaymentMoves
  <2>7. ASSUME NEW r \in Receipt, MarkInvoicePaid(r) \/ PaymentFails(r) PROVE InvoiceInv'
    BY <2>7, MarkPaidKeeps, PaymentMoves
  <2>8. CASE ProcessOverdueInvoices
    BY <2>8, ProcessOverdueKeeps
  <2>9. QED
    BY <2>3, <2>4, <2>5, <2>6, <2>7, <2>8 DEF InvoiceNext
<1>3. InvoiceInv => InvoicesSound
  <2> SUFFICES ASSUME InvoiceInv PROVE InvoicesSound
    OBVIOUS
  <2>1. DOMAIN invoices = 1..Len(invoices)
    BY DEF InvoiceInv, InvoiceTypes
  <2>2. NumberedWithoutGap
    BY <2>1 DEF InvoiceInv, NumberInv, Numbered, OfYear, NumberedWithoutGap
  <2>3. FirstPaymentStays
    BY <2>1 DEF InvoiceInv, SettledInv, Settled, FirstPaymentStays
  <2>4. OverdueInTime
    BY DEF InvoiceInv, RunInv, OverdueInTime
  <2>5. QED
    BY <2>2, <2>3, <2>4 DEF InvoicesSound
<1>4. QED
  BY <1>1, <1>2, <1>3, PTL DEF InvoiceSpec

(***************************************************************************)
(* Device uploads: what remembering a batch does to the keys. They are     *)
(* pushed one by one; after k of the batch the keys are the old ones, then *)
(* what was new among these k, each once and in the order of the batch.    *)
(***************************************************************************)

\* A set of naturals that is not empty has a least element.
LEMMA LeastPlace == ASSUME NEW T \in SUBSET Nat, T # {} PROVE \E n \in T : \A m \in T : n <= m
<1>1. \E n \in T : \A m \in T : ~(<<m, n>> \in OpToRel(<, Nat))
  BY NatLessThanWellFounded, WFMin, Zenon
<1>2. \A m, n \in Nat : m < n => <<m, n>> \in OpToRel(<, Nat)
  BY DEF OpToRel
<1>3. \E n \in T : \A m \in T : ~(m < n)
  BY <1>1, <1>2, Zenon
<1> QED BY <1>3

IsFirst(batch, i) == \A g \in 1..(i - 1) : batch[g] # batch[i]

Remembered(old, batch, k, keys) ==
  /\ keys \in Seq(Keyed) /\ \A i, j \in 1..Len(keys) : keys[i] = keys[j] => i = j
  /\ Len(old) <= Len(keys) /\ \A i \in 1..Len(old) : keys[i] = old[i]
  /\ \A j \in (Len(old) + 1)..Len(keys) : \E i \in 1..k : batch[i] = keys[j]
  /\ \A i \in 1..k : batch[i] \in Keyed => \E j \in 1..Len(keys) : keys[j] = batch[i]
  /\ \A p \in (Len(old) + 1)..Len(keys), i \in 1..k :
       IsFirst(batch, i) /\ batch[i] = keys[p]
       => \A j \in (p + 1)..Len(keys) : \E h \in (i + 1)..k : batch[h] = keys[j]

LEMMA PushedOne ==
  ASSUME NEW old \in Seq(Keyed), NEW batch \in Seq(Txs), NEW k \in 1..Len(batch),
         NEW keys, Remembered(old, batch, k - 1, keys)
  PROVE  Remembered(old, batch, k, Pushed(keys, batch[k]))
<1> DEFINE m == Len(keys)
<1>1. /\ keys \in Seq(Keyed) /\ m \in Nat /\ Len(old) \in Nat /\ Len(old) <= m
      /\ k \in Nat /\ k - 1 \in Nat /\ DOMAIN keys = 1..m
  BY DEF Remembered
<1>2. \A i \in 1..k : i \in 1..(k - 1) \/ i = k
  BY <1>1
<1>3. CASE batch[k] \in Keyed /\ batch[k] \notin ToSet(keys)
  <2>1. PICK longer \in Seq(Keyed) :
          /\ longer = Append(keys, batch[k]) /\ Len(longer) = m + 1 /\ longer[m + 1] = batch[k]
          /\ \A j \in 1..m : longer[j] = keys[j]
    <3>1. PICK e \in Keyed : e = batch[k]
      BY <1>3
    <3>2. /\ Append(keys, e) \in Seq(Keyed) /\ Len(Append(keys, e)) = m + 1
          /\ Append(keys, e)[m + 1] = e
          /\ \A j \in 1..m : Append(keys, e)[j] = keys[j]
      BY <1>1
    <3> QED BY <3>1, <3>2, Zenon
  <2>2. Pushed(keys, batch[k]) = longer
    BY <1>3, <2>1 DEF Pushed
  <2>3. \A j \in 1..m : keys[j] # batch[k]
    BY <1>1, <1>3 DEF ToSet
  <2>4. \A j \in 1..(m + 1) : j \in 1..m \/ j = m + 1
    BY <1>1
  <2> HIDE DEF m
  <2>5. \A i, j \in 1..Len(longer) : longer[i] = longer[j] => i = j
    BY <2>1, <2>3, <2>4 DEF Remembered, m
  <2>6. Len(old) <= Len(longer) /\ \A i \in 1..Len(old) : longer[i] = old[i]
    BY <1>1, <2>1 DEF Remembered, m
  <2>7. ASSUME NEW j \in (Len(old) + 1)..Len(longer) PROVE \E i \in 1..k : batch[i] = longer[j]
    <3>1. CASE j = m + 1
      BY <1>1, <2>1, <3>1
    <3>2. CASE j # m + 1
      <4>1. j \in (Len(old) + 1)..m /\ j \in 1..m
        BY <1>1, <2>1, <3>2
      <4>2. PICK i \in 1..(k - 1) : batch[i] = keys[j]
        BY <4>1 DEF Remembered, m
      <4>3. i \in 1..k
        BY <1>1
      <4> QED BY <2>1, <4>1, <4>2, <4>3
    <3> QED BY <3>1, <3>2
  <2>8. ASSUME NEW i \in 1..k, batch[i] \in Keyed
        PROVE  \E j \in 1..Len(longer) : longer[j] = batch[i]
    <3>1. CASE i = k
      <4>1. m + 1 \in 1..Len(longer)
        BY <1>1, <2>1
      <4> QED BY <2>1, <3>1, <4>1
    <3>2. CASE i # k
      <4>1. i \in 1..(k - 1)
        BY <1>2, <3>2
      <4>2. PICK j \in 1..m : keys[j] = batch[i]
        BY <2>8, <4>1 DEF Remembered, m
      <4>3. j \in 1..Len(longer)
        BY <1>1, <2>1
      <4> QED BY <2>1, <4>2, <4>3
    <3> QED BY <3>1, <3>2
  <2>9. ASSUME NEW p \in (Len(old) + 1)..Len(longer), NEW i \in 1..k, IsFirst(batch, i),
               batch[i] = longer[p], NEW j \in (p + 1)..Len(longer)
        PROVE  \E h \in (i + 1)..k : batch[h] = longer[j]
    <3>1. p \in (Len(old) + 1)..m /\ p \in 1..m
      BY <1>1, <2>1
    <3>2. PICK g \in 1..(k - 1) : batch[g] = keys[p]
      BY <3>1 DEF Remembered, m
    <3>3. batch[i] = keys[p]
      BY <2>1, <2>9, <3>1
    <3>4. i \in 1..(k - 1)
      BY <1>1, <1>2, <2>9, <3>2, <3>3 DEF IsFirst
    <3>5. CASE j = m + 1
      <4>1. k \in (i + 1)..k
        BY <1>1, <3>4
      <4> QED BY <2>1, <3>5, <4>1
    <3>6. CASE j # m + 1
      <4>1. j \in (p + 1)..m /\ j \in 1..m
        BY <1>1, <2>1, <3>1, <3>6
      <4>2. PICK h \in (i + 1)..(k - 1) : batch[h] = keys[j]
        BY <2>9, <3>1, <3>3, <3>4, <4>1 DEF Remembered, m
      <4>3. h \in (i + 1)..k
        BY <1>1, <3>4
      <4> QED BY <2>1, <4>1, <4>2, <4>3
    <3> QED BY <3>5, <3>6
  <2>10. \A p \in (Len(old) + 1)..Len(longer), i \in 1..k :
           IsFirst(batch, i) /\ batch[i] = longer[p]
           => \A j \in (p + 1)..Len(longer) : \E h \in (i + 1)..k : batch[h] = longer[j]
    BY <2>9
  <2>11. /\ \A j \in (Len(old) + 1)..Len(longer) : \E i \in 1..k : batch[i] = longer[j]
         /\ \A i \in 1..k : batch[i] \in Keyed => \E j \in 1..Len(longer) : longer[j] = batch[i]
    BY <2>7, <2>8
  <2>12. longer \in Seq(Keyed)
    BY <2>1
  <2>13. Remembered(old, batch, k, longer)
    BY <2>5, <2>6, <2>10, <2>11, <2>12 DEF Remembered
  <2> QED BY <2>2, <2>13
<1>4. CASE ~(batch[k] \in Keyed /\ batch[k] \notin ToSet(keys))
  <2>1. Pushed(keys, batch[k]) = keys
    BY <1>4 DEF Pushed
  <2>2. batch[k] \in Keyed => \E j \in 1..m : keys[j] = batch[k]
    BY <1>1, <1>4 DEF ToSet
  <2>3. \A j \in (Len(old) + 1)..Len(keys) : \E i \in 1..k : batch[i] = keys[j]
    <3>1. \A i \in 1..(k - 1) : i \in 1..k
      BY <1>1
    <3> QED BY <3>1 DEF Remembered
  <2>4. \A i \in 1..k : batch[i] \in Keyed => \E j \in 1..Len(keys) : keys[j] = batch[i]
    BY <1>2, <2>2 DEF Remembered
  <2>5. ASSUME NEW p \in (Len(old) + 1)..Len(keys), NEW i \in 1..k, IsFirst(batch, i),
               batch[i] = keys[p], NEW j \in (p + 1)..Len(keys)
        PROVE  \E h \in (i + 1)..k : batch[h] = keys[j]
    <3>1. PICK g \in 1..(k - 1) : batch[g] = keys[p]
      BY DEF Remembered
    <3>2. i \in 1..(k - 1)
      BY <1>1, <1>2, <2>5, <3>1 DEF IsFirst
    <3>3. PICK h \in (i + 1)..(k - 1) : batch[h] = keys[j]
      BY <2>5, <3>2 DEF Remembered
    <3>4. h \in (i + 1)..k
      BY <1>1, <3>2
    <3> QED BY <3>3, <3>4
  <2> QED BY <2>1, <2>3, <2>4, <2>5 DEF Remembered
<1> QED BY <1>3, <1>4

\* The keys after each of the first n of a batch.
Pushes(n, old, batch, f) == f = [i \in 0..n |-> IF i = 0 THEN old ELSE Pushed(f[i - 1], batch[i])]

LEMMA PushesExist == ASSUME NEW old, NEW batch, NEW n \in Nat PROVE \E f : Pushes(n, old, batch, f)
<1> DEFINE T == {k \in Nat : ~ \E f : Pushes(k, old, batch, f)}
<1>1. T = {}
  <2> SUFFICES ASSUME T # {} PROVE FALSE
    OBVIOUS
  <2>1. PICK k \in T : \A m \in T : k <= m
    <3>1. T \in SUBSET Nat
      OBVIOUS
    <3> HIDE DEF T
    <3> QED BY <3>1, LeastPlace
  <2>2. CASE k = 0
    <3>1. Pushes(0, old, batch, [i \in 0..0 |-> old])
      BY DEF Pushes
    <3> QED BY <2>2, <3>1
  <2>3. CASE k # 0
    <3>1. k \in Nat /\ k - 1 \in Nat /\ ~(k <= k - 1)
      BY <2>3
    <3>2. k - 1 \notin T
      <4> HIDE DEF T
      <4> QED BY <2>1, <3>1
    <3>3. PICK f : Pushes(k - 1, old, batch, f)
      BY <3>1, <3>2
    <3>4. \A i \in 0..(k - 1) : f[i] = IF i = 0 THEN old ELSE Pushed(f[i - 1], batch[i])
      BY <3>3 DEF Pushes
    <3> DEFINE g == [i \in 0..k |-> IF i = k THEN Pushed(f[k - 1], batch[k]) ELSE f[i]]
    <3>5. /\ \A i \in 0..(k - 1) : g[i] = f[i]
          /\ g[k] = Pushed(f[k - 1], batch[k])
          /\ DOMAIN g = 0..k
      BY <3>1
    <3>6. g = [i \in 0..k |-> g[i]]
      OBVIOUS
    <3> HIDE DEF g
    <3>7. \A i \in 0..k : g[i] = IF i = 0 THEN old ELSE Pushed(g[i - 1], batch[i])
      <4> SUFFICES ASSUME NEW i \in 0..k
                   PROVE  g[i] = IF i = 0 THEN old ELSE Pushed(g[i - 1], batch[i])
        OBVIOUS
      <4>1. CASE i = k
        <5>1. k - 1 \in 0..(k - 1)
          BY <3>1
        <5> QED BY <2>3, <3>5, <4>1, <5>1
      <4>2. CASE i # k
        <5>1. i \in 0..(k - 1) /\ (i # 0 => i - 1 \in 0..(k - 1))
          BY <3>1, <4>2
        <5> QED BY <3>4, <3>5, <5>1
      <4> QED BY <4>1, <4>2
    <3>8. Pushes(k, old, batch, g)
      BY <3>6, <3>7 DEF Pushes
    <3> QED BY <3>8
  <2> QED BY <2>2, <2>3
<1> QED BY <1>1

LEMMA RememberedAll ==
  ASSUME NEW old \in Seq(Keyed), NEW batch \in Seq(Txs),
         \A i, j \in 1..Len(old) : old[i] = old[j] => i = j,
         NEW f, Pushes(Len(batch), old, batch, f)
  PROVE  Remembered(old, batch, Len(batch), f[Len(batch)])
<1> DEFINE n == Len(batch)
           T == {k \in 0..n : ~Remembered(old, batch, k, f[k])}
<1>0. n \in Nat
  OBVIOUS
<1>1. f[0] = old /\ \A i \in 1..n : f[i] = Pushed(f[i - 1], batch[i])
  <2>1. \A i \in 0..n : f[i] = IF i = 0 THEN old ELSE Pushed(f[i - 1], batch[i])
    BY DEF Pushes
  <2> QED BY <1>0, <2>1
<1>2. Remembered(old, batch, 0, old)
  BY DEF Remembered
<1>3. T = {}
  <2> SUFFICES ASSUME T # {} PROVE FALSE
    OBVIOUS
  <2>1. PICK k \in T : \A m \in T : k <= m
    <3>1. T \in SUBSET Nat
      OBVIOUS
    <3> HIDE DEF T
    <3> QED BY <3>1, LeastPlace
  <2>2. k # 0
    BY <1>1, <1>2
  <2>3. k - 1 \in 0..n /\ k \in 1..n /\ ~(k <= k - 1)
    BY <2>2
  <2>4. Remembered(old, batch, k - 1, f[k - 1])
    <3>1. k - 1 \notin T
      <4> HIDE DEF T
      <4> QED BY <2>1, <2>3
    <3> QED BY <2>3, <3>1
  <2>5. Remembered(old, batch, k, Pushed(f[k - 1], batch[k]))
    BY <2>3, <2>4, PushedOne
  <2>6. f[k] = Pushed(f[k - 1], batch[k])
    BY <1>1, <2>3
  <2> QED BY <2>5, <2>6
<1>4. n \in 0..n
  BY <1>0
<1> QED BY <1>3, <1>4

LEMMA RememberIsRemembered ==
  ASSUME known \in Seq(Keyed), \A i, j \in 1..Len(known) : known[i] = known[j] => i = j,
         NEW batch \in Seq(Txs)
  PROVE  Remembered(known, batch, Len(batch), Remember(batch))
<1> DEFINE n == Len(batch)
           keys[i \in 0..n] == IF i = 0 THEN known ELSE Pushed(keys[i - 1], batch[i])
<1>1. \E f : f = [i \in 0..n |-> IF i = 0 THEN known ELSE Pushed(f[i - 1], batch[i])]
  <2>1. n \in Nat
    OBVIOUS
  <2>2. PICK f : Pushes(n, known, batch, f)
    BY <2>1, PushesExist
  <2> QED BY <2>2, Zenon DEF Pushes
<1>2. keys = [i \in 0..n |-> IF i = 0 THEN known ELSE Pushed(keys[i - 1], batch[i])]
  BY <1>1
<1>3. Remember(batch) = keys[n]
  BY DEF Remember
<1> HIDE DEF keys
<1>4. Pushes(n, known, batch, keys)
  BY <1>2 DEF Pushes
<1>5. Remembered(known, batch, n, keys[n])
  BY <1>4, RememberedAll
<1> QED BY <1>3, <1>5

(***************************************************************************)
(* Device uploads: the invariant. Behind a transaction that was accepted   *)
(* and is still remembered there are only keys sent since; once it is      *)
(* forgotten, a window of them has been sent.                              *)
(***************************************************************************)
SyncTypes ==
  /\ known \in Seq(Keyed) /\ Len(known) <= DedupWindow
  /\ \A i, j \in 1..Len(known) : known[i] = known[j] => i = j
  /\ counted \subseteq Txs /\ fresh \subseteq counted
  /\ since \in [Txs -> SUBSET Keyed] /\ \A t \in Txs : IsFiniteSet(since[t])

Holds(keys, t) == \E i \in 1..Len(keys) : keys[i] = t
\* All keys behind t are in `sent`.
BehindIn(keys, t, sent) ==
  \A p \in 1..Len(keys) : keys[p] = t => \A j \in (p + 1)..Len(keys) : keys[j] \in sent

Sheltered ==
  \A t \in Keyed \cap counted :
    /\ BehindIn(known, t, since[t])
    /\ ~Holds(known, t) => Cardinality(since[t]) >= DedupWindow

SyncInv == SyncTypes /\ Sheltered

\* The window: the last keys, all if there are no more.
LEMMA KeepLastIsEnd ==
  ASSUME NEW keys \in Seq(Keyed)
  PROVE  /\ KeepLast(keys) \in Seq(Keyed)
         /\ Len(KeepLast(keys)) = IF Len(keys) > DedupWindow THEN DedupWindow ELSE Len(keys)
         /\ \A i \in 1..Len(KeepLast(keys)) :
              KeepLast(keys)[i] = keys[Len(keys) - Len(KeepLast(keys)) + i]
<1> DEFINE n == Len(keys)
           from == IF n > DedupWindow THEN n - DedupWindow + 1 ELSE 1
           kept == IF n > DedupWindow THEN DedupWindow ELSE n
<1>1. n \in Nat /\ DedupWindow \in Nat \ {0}
  BY SyncAssumption
<1>2. /\ from \in 1..(n + 1) /\ n - from + 1 = kept /\ kept \in 0..n
      /\ from - 1 = n - kept /\ (IF from <= n THEN n - from + 1 ELSE 0) = kept
  <2>1. CASE n > DedupWindow
    <3>1. from = n - DedupWindow + 1 /\ kept = DedupWindow
      BY <2>1
    <3> HIDE DEF n, from, kept
    <3> QED BY <1>1, <2>1, <3>1
  <2>2. CASE ~(n > DedupWindow)
    <3>1. from = 1 /\ kept = n
      BY <2>2
    <3> HIDE DEF n, from, kept
    <3> QED BY <1>1, <2>2, <3>1
  <2> QED BY <2>1, <2>2
<1>3. KeepLast(keys) = SubSeq(keys, from, n)
  BY DEF KeepLast
<1> HIDE DEF from, kept
<1>4. \A i \in from..n : keys[i] \in Keyed
  BY <1>1, <1>2
<1>5. /\ SubSeq(keys, from, n) \in Seq(Keyed)
      /\ Len(SubSeq(keys, from, n)) = IF from <= n THEN n - from + 1 ELSE 0
      /\ \A i \in 1..(n - from + 1) : SubSeq(keys, from, n)[i] = keys[from + i - 1]
  BY <1>1, <1>2, <1>4, SubSeqProperties
<1>6. \A i \in Int : from + i - 1 = n - kept + i
  BY <1>1, <1>2
<1>7. Len(KeepLast(keys)) = kept /\ KeepLast(keys) \in Seq(Keyed)
  BY <1>2, <1>3, <1>5
<1>8. \A i \in 1..kept : KeepLast(keys)[i] = keys[n - kept + i]
  BY <1>2, <1>3, <1>5, <1>6
<1> QED BY <1>7, <1>8 DEF kept

LEMMA ToSetIsFinite == ASSUME NEW S, NEW s \in Seq(S) PROVE IsFiniteSet(ToSet(s)) /\ ToSet(s) \subseteq S
<1>1. Len(s) \in Nat /\ s \in [1..Len(s) -> S] /\ DOMAIN s = 1..Len(s)
  BY LenProperties
<1>2. ToSet(s) \subseteq S /\ s \in [1..Len(s) -> ToSet(s)]
  BY <1>1 DEF ToSet
<1>3. s \in Surjection(1..Len(s), ToSet(s))
  BY <1>1, <1>2 DEF Surjection, ToSet
<1>4. IsFiniteSet(1..Len(s))
  BY <1>1, FS_Interval
<1> QED BY <1>2, <1>3, <1>4, FS_Surjection

\* The first of a batch that is t.
LEMMA BehindFirst ==
  ASSUME NEW batch \in Seq(Txs), NEW t \in ToSet(batch)
  PROVE  \E f \in 1..Len(batch) :
           /\ IsFirst(batch, f) /\ batch[f] = t
           /\ Behind(batch, t) = {batch[i] : i \in (f + 1)..Len(batch)} \cap (Keyed \ {t})
<1>1. DOMAIN batch = 1..Len(batch) /\ Len(batch) \in Nat
  OBVIOUS
<1> DEFINE T == {i \in 1..Len(batch) : batch[i] = t}
           IsIt(i) == i \in DOMAIN batch /\ batch[i] = t /\ \A j \in 1..(i - 1) : batch[j] # t
<1>2. PICK m \in T : \A i \in T : m <= i
  <2>1. T \in SUBSET Nat /\ T # {}
    BY <1>1 DEF ToSet
  <2> HIDE DEF T
  <2> QED BY <2>1, LeastPlace
<1>3. IsIt(m)
  BY <1>1, <1>2
<1> DEFINE f == CHOOSE i \in DOMAIN batch : batch[i] = t /\ \A j \in 1..(i - 1) : batch[j] # t
<1>4. f \in 1..Len(batch) /\ batch[f] = t /\ \A j \in 1..(f - 1) : batch[j] # t
  BY <1>1, <1>3
<1>5. Behind(batch, t) = {batch[i] : i \in (f + 1)..Len(batch)} \cap (Keyed \ {t})
  BY DEF Behind
<1> HIDE DEF f
<1> QED BY <1>4, <1>5 DEF IsFirst

\* All keys behind t, before the window is cut, have been sent since.
LEMMA BehindWasSent ==
  ASSUME SyncInv, NEW batch \in Seq(Txs), ProcessSync(batch), NEW t \in Keyed \cap counted'
  PROVE  /\ BehindIn(Remember(batch), t, since'[t])
         /\ ~Holds(Remember(batch), t) => Cardinality(since'[t]) >= DedupWindow
         /\ IsFiniteSet(since'[t])
<1> DEFINE n == Len(batch)
           r == Remember(batch)
<1>1. known \in Seq(Keyed) /\ \A i, j \in 1..Len(known) : known[i] = known[j] => i = j
  BY DEF SyncInv, SyncTypes
<1>2. Remembered(known, batch, n, r)
  BY <1>1, RememberIsRemembered
<1> HIDE DEF r
<1>3. t \in Txs /\ n \in Nat /\ Len(known) \in Nat /\ DOMAIN batch = 1..n /\ DOMAIN known = 1..Len(known)
  BY <1>1, SyncAssumption
<1>4. r \in Seq(Keyed) /\ Len(r) \in Nat /\ \A i \in 1..Len(r) : r[i] \in Keyed
  BY <1>2 DEF Remembered
<1>5. IsFiniteSet(ToSet(batch))
  BY ToSetIsFinite
<1>6. CASE t \in Accepted(batch)
  <2>1. since'[t] = Behind(batch, t)
    BY <1>3, <1>6 DEF ProcessSync
  <2>2. t \in ToSet(batch) /\ ~IsDuplicate(t)
    BY <1>6 DEF Accepted, Judge
  <2>3. ~Holds(known, t)
    BY <1>3, <2>2 DEF IsDuplicate, ToSet, Holds
  <2>4. PICK f \in 1..n :
          /\ IsFirst(batch, f) /\ batch[f] = t
          /\ Behind(batch, t) = {batch[i] : i \in (f + 1)..n} \cap (Keyed \ {t})
    BY <2>2, BehindFirst
  <2>5. Holds(r, t)
    BY <1>2, <2>4 DEF Remembered, Holds
  <2>6. BehindIn(r, t, since'[t])
    <3> SUFFICES ASSUME NEW p \in 1..Len(r), r[p] = t, NEW j \in (p + 1)..Len(r)
                 PROVE  r[j] \in since'[t]
      BY DEF BehindIn
    <3>1. p \in (Len(known) + 1)..Len(r)
      BY <1>2, <1>3, <1>4, <2>3 DEF Remembered, Holds
    <3>2. PICK h \in (f + 1)..n : batch[h] = r[j]
      <4>1. \A q \in (Len(known) + 1)..Len(r), g \in 1..n :
              IsFirst(batch, g) /\ batch[g] = r[q] =>
                \A k \in (q + 1)..Len(r) : \E h \in (g + 1)..n : batch[h] = r[k]
        BY <1>2 DEF Remembered
      <4> QED BY <2>4, <3>1, <4>1
    <3>3. j \in 1..Len(r) /\ j # p
      BY <1>4
    <3>4. r[j] \in Keyed /\ r[j] # t
      BY <1>2, <1>4, <3>3 DEF Remembered
    <3> QED BY <2>1, <2>4, <3>2, <3>4
  <2>7. IsFiniteSet(since'[t])
    <3>1. since'[t] \subseteq ToSet(batch)
      BY <1>3, <2>1, <2>4 DEF ToSet
    <3> QED BY <1>5, <3>1, FS_Subset
  <2> QED BY <2>5, <2>6, <2>7 DEF r
<1>7. CASE t \notin Accepted(batch)
  <2>1. t \in counted
    BY <1>7 DEF ProcessSync
  <2>2. since'[t] = since[t] \cup (ToSet(batch) \cap (Keyed \ {t}))
    BY <1>3, <1>7, <2>1 DEF ProcessSync
  <2>3. /\ BehindIn(known, t, since[t]) /\ IsFiniteSet(since[t])
        /\ ~Holds(known, t) => Cardinality(since[t]) >= DedupWindow
    BY <1>3, <2>1 DEF SyncInv, Sheltered, SyncTypes
  <2>4. IsFiniteSet(since'[t])
    <3>1. IsFiniteSet(ToSet(batch) \cap (Keyed \ {t}))
      BY <1>5, FS_Subset
    <3> QED BY <2>2, <2>3, <3>1, FS_Union
  <2>5. BehindIn(r, t, since'[t])
    <3> SUFFICES ASSUME NEW p \in 1..Len(r), r[p] = t, NEW j \in (p + 1)..Len(r)
                 PROVE  r[j] \in since'[t]
      BY DEF BehindIn
    <3>1. j \in 1..Len(r) /\ j # p
      BY <1>4
    <3>2. r[j] \in Keyed /\ r[j] # t
      BY <1>2, <1>4, <3>1 DEF Remembered
    <3>3. CASE j <= Len(known)
      <4>1. p \in 1..Len(known) /\ j \in (p + 1)..Len(known) /\ j \in 1..Len(known)
        BY <1>3, <1>4, <3>1, <3>3
      <4>2. known[p] = t /\ known[j] = r[j]
        BY <1>2, <4>1 DEF Remembered
      <4> QED BY <2>2, <2>3, <4>1, <4>2 DEF BehindIn
    <3>4. CASE j > Len(known)
      <4>1. j \in (Len(known) + 1)..Len(r)
        BY <1>3, <1>4, <3>1, <3>4
      <4>2. PICK i \in 1..n : batch[i] = r[j]
        BY <1>2, <4>1 DEF Remembered
      <4>3. r[j] \in ToSet(batch)
        BY <1>3, <4>2 DEF ToSet
      <4> QED BY <2>2, <3>2, <4>3
    <3> QED BY <1>3, <1>4, <3>1, <3>3, <3>4
  <2>6. ~Holds(r, t) => ~Holds(known, t)
    BY <1>2, <1>3, <1>4 DEF Remembered, Holds
  <2>7. Cardinality(since[t]) <= Cardinality(since'[t])
    BY <2>2, <2>4, FS_Subset
  <2>8. Cardinality(since[t]) \in Nat /\ Cardinality(since'[t]) \in Nat /\ DedupWindow \in Nat
    BY <2>3, <2>4, FS_CardinalityType, SyncAssumption
  <2>9. ~Holds(r, t) => Cardinality(since'[t]) >= DedupWindow
    BY <2>3, <2>6, <2>7, <2>8
  <2> QED BY <2>4, <2>5, <2>9 DEF r
<1> QED BY <1>6, <1>7

LEMMA SyncKeeps ==
  ASSUME SyncInv, NEW batch \in Seq(Txs), ProcessSync(batch) PROVE SyncInv'
<1>1. known \in Seq(Keyed) /\ \A i, j \in 1..Len(known) : known[i] = known[j] => i = j
  BY DEF SyncInv, SyncTypes
<1>2. PICK r : r = Remember(batch)
  OBVIOUS
<1>3. Remembered(known, batch, Len(batch), r)
  BY <1>1, <1>2, RememberIsRemembered
<1>4. /\ r \in Seq(Keyed) /\ Len(r) \in Nat /\ DedupWindow \in Nat \ {0}
      /\ \A i, j \in 1..Len(r) : r[i] = r[j] => i = j
  BY <1>3, SyncAssumption DEF Remembered
<1>5. known' = KeepLast(r)
  BY <1>2 DEF ProcessSync
<1>6. PICK d \in Nat :
        /\ known' \in Seq(Keyed) /\ Len(known') \in Nat /\ Len(known') + d = Len(r)
        /\ Len(known') <= DedupWindow /\ (d > 0 => Len(known') = DedupWindow)
        /\ \A i \in 1..Len(known') : known'[i] = r[d + i]
  <2>1. PICK kept \in Seq(Keyed) :
          /\ kept = KeepLast(r)
          /\ Len(kept) = IF Len(r) > DedupWindow THEN DedupWindow ELSE Len(r)
          /\ \A i \in 1..Len(kept) : kept[i] = r[Len(r) - Len(kept) + i]
    BY <1>4, KeepLastIsEnd
  <2>2. /\ Len(kept) \in Nat /\ Len(r) - Len(kept) \in Nat
        /\ Len(kept) + (Len(r) - Len(kept)) = Len(r) /\ Len(kept) <= DedupWindow
        /\ (Len(r) - Len(kept) > 0 => Len(kept) = DedupWindow)
    BY <1>4, <2>1
  <2>3. known' = kept
    BY <1>5, <2>1
  <2> QED BY <2>1, <2>2, <2>3
<1>7. \A i, j \in 1..Len(known') : known'[i] = known'[j] => i = j
  <2> SUFFICES ASSUME NEW i \in 1..Len(known'), NEW j \in 1..Len(known'), known'[i] = known'[j]
               PROVE  i = j
    OBVIOUS
  <2>1. d + i \in 1..Len(r) /\ d + j \in 1..Len(r)
    BY <1>4, <1>6
  <2>2. r[d + i] = r[d + j]
    BY <1>6
  <2>3. d + i = d + j
    BY <1>4, <2>1, <2>2
  <2> QED BY <1>6, <2>3
<1>8. /\ Accepted(batch) \subseteq Txs /\ counted' = counted \cup Accepted(batch)
      /\ fresh' = Accepted(batch)
  BY ToSetIsFinite DEF ProcessSync, Accepted
<1>9. since' \in [Txs -> SUBSET Keyed]
  BY DEF ProcessSync, SyncInv, SyncTypes, Behind
<1>10. ASSUME NEW t \in Txs PROVE IsFiniteSet(since'[t])
  <2>1. IsFiniteSet(ToSet(batch)) /\ IsFiniteSet(since[t])
    BY ToSetIsFinite DEF SyncInv, SyncTypes
  <2>2. CASE t \in Accepted(batch)
    <3>1. since'[t] = Behind(batch, t) /\ t \in ToSet(batch)
      BY <2>2 DEF ProcessSync, Accepted
    <3>2. Behind(batch, t) \subseteq ToSet(batch)
      <4>1. PICK f \in 1..Len(batch) :
              Behind(batch, t) = {batch[i] : i \in (f + 1)..Len(batch)} \cap (Keyed \ {t})
        BY <3>1, BehindFirst
      <4>2. \A i \in (f + 1)..Len(batch) : i \in DOMAIN batch
        OBVIOUS
      <4> QED BY <4>1, <4>2 DEF ToSet
    <3> QED BY <2>1, <3>1, <3>2, FS_Subset
  <2>3. CASE t \notin Accepted(batch) /\ t \in counted
    <3>1. since'[t] = since[t] \cup (ToSet(batch) \cap (Keyed \ {t}))
      BY <2>3 DEF ProcessSync
    <3>2. IsFiniteSet(ToSet(batch) \cap (Keyed \ {t}))
      BY <2>1, FS_Subset
    <3> QED BY <2>1, <3>1, <3>2, FS_Union
  <2>4. CASE t \notin Accepted(batch) /\ t \notin counted
    BY <2>4, FS_EmptySet DEF ProcessSync
  <2> QED BY <2>2, <2>3, <2>4
<1>11. SyncTypes'
  BY <1>6, <1>7, <1>8, <1>9, <1>10 DEF SyncTypes, SyncInv
<1>12. ASSUME NEW t \in Keyed \cap counted'
       PROVE  /\ BehindIn(known', t, since'[t])
              /\ ~Holds(known', t) => Cardinality(since'[t]) >= DedupWindow
  <2>1. /\ BehindIn(r, t, since'[t]) /\ IsFiniteSet(since'[t])
        /\ ~Holds(r, t) => Cardinality(since'[t]) >= DedupWindow
    BY <1>2, BehindWasSent
  <2>2. BehindIn(known', t, since'[t])
    <3> SUFFICES ASSUME NEW p \in 1..Len(known'), known'[p] = t, NEW j \in (p + 1)..Len(known')
                 PROVE  known'[j] \in since'[t]
      BY DEF BehindIn
    <3>1. d + p \in 1..Len(r) /\ d + j \in (d + p + 1)..Len(r) /\ j \in 1..Len(known')
      BY <1>4, <1>6
    <3>2. r[d + p] = t /\ r[d + j] = known'[j]
      BY <1>6, <3>1
    <3> QED BY <2>1, <3>1, <3>2 DEF BehindIn
  <2>3. ASSUME ~Holds(known', t), Holds(r, t) PROVE Cardinality(since'[t]) >= DedupWindow
    <3>1. PICK p \in 1..Len(r) : r[p] = t
      BY <2>3 DEF Holds
    <3>2. p <= d
      <4> SUFFICES ASSUME p > d PROVE FALSE
        BY <1>6
      <4>1. p - d \in 1..Len(known') /\ d + (p - d) = p
        BY <1>4, <1>6
      <4> QED BY <1>6, <2>3, <3>1, <4>1 DEF Holds
    <3>3. Len(known') = DedupWindow
      BY <1>6, <3>2
    <3>4. \A i \in 1..DedupWindow : known'[i] \in since'[t]
      <4> SUFFICES ASSUME NEW i \in 1..DedupWindow PROVE known'[i] \in since'[t]
        OBVIOUS
      <4>1. d + i \in (p + 1)..Len(r) /\ known'[i] = r[d + i]
        BY <1>4, <1>6, <3>2, <3>3
      <4> QED BY <2>1, <3>1, <4>1 DEF BehindIn
    <3>5. known' \in [1..DedupWindow -> since'[t]]
      BY <1>6, <3>3, <3>4
    <3>6. known' \in Injection(1..DedupWindow, since'[t])
      BY <1>7, <3>3, <3>5 DEF Injection, IsInjective
    <3>7. Cardinality(1..DedupWindow) <= Cardinality(since'[t])
      BY <2>1, <3>6, FS_Injection
    <3>8. Cardinality(1..DedupWindow) = DedupWindow
      BY <1>4, FS_Interval
    <3>9. Cardinality(since'[t]) \in Nat
      BY <2>1, FS_CardinalityType
    <3> QED BY <1>4, <3>7, <3>8, <3>9
  <2> QED BY <2>1, <2>2, <2>3
<1>13. Sheltered'
  BY <1>12 DEF Sheltered, BehindIn, Holds
<1> QED BY <1>11, <1>13 DEF SyncInv

LEMMA SyncInvAlways == Spec => []SyncInv
<1>1. Init => SyncInv
  BY FS_EmptySet, SyncAssumption DEF Init, SyncInv, SyncTypes, Sheltered
<1>2. SyncInv /\ [Next]_vars => SyncInv'
  <2> SUFFICES ASSUME SyncInv, [Next]_vars PROVE SyncInv'
    OBVIOUS
  <2>1. ASSUME NEW batch \in Batch, ProcessSync(batch) PROVE SyncInv'
    <3>1. batch \in Seq(Txs)
      BY SyncAssumption DEF Batch, BoundedSeq, SeqOf
    <3> QED BY <2>1, <3>1, SyncKeeps
  <2>2. CASE RefuseOldProtocol
    BY <2>2 DEF RefuseOldProtocol, SyncInv, SyncTypes, Sheltered, BehindIn, Holds
  <2>3. CASE Restart
    BY <2>3, FS_EmptySet, SyncAssumption DEF Restart, SyncInv, SyncTypes, Sheltered
  <2>4. CASE UNCHANGED vars
    BY <2>4 DEF vars, SyncInv, SyncTypes, Sheltered, BehindIn, Holds
  <2> QED BY <2>1, <2>2, <2>3, <2>4 DEF Next
<1> QED BY <1>1, <1>2, PTL DEF Spec

\* sync/receiver.rs: for any transactions, batches and length of the window, the keys
\* that are remembered are a window of them without repetition.
THEOREM SyncTypesAlways == Spec => []TypeOK
<1>1. SyncInv => TypeOK
  <2> SUFFICES ASSUME SyncInv PROVE TypeOK
    OBVIOUS
  <2>1. known \in [1..Len(known) -> Keyed] /\ Len(known) \in 0..DedupWindow /\ DOMAIN known = 1..Len(known)
    BY SyncAssumption DEF SyncInv, SyncTypes
  <2>2. known \in BoundedSeq(Keyed, DedupWindow)
    BY <2>1 DEF BoundedSeq, SeqOf
  <2>3. IsInjective(known)
    BY <2>1 DEF IsInjective, SyncInv, SyncTypes
  <2> QED BY <2>2, <2>3 DEF TypeOK, SyncInv, SyncTypes
<1> QED BY <1>1, SyncInvAlways, PTL

\* sync/receiver.rs and sync/verification.rs: however uploads are repeated, cut anew
\* and reordered, a transaction that was accepted is accepted again only past a
\* window of other keys, or after a restart.
THEOREM CountedOncePerWindow == Spec => CountedAgainOnlyPastWindow
<1>1. SyncInv /\ [Next]_vars =>
        [\A t \in Keyed : t \in counted /\ t \in fresh' => Cardinality(since[t]) >= DedupWindow]_vars
  <2> SUFFICES ASSUME SyncInv, Next, NEW t \in Keyed, t \in counted, t \in fresh'
               PROVE  Cardinality(since[t]) >= DedupWindow
    OBVIOUS
  <2>1. PICK batch \in Batch : ProcessSync(batch)
    BY DEF Next, RefuseOldProtocol, Restart
  <2>2. ~IsDuplicate(t)
    BY <2>1 DEF ProcessSync, Accepted, Judge
  <2>3. ~Holds(known, t)
    BY <2>2 DEF IsDuplicate, ToSet, Holds, SyncInv, SyncTypes
  <2> QED BY <2>3 DEF SyncInv, Sheltered
<1> QED BY <1>1, SyncInvAlways, PTL DEF CountedAgainOnlyPastWindow, Spec

-----------------------------------------------------------------------------
(***************************************************************************)
(* Graph sync. The statements of a message: one of its cohort, first, then *)
(* one for each of its deltas, in the order of its three lists.            *)
(***************************************************************************)
NodeStatements(m) == [i \in DOMAIN m.node_deltas |-> NodeStatement(m.node_deltas[i])]
EdgeStatements(m) == [i \in DOMAIN m.edge_deltas |-> EdgeStatement(m.edge_deltas[i])]
FactStatements(m) == [i \in DOMAIN m.fact_deltas |-> Statement("category", m.fact_deltas[i])]
StatementsOf(m) ==
  {Statement("cohort", m.cohort)}
  \cup {NodeStatement(m.node_deltas[i]) : i \in DOMAIN m.node_deltas}
  \cup {EdgeStatement(m.edge_deltas[i]) : i \in DOMAIN m.edge_deltas}
  \cup {Statement("category", m.fact_deltas[i]) : i \in DOMAIN m.fact_deltas}

\* A list whose elements are mapped is a list as long.
LEMMA MappedList ==
  ASSUME NEW d, IsList(d), NEW S, NEW f, f = [i \in DOMAIN d |-> f[i]],
         \A i \in DOMAIN d : f[i] \in S
  PROVE  f \in Seq(S) /\ DOMAIN f = DOMAIN d /\ Len(f) = Len(d) /\ Len(d) \in Nat
         /\ DOMAIN d = 1..Len(d)
<1>1. Len(d) \in Nat /\ DOMAIN d = 1..Len(d)
  BY LenProperties DEF IsList
<1> PICK n \in Nat : n = Len(d)
  BY <1>1
<1>2. f \in [1..n -> S]
  BY <1>1
<1>3. f \in Seq(S)
  BY <1>2, SeqDef, Zenon
<1>4. Len(f) = Len(d)
  BY <1>1, <1>2, <1>3, LenProperties
<1> QED BY <1>1, <1>2, <1>3, <1>4

\* Where the elements of one element and three lists after it come from.
InParts(s, p, q, r) ==
  \A i \in 1..Len(s) : i > 1 => \/ \E j \in 1..Len(p) : s[i] = p[j]
                                \/ \E j \in 1..Len(q) : s[i] = q[j]
                                \/ \E j \in 1..Len(r) : s[i] = r[j]
EndsWith(s, r) == \A j \in 1..Len(r) : \E i \in 1..Len(s) : i > 1 /\ s[i] = r[j]
MadeOf(s, S, c, p, q, r) ==
  /\ s \in Seq(S) /\ Len(s) \in Nat /\ Len(s) >= 1 /\ s[1] = c
  /\ InParts(s, p, q, r) /\ EndsWith(s, r)

LEMMA FourParts ==
  ASSUME NEW S, NEW c \in S, NEW p \in Seq(S), NEW q \in Seq(S), NEW r \in Seq(S)
  PROVE  MadeOf(((<<c>> \o p) \o q) \o r, S, c, p, q, r)
<1> SUFFICES ASSUME NEW s, s = ((<<c>> \o p) \o q) \o r PROVE MadeOf(s, S, c, p, q, r)
  BY Zenon
<1>0. Len(p) \in Nat /\ Len(q) \in Nat /\ Len(r) \in Nat
  BY LenProperties
<1>1. PICK u : u = <<c>>
  OBVIOUS
<1>2. u \in Seq(S) /\ Len(u) = 1 /\ u[1] = c
  BY <1>1
<1>3. PICK v : v = u \o p
  OBVIOUS
<1>4. /\ v \in Seq(S) /\ Len(v) = Len(u) + Len(p)
      /\ \A i \in 1..Len(u) + Len(p) : v[i] = IF i <= Len(u) THEN u[i] ELSE p[i - Len(u)]
  <2>1. u \in Seq(S) /\ p \in Seq(S)
    BY <1>2, Zenon
  <2>2. /\ u \o p \in Seq(S) /\ Len(u \o p) = Len(u) + Len(p)
        /\ \A i \in 1..Len(u) + Len(p) :
             (u \o p)[i] = IF i <= Len(u) THEN u[i] ELSE p[i - Len(u)]
    BY <2>1, ConcatProperties, Zenon
  <2> QED BY <1>3, <2>2, Zenon
<1>5. PICK w : w = v \o q
  OBVIOUS
<1>6. /\ w \in Seq(S) /\ Len(w) = Len(v) + Len(q)
      /\ \A i \in 1..Len(v) + Len(q) : w[i] = IF i <= Len(v) THEN v[i] ELSE q[i - Len(v)]
  <2>1. v \in Seq(S) /\ q \in Seq(S)
    BY <1>4, Zenon
  <2>2. /\ v \o q \in Seq(S) /\ Len(v \o q) = Len(v) + Len(q)
        /\ \A i \in 1..Len(v) + Len(q) :
             (v \o q)[i] = IF i <= Len(v) THEN v[i] ELSE q[i - Len(v)]
    BY <2>1, ConcatProperties, Zenon
  <2> QED BY <1>5, <2>2, Zenon
<1>7. s = w \o r
  BY <1>1, <1>3, <1>5, Zenon
<1>8. /\ s \in Seq(S) /\ Len(s) = Len(w) + Len(r)
      /\ \A i \in 1..Len(w) + Len(r) : s[i] = IF i <= Len(w) THEN w[i] ELSE r[i - Len(w)]
  <2>1. w \in Seq(S) /\ r \in Seq(S)
    BY <1>6, Zenon
  <2>2. /\ w \o r \in Seq(S) /\ Len(w \o r) = Len(w) + Len(r)
        /\ \A i \in 1..Len(w) + Len(r) :
             (w \o r)[i] = IF i <= Len(w) THEN w[i] ELSE r[i - Len(w)]
    BY <2>1, ConcatProperties, Zenon
  <2> QED BY <1>7, <2>2, Zenon
<1>9. Len(s) \in Nat /\ Len(s) >= 1 /\ s[1] = c
  BY <1>0, <1>2, <1>4, <1>6, <1>8
<1>10. ASSUME NEW i \in 1..Len(s), i > 1
       PROVE  \/ \E j \in 1..Len(p) : s[i] = p[j]
              \/ \E j \in 1..Len(q) : s[i] = q[j]
              \/ \E j \in 1..Len(r) : s[i] = r[j]
  <2>1. CASE i <= Len(v)
    <3>1. s[i] = p[i - 1] /\ i - 1 \in 1..Len(p)
      BY <1>0, <1>2, <1>4, <1>6, <1>8, <1>10, <2>1
    <3> QED BY <3>1
  <2>2. CASE i > Len(v) /\ i <= Len(w)
    <3>1. s[i] = q[i - Len(v)] /\ i - Len(v) \in 1..Len(q)
      BY <1>0, <1>2, <1>4, <1>6, <1>8, <1>10, <2>2
    <3> QED BY <3>1
  <2>3. CASE i > Len(w)
    <3>1. s[i] = r[i - Len(w)] /\ i - Len(w) \in 1..Len(r)
      BY <1>0, <1>2, <1>4, <1>6, <1>8, <1>10, <2>3
    <3> QED BY <3>1
  <2>4. i \in Nat /\ Len(v) \in Nat /\ Len(w) \in Nat
    BY <1>0, <1>2, <1>4, <1>6, <1>9
  <2>5. i <= Len(v) \/ (i > Len(v) /\ i <= Len(w)) \/ i > Len(w)
    BY <2>4
  <2> QED BY <2>1, <2>2, <2>3, <2>5, Zenon
<1>11. ASSUME NEW j \in 1..Len(r) PROVE \E i \in 1..Len(s) : i > 1 /\ s[i] = r[j]
  <2>1. /\ Len(w) + j \in 1..Len(s) /\ Len(w) + j > 1 /\ s[Len(w) + j] = r[j]
    BY <1>0, <1>2, <1>4, <1>6, <1>8
  <2> QED BY <2>1
<1>12. InParts(s, p, q, r)
  <2> SUFFICES ASSUME NEW i \in 1..Len(s), i > 1
               PROVE  \/ \E j \in 1..Len(p) : s[i] = p[j]
                      \/ \E j \in 1..Len(q) : s[i] = q[j]
                      \/ \E j \in 1..Len(r) : s[i] = r[j]
    BY DEF InParts
  <2> QED BY <1>10
<1>13. EndsWith(s, r)
  BY <1>11, Zenon DEF EndsWith
<1> QED BY <1>8, <1>9, <1>12, <1>13, Zenon DEF MadeOf

\* Its cohort is updated once, and each of its facts is a row of the categories.
LEMMA StatementsOfMessage ==
  ASSUME GraphSyncAssumption, NEW m \in Messages
  PROVE  /\ Statements(m) \in Seq(StatementsOf(m))
         /\ Len(Statements(m)) \in Nat /\ DOMAIN Statements(m) = 1..Len(Statements(m))
         /\ InTable(Statements(m), "cohort") = 1
         /\ InTable(Statements(m), "entity") \in Nat
         /\ RowsIn(Statements(m), "category") = {m.fact_deltas[i] : i \in DOMAIN m.fact_deltas}
<1>0. IsList(m.node_deltas) /\ IsList(m.edge_deltas) /\ IsList(m.fact_deltas)
  BY DEF GraphSyncAssumption
<1>1. PICK S : S = StatementsOf(m)
  OBVIOUS
<1>2. PICK c : c = Statement("cohort", m.cohort)
  OBVIOUS
<1>3. PICK p : p = NodeStatements(m)
  OBVIOUS
<1>4. PICK q : q = EdgeStatements(m)
  OBVIOUS
<1>5. PICK r : r = FactStatements(m)
  OBVIOUS
<1>6. PICK s : s = Statements(m)
  OBVIOUS
<1>7. s = ((<<c>> \o p) \o q) \o r
  BY <1>2, <1>3, <1>4, <1>5, <1>6, Zenon
     DEF Statements, NodeStatements, EdgeStatements, FactStatements
<1>8. c \in S
  BY <1>1, <1>2, Zenon DEF StatementsOf
<1>9. /\ p \in Seq(S) /\ DOMAIN p = 1..Len(p)
      /\ \A j \in DOMAIN p : p[j] = NodeStatement(m.node_deltas[j])
  <2>1. p = [i \in DOMAIN m.node_deltas |-> p[i]]
        /\ \A i \in DOMAIN m.node_deltas : p[i] = NodeStatement(m.node_deltas[i]) /\ p[i] \in S
    BY <1>1, <1>3, Zenon DEF NodeStatements, StatementsOf
  <2>2. /\ p \in Seq(S) /\ DOMAIN p = DOMAIN m.node_deltas /\ Len(p) = Len(m.node_deltas)
        /\ DOMAIN m.node_deltas = 1..Len(m.node_deltas)
    BY <1>0, <2>1, MappedList, Zenon
  <2> QED BY <2>1, <2>2, Zenon
<1>10. /\ q \in Seq(S) /\ DOMAIN q = 1..Len(q)
       /\ \A j \in DOMAIN q : q[j] = EdgeStatement(m.edge_deltas[j])
  <2>1. q = [i \in DOMAIN m.edge_deltas |-> q[i]]
        /\ \A i \in DOMAIN m.edge_deltas : q[i] = EdgeStatement(m.edge_deltas[i]) /\ q[i] \in S
    BY <1>1, <1>4, Zenon DEF EdgeStatements, StatementsOf
  <2>2. /\ q \in Seq(S) /\ DOMAIN q = DOMAIN m.edge_deltas /\ Len(q) = Len(m.edge_deltas)
        /\ DOMAIN m.edge_deltas = 1..Len(m.edge_deltas)
    BY <1>0, <2>1, MappedList, Zenon
  <2> QED BY <2>1, <2>2, Zenon
<1>11. /\ r \in Seq(S) /\ DOMAIN r = 1..Len(r) /\ DOMAIN r = DOMAIN m.fact_deltas
       /\ \A j \in DOMAIN r : r[j] = Statement("category", m.fact_deltas[j])
  <2>1. r = [i \in DOMAIN m.fact_deltas |-> r[i]]
        /\ \A i \in DOMAIN m.fact_deltas :
             r[i] = Statement("category", m.fact_deltas[i]) /\ r[i] \in S
    BY <1>1, <1>5, Zenon DEF FactStatements, StatementsOf
  <2>2. /\ r \in Seq(S) /\ DOMAIN r = DOMAIN m.fact_deltas /\ Len(r) = Len(m.fact_deltas)
        /\ DOMAIN m.fact_deltas = 1..Len(m.fact_deltas)
    BY <1>0, <2>1, MappedList, Zenon
  <2> QED BY <2>1, <2>2, Zenon
<1>12. /\ s \in Seq(S) /\ Len(s) \in Nat /\ Len(s) >= 1 /\ s[1] = c
       /\ InParts(s, p, q, r) /\ EndsWith(s, r)
  <2>1. p \in Seq(S) /\ q \in Seq(S) /\ r \in Seq(S)
    BY <1>9, <1>10, <1>11, Zenon
  <2>2. MadeOf(((<<c>> \o p) \o q) \o r, S, c, p, q, r)
    BY <1>8, <2>1, FourParts, Zenon
  <2>3. MadeOf(s, S, c, p, q, r)
    BY <1>7, <2>2, Zenon
  <2> QED BY <2>3, Zenon DEF MadeOf
<1>13. DOMAIN s = 1..Len(s)
  BY <1>12, LenProperties, Zenon
<1>14. c.table = "cohort" /\ \A j \in DOMAIN r : r[j].table = "category" /\ r[j].row = m.fact_deltas[j]
  BY <1>2, <1>11 DEF Statement
<1>15. \A j \in DOMAIN p : p[j].table \in {"entity", "none"}
  <2>1. \A d : NodeStatement(d).table \in {"entity", "none"}
    BY DEF NodeStatement, Statement, PassedOver
  <2> QED BY <1>9, <2>1, Zenon
<1>16. \A j \in DOMAIN q : q[j].table \in {"edge", "none"}
  <2>1. \A e : EdgeStatement(e).table \in {"edge", "none"}
    BY DEF EdgeStatement, Statement, PassedOver
  <2> QED BY <1>10, <2>1, Zenon
<1>17. {i \in DOMAIN s : s[i].table = "cohort"} = {1}
  <2>1. \A i \in 1..Len(s) : i > 1 => s[i].table # "cohort"
    <3> SUFFICES ASSUME NEW i \in 1..Len(s), i > 1 PROVE s[i].table # "cohort"
      OBVIOUS
    <3>1. \A j \in 1..Len(p) : p[j].table # "cohort"
      BY <1>9, <1>15
    <3>2. \A j \in 1..Len(q) : q[j].table # "cohort"
      BY <1>10, <1>16
    <3>3. \A j \in 1..Len(r) : r[j].table # "cohort"
      BY <1>11, <1>14
    <3>4. \/ \E j \in 1..Len(p) : s[i] = p[j]
          \/ \E j \in 1..Len(q) : s[i] = q[j]
          \/ \E j \in 1..Len(r) : s[i] = r[j]
      BY <1>12, Zenon DEF InParts
    <3> QED BY <3>1, <3>2, <3>3, <3>4
  <2> QED BY <1>12, <1>13, <1>14, <2>1
<1>18. InTable(s, "cohort") = 1
  BY <1>17, FS_Singleton, Zenon DEF InTable
<1>19. InTable(s, "entity") \in Nat
  <2>1. IsFiniteSet(1..Len(s))
    BY <1>12, FS_Interval
  <2>2. {i \in DOMAIN s : s[i].table = "entity"} \in SUBSET (1..Len(s))
    BY <1>13, Zenon
  <2>3. IsFiniteSet({i \in DOMAIN s : s[i].table = "entity"})
    BY <2>1, <2>2, FS_Subset, Zenon
  <2> QED BY <2>3, FS_CardinalityType, Zenon DEF InTable
<1>20. RowsIn(s, "category") = {m.fact_deltas[i] : i \in DOMAIN m.fact_deltas}
  <2>1. ASSUME NEW x \in RowsIn(s, "category")
        PROVE  x \in {m.fact_deltas[i] : i \in DOMAIN m.fact_deltas}
    <3>1. PICK i \in DOMAIN s : s[i].table = "category" /\ x = s[i].row
      BY <2>1, Zenon DEF RowsIn
    <3>2. i > 1
      BY <1>12, <1>13, <1>14, <3>1
    <3>3. \E j \in 1..Len(r) : s[i] = r[j]
      <4>1. \A j \in 1..Len(p) : p[j].table # "category"
        BY <1>9, <1>15
      <4>2. \A j \in 1..Len(q) : q[j].table # "category"
        BY <1>10, <1>16
      <4>3. i \in 1..Len(s)
        BY <1>13, Zenon
      <4> QED BY <1>12, <3>1, <3>2, <4>1, <4>2, <4>3, Zenon DEF InParts
    <3> QED BY <1>11, <1>14, <3>1, <3>3, Zenon
  <2>2. ASSUME NEW j \in DOMAIN m.fact_deltas PROVE m.fact_deltas[j] \in RowsIn(s, "category")
    <3>1. PICK i \in DOMAIN s : s[i] = r[j]
      BY <1>11, <1>12, <1>13, Zenon DEF EndsWith
    <3> QED BY <1>11, <1>14, <3>1, Zenon DEF RowsIn
  <2> QED BY <2>1, <2>2, Zenon
<1> QED BY <1>1, <1>6, <1>12, <1>13, <1>18, <1>19, <1>20, Zenon

(***************************************************************************)
(* Graph sync: the invariant. A request in its transaction has executed    *)
(* the first statements of its message, and a message was received as      *)
(* often as it was stored, and is being stored; stored as often as the     *)
(* device was told, and is being told.                                     *)
(***************************************************************************)
Clean == {m \in Messages : ~NamesSomeone(m)}
MergeCalls(m) ==
  {[at |-> "merge", message |-> m, executed |-> SubSeq(Statements(m), 1, n)] :
     n \in 0..Len(Statements(m))}
SyncCall ==
  {IdleCall}
  \cup {[at |-> "answer", message |-> m] : m \in Clean}
  \cup UNION {MergeCalls(m) : m \in Clean}
Underway(at, m) == {c \in SyncRequest : syncCalls[c].at = at /\ syncCalls[c].message = m}

MessageOK(m) ==
  /\ IsFiniteSet(Underway("merge", m)) /\ IsFiniteSet(Underway("answer", m))
  /\ stored[m] + Cardinality(Underway("merge", m)) <= received[m]
  /\ acknowledged[m] + Cardinality(Underway("answer", m)) <= stored[m]
  /\ averaged[m] <= stored[m]
  /\ entities[m] = stored[m] * InTable(Statements(m), "entity")
  /\ NamesSomeone(m) => stored[m] = 0

FactsOf(m) == {m.fact_deltas[i] : i \in DOMAIN m.fact_deltas}
StoredFacts == UNION {FactsOf(m) : m \in {n \in Messages : stored[n] > 0}}

GraphSyncInv ==
  /\ syncCalls \in [SyncRequest -> SyncCall]
  /\ received \in [Messages -> Nat] /\ stored \in [Messages -> Nat]
  /\ acknowledged \in [Messages -> Nat]
  /\ averaged \in [Messages -> Nat] /\ entities \in [Messages -> Nat]
  /\ \A m \in Messages : MessageOK(m)
  /\ categories = StoredFacts

\* What a request under way can be.
LEMMA CallSays ==
  ASSUME NEW q \in SyncCall
  PROVE  /\ q.at = "merge" =>
              /\ q.message \in Clean
              /\ \E n \in 0..Len(Statements(q.message)) :
                   q = [at |-> "merge", message |-> q.message,
                        executed |-> SubSeq(Statements(q.message), 1, n)]
         /\ q.at = "answer" => q.message \in Clean
<1>1. CASE q = IdleCall
  BY <1>1 DEF IdleCall
<1>2. CASE \E m \in Clean : q = [at |-> "answer", message |-> m]
  BY <1>2
<1>3. ASSUME NEW m \in Clean, NEW n \in 0..Len(Statements(m)),
             q = [at |-> "merge", message |-> m, executed |-> SubSeq(Statements(m), 1, n)]
      PROVE  /\ q.at = "merge" /\ q.message = m
             /\ q = [at |-> "merge", message |-> q.message,
                     executed |-> SubSeq(Statements(q.message), 1, n)]
  <2>1. PICK e : e = SubSeq(Statements(m), 1, n)
    OBVIOUS
  <2>2. q = [at |-> "merge", message |-> m, executed |-> e]
    BY <1>3, <2>1, Zenon
  <2>3. q.at = "merge" /\ q.message = m
    BY <2>2
  <2> QED BY <1>3, <2>3, Zenon
<1>4. ASSUME \E m \in Clean : \E n \in 0..Len(Statements(m)) :
             q = [at |-> "merge", message |-> m, executed |-> SubSeq(Statements(m), 1, n)]
      PROVE  /\ q.at = "merge" /\ q.message \in Clean
             /\ \E n \in 0..Len(Statements(q.message)) :
                  q = [at |-> "merge", message |-> q.message,
                       executed |-> SubSeq(Statements(q.message), 1, n)]
  <2>0. PICK m \in Clean : \E n \in 0..Len(Statements(m)) :
             q = [at |-> "merge", message |-> m, executed |-> SubSeq(Statements(m), 1, n)]
    BY <1>4, Zenon
  <2>1. PICK n \in 0..Len(Statements(m)) :
             q = [at |-> "merge", message |-> m, executed |-> SubSeq(Statements(m), 1, n)]
    BY <2>0, Zenon
  <2>2. q.at = "merge" /\ q.message = m
    BY <1>3, <2>1, Zenon
  <2> QED BY <1>3, <2>0, <2>1, <2>2, Zenon
<1>5. CASE \E m \in Clean : q \in MergeCalls(m)
  <2>1. PICK m \in Clean : q \in MergeCalls(m)
    BY <1>5, Zenon
  <2>2. \E n \in 0..Len(Statements(m)) :
             q = [at |-> "merge", message |-> m, executed |-> SubSeq(Statements(m), 1, n)]
    BY <2>1, Zenon DEF MergeCalls
  <2>3. /\ q.at = "merge" /\ q.message \in Clean
        /\ \E n \in 0..Len(Statements(q.message)) :
                  q = [at |-> "merge", message |-> q.message,
                       executed |-> SubSeq(Statements(q.message), 1, n)]
    BY <1>4, <2>1, <2>2, Zenon
  <2>4. q.at # "answer"
    BY <2>3
  <2> QED BY <2>3, <2>4, Zenon
<1>6. q = IdleCall \/ (\E m \in Clean : q = [at |-> "answer", message |-> m])
        \/ (\E m \in Clean : q \in MergeCalls(m))
  BY Zenon DEF SyncCall
<1> QED BY <1>1, <1>2, <1>5, <1>6, Zenon

\* How much of its message a request in its transaction has executed.
LEMMA ExecutedSays ==
  ASSUME GraphSyncAssumption, NEW q \in SyncCall, q.at = "merge"
  PROVE  /\ q.message \in Clean /\ q.message \in Messages
         /\ Len(q.executed) \in 0..Len(Statements(q.message))
         /\ q = [at |-> "merge", message |-> q.message,
                 executed |-> SubSeq(Statements(q.message), 1, Len(q.executed))]
<1>1. q.message \in Clean
  BY CallSays
<1>2. PICK n \in 0..Len(Statements(q.message)) :
        q = [at |-> "merge", message |-> q.message,
             executed |-> SubSeq(Statements(q.message), 1, n)]
  BY CallSays, Zenon
<1>3. q.message \in Messages
  BY <1>1 DEF Clean
<1>4. PICK m : m = q.message
  OBVIOUS
<1>5. PICK s : s = Statements(m)
  OBVIOUS
<1>6. PICK e : e = SubSeq(s, 1, n)
  OBVIOUS
<1>7. q = [at |-> "merge", message |-> m, executed |-> e]
  BY <1>2, <1>4, <1>5, <1>6, Zenon
<1>8. q.executed = e
  BY <1>7
<1>9. s \in Seq(StatementsOf(m)) /\ Len(s) \in Nat
  BY <1>3, <1>4, <1>5, StatementsOfMessage, Zenon
<1>10. n \in 0..Len(s)
  BY <1>4, <1>5, Zenon
<1>11. \A i \in 1..n : s[i] \in StatementsOf(m)
  BY <1>9, <1>10, ElementOfSeq
<1>12. Len(SubSeq(s, 1, n)) = IF 1 <= n THEN n - 1 + 1 ELSE 0
  BY <1>9, <1>10, <1>11, SubSeqProperties
<1>13. Len(e) = n
  BY <1>6, <1>9, <1>10, <1>12
<1> QED BY <1>1, <1>2, <1>3, <1>4, <1>8, <1>13, Zenon

\* The next statement is the one that follows those it has executed.
LEMMA ExecutesNext ==
  ASSUME GraphSyncAssumption, NEW q \in SyncCall, q.at = "merge",
         Len(q.executed) < Len(Statements(q.message)), NEW r,
         r = [q EXCEPT !.executed = Append(q.executed, Statements(q.message)[Len(q.executed) + 1])]
  PROVE  r \in SyncCall /\ r.at = "merge" /\ r.message = q.message
<1>1. PICK m : m = q.message
  OBVIOUS
<1>2. PICK s : s = Statements(m)
  OBVIOUS
<1>3. PICK n : n = Len(q.executed)
  OBVIOUS
<1>4. /\ m \in Clean /\ m \in Messages /\ n \in 0..Len(s) /\ n < Len(s)
      /\ q = [at |-> "merge", message |-> m, executed |-> SubSeq(s, 1, n)]
  BY <1>1, <1>2, <1>3, ExecutedSays, Zenon
<1>5. s \in Seq(StatementsOf(m)) /\ Len(s) \in Nat
  BY <1>2, <1>4, StatementsOfMessage, Zenon
<1>6. n + 1 \in 1..Len(s) /\ n + 1 \in 0..Len(s) /\ n + 1 \in 1..n + 1 /\ n = (n + 1) - 1
      /\ 1 \in 1..Len(s) /\ n + 1 \in 1..Len(s)
  BY <1>4, <1>5
<1>7. SubSeq(s, 1, n + 1) = SubSeq(s, 1, n) \o <<s[n + 1]>>
  BY <1>5, <1>6, SubSeqRecursiveSecond, Zenon
<1>8. s[n + 1] \in StatementsOf(m)
  BY <1>5, <1>6, ElementOfSeq
<1>9. SubSeq(s, 1, n) \in Seq(StatementsOf(m))
  <2>1. \A i \in 1..n : s[i] \in StatementsOf(m)
    BY <1>4, <1>5, ElementOfSeq
  <2> QED BY <1>4, <1>5, <2>1, SubSeqProperties
<1>10. Append(SubSeq(s, 1, n), s[n + 1]) = SubSeq(s, 1, n + 1)
  BY <1>7, <1>8, <1>9, AppendIsConcat, Zenon
<1>11. PICK e : e = SubSeq(s, 1, n)
  OBVIOUS
<1>12. PICK f : f = SubSeq(s, 1, n + 1)
  OBVIOUS
<1>13. q = [at |-> "merge", message |-> m, executed |-> e]
  BY <1>4, <1>11, Zenon
<1>14. q.executed = e
  BY <1>13
<1>15. Append(q.executed, s[n + 1]) = f
  BY <1>10, <1>11, <1>12, <1>14, Zenon
<1>16. r = [q EXCEPT !.executed = f]
  BY <1>1, <1>2, <1>3, <1>15, Zenon
<1>17. r = [at |-> "merge", message |-> m, executed |-> f]
  BY <1>13, <1>16
<1>18. r \in SyncCall
  <2>1. PICK k : k = n + 1
    OBVIOUS
  <2>2. k \in 0..Len(Statements(m))
    BY <1>2, <1>6, <2>1, Zenon
  <2>3. r = [at |-> "merge", message |-> m, executed |-> SubSeq(Statements(m), 1, k)]
    BY <1>2, <1>12, <1>17, <2>1, Zenon
  <2>4. r \in MergeCalls(m)
    BY <2>2, <2>3, Zenon DEF MergeCalls
  <2>5. m \in Clean
    BY <1>4, Zenon
  <2> QED BY <2>4, <2>5, Zenon DEF SyncCall
<1>19. r.at = "merge" /\ r.message = m
  BY <1>17
<1> QED BY <1>1, <1>18, <1>19, Zenon

\* A transaction that commits has executed all of its message.
LEMMA CommitsAll ==
  ASSUME GraphSyncAssumption, NEW q \in SyncCall, q.at = "merge",
         ~(Len(q.executed) < Len(Statements(q.message)))
  PROVE  q.executed = Statements(q.message)
<1>1. PICK m : m = q.message
  OBVIOUS
<1>2. PICK s : s = Statements(m)
  OBVIOUS
<1>3. PICK n : n = Len(q.executed)
  OBVIOUS
<1>4. /\ m \in Messages /\ n \in 0..Len(s) /\ ~(n < Len(s))
      /\ q = [at |-> "merge", message |-> m, executed |-> SubSeq(s, 1, n)]
  BY <1>1, <1>2, <1>3, ExecutedSays, Zenon
<1>5. s \in Seq(StatementsOf(m)) /\ Len(s) \in Nat
  BY <1>2, <1>4, StatementsOfMessage, Zenon
<1>6. n = Len(s)
  BY <1>4, <1>5
<1>7. SubSeq(s, 1, n) = s
  BY <1>5, <1>6, SubSeqFull, Zenon
<1>8. q = [at |-> "merge", message |-> m, executed |-> s]
  BY <1>4, <1>7, Zenon
<1>9. q.executed = s
  BY <1>8
<1> QED BY <1>1, <1>2, <1>9, Zenon

\* Nothing is left of a transaction that is rolled back.
LEMMA NothingRolledBack ==
  ASSUME NEW e, NEW t
  PROVE  InTable(RolledBack(e), t) = 0 /\ RowsIn(RolledBack(e), t) = {}
<1>1. DOMAIN RolledBack(e) = {}
  BY DEF RolledBack
<1>2. {i \in DOMAIN RolledBack(e) : RolledBack(e)[i].table = t} = {}
  BY <1>1, Zenon
<1>3. InTable(RolledBack(e), t) = 0
  BY <1>2, FS_EmptySet, Zenon DEF InTable
<1>4. RowsIn(RolledBack(e), t) = {}
  BY <1>2 DEF RowsIn
<1> QED BY <1>3, <1>4

\* Requests under way are counted as one of them changes from q to r.
One(q, at, m) == IF q.at = at /\ q.message = m THEN 1 ELSE 0
LEMMA UnderwayStep ==
  ASSUME syncCalls \in [SyncRequest -> SyncCall], NEW c \in SyncRequest, NEW r,
         syncCalls' = [syncCalls EXCEPT ![c] = r],
         NEW at, NEW m, IsFiniteSet(Underway(at, m))
  PROVE  /\ IsFiniteSet(Underway(at, m)') /\ Cardinality(Underway(at, m)) \in Nat
         /\ Cardinality(Underway(at, m)') \in Nat
         /\ Cardinality(Underway(at, m)')
              = (Cardinality(Underway(at, m)) - One(syncCalls[c], at, m)) + One(r, at, m)
<1>1. PICK U : U = Underway(at, m)
  OBVIOUS
<1>2. PICK V : V = Underway(at, m)'
  OBVIOUS
<1>3. \A d \in SyncRequest : syncCalls'[d] = IF d = c THEN r ELSE syncCalls[d]
  OBVIOUS
<1>4. V \subseteq SyncRequest /\ \A d \in SyncRequest : d \in V <=> syncCalls'[d].at = at /\ syncCalls'[d].message = m
  BY <1>2, Zenon DEF Underway
<1>5. U \subseteq SyncRequest /\ \A d \in SyncRequest : d \in U <=> syncCalls[d].at = at /\ syncCalls[d].message = m
  BY <1>1, Zenon DEF Underway
<1>6. \A d \in SyncRequest \ {c} : d \in V <=> d \in U
  BY <1>3, <1>4, <1>5
<1>7. One(syncCalls[c], at, m) = IF c \in U THEN 1 ELSE 0
  BY <1>5, Zenon DEF One
<1>8. One(r, at, m) = IF c \in V THEN 1 ELSE 0
  BY <1>3, <1>4 DEF One
<1>9. IsFiniteSet(U) /\ Cardinality(U) \in Nat
  BY <1>1, FS_CardinalityType, Zenon
<1>10. PICK W : W = U \ {c}
  OBVIOUS
<1>11. IsFiniteSet(W) /\ Cardinality(W) = IF c \in U THEN Cardinality(U) - 1 ELSE Cardinality(U)
  BY <1>9, <1>10, FS_RemoveElement, Zenon
<1>12. Cardinality(W) \in Nat
  BY <1>11, FS_CardinalityType, Zenon
<1>13. IsFiniteSet(W \cup {c}) /\ Cardinality(W \cup {c}) = Cardinality(W) + 1
  <2>1. c \notin W
    BY <1>10
  <2> QED BY <1>11, <2>1, FS_AddElement, Zenon
<1>14. IsFiniteSet(V) /\ Cardinality(V) \in Nat
       /\ Cardinality(V) = Cardinality(W) + IF c \in V THEN 1 ELSE 0
  <2>1. CASE c \in V
    <3>1. V = W \cup {c}
      BY <1>4, <1>5, <1>6, <1>10, <2>1
    <3> QED BY <1>12, <1>13, <2>1, <3>1
  <2>2. CASE c \notin V
    <3>1. V = W
      BY <1>4, <1>5, <1>6, <1>10, <2>2
    <3> QED BY <1>11, <1>12, <2>2, <3>1
  <2> QED BY <2>1, <2>2
<1>15. Cardinality(V) = (Cardinality(U) - One(syncCalls[c], at, m)) + One(r, at, m)
  BY <1>7, <1>8, <1>9, <1>11, <1>12, <1>14
<1> QED BY <1>1, <1>2, <1>9, <1>14, <1>15, Zenon

\* A message whose numbers stay, but for a request that leaves its transaction or
\* stays in it, is as it was.
LEMMA MessageStays ==
  ASSUME GraphSyncAssumption, GraphSyncInv, NEW c \in SyncRequest, NEW r, syncCalls' = [syncCalls EXCEPT ![c] = r],
         NEW m \in Messages,
         One(r, "merge", m) <= One(syncCalls[c], "merge", m),
         One(r, "answer", m) <= One(syncCalls[c], "answer", m),
         received'[m] = received[m], stored'[m] = stored[m],
         acknowledged'[m] = acknowledged[m], averaged'[m] = averaged[m], entities'[m] = entities[m]
  PROVE  MessageOK(m)'
<1>1. MessageOK(m) /\ syncCalls \in [SyncRequest -> SyncCall]
  BY Zenon DEF GraphSyncInv
<1>2. /\ received[m] \in Nat /\ stored[m] \in Nat /\ acknowledged[m] \in Nat
  BY DEF GraphSyncInv
<1>3. IsFiniteSet(Underway("merge", m)) /\ IsFiniteSet(Underway("answer", m))
  BY <1>1, Zenon DEF MessageOK
<1>4. /\ IsFiniteSet(Underway("merge", m)') /\ Cardinality(Underway("merge", m)) \in Nat
      /\ Cardinality(Underway("merge", m)') \in Nat
      /\ Cardinality(Underway("merge", m)')
              = (Cardinality(Underway("merge", m)) - One(syncCalls[c], "merge", m)) + One(r, "merge", m)
  BY <1>1, <1>3, UnderwayStep, Zenon
<1>5. /\ IsFiniteSet(Underway("answer", m)') /\ Cardinality(Underway("answer", m)) \in Nat
      /\ Cardinality(Underway("answer", m)') \in Nat
      /\ Cardinality(Underway("answer", m)')
              = (Cardinality(Underway("answer", m)) - One(syncCalls[c], "answer", m)) + One(r, "answer", m)
  BY <1>1, <1>3, UnderwayStep, Zenon
<1>6. \A q, a, n : One(q, a, n) \in {0, 1}
  BY DEF One
<1>7. /\ stored[m] + Cardinality(Underway("merge", m)) <= received[m]
      /\ acknowledged[m] + Cardinality(Underway("answer", m)) <= stored[m]
  BY <1>1, Zenon DEF MessageOK
<1>8. stored'[m] + Cardinality(Underway("merge", m)') <= received'[m]
  <2>1. One(r, "merge", m) \in Nat /\ One(syncCalls[c], "merge", m) \in Nat
    BY <1>6
  <2> QED BY <1>2, <1>4, <1>7, <2>1
<1>9. acknowledged'[m] + Cardinality(Underway("answer", m)') <= stored'[m]
  <2>1. One(r, "answer", m) \in Nat /\ One(syncCalls[c], "answer", m) \in Nat
    BY <1>6
  <2> QED BY <1>2, <1>5, <1>7, <2>1
<1>10. /\ averaged'[m] <= stored'[m]
       /\ entities'[m] = stored'[m] * InTable(Statements(m), "entity")
       /\ NamesSomeone(m) => stored'[m] = 0
  BY <1>1, Zenon DEF MessageOK
<1> QED BY <1>4, <1>5, <1>8, <1>9, <1>10, Zenon DEF MessageOK

\* A statement runs, a transaction is rolled back, or a device is not told: no
\* table and no number changes.
LEMMA SyncQuietStep ==
  ASSUME GraphSyncAssumption, GraphSyncInv, NEW c \in SyncRequest, NEW r \in SyncCall,
         syncCalls' = [syncCalls EXCEPT ![c] = r],
         \A m \in Messages : /\ One(r, "merge", m) <= One(syncCalls[c], "merge", m)
                             /\ One(r, "answer", m) <= One(syncCalls[c], "answer", m),
         received' = received, stored' = stored, acknowledged' = acknowledged,
         averaged' = averaged, entities' = entities, categories' = categories
  PROVE  GraphSyncInv'
<1>1. syncCalls' \in [SyncRequest -> SyncCall]
  BY DEF GraphSyncInv
<1>2. \A m \in Messages : MessageOK(m)'
  BY MessageStays, Zenon
<1>3. categories' = StoredFacts'
  BY Zenon DEF GraphSyncInv, StoredFacts
<1>4. /\ received' \in [Messages -> Nat] /\ stored' \in [Messages -> Nat]
      /\ acknowledged' \in [Messages -> Nat]
      /\ averaged' \in [Messages -> Nat] /\ entities' \in [Messages -> Nat]
  BY Zenon DEF GraphSyncInv
<1> QED BY <1>1, <1>2, <1>3, <1>4, Zenon DEF GraphSyncInv

\* A message is received once more, and refused or in a transaction.
LEMMA SyncReceives ==
  ASSUME GraphSyncAssumption, GraphSyncInv, NEW c \in SyncRequest, NEW n \in Messages, Receive(c, n)
  PROVE  GraphSyncInv'
<1>1. /\ syncCalls[c].at = "idle" /\ received' = [received EXCEPT ![n] = @ + 1]
      /\ syncCalls' = [syncCalls EXCEPT ![c] =
                 IF members[n.cohort] < MinK \/ NamesSomeone(n) THEN IdleCall
                 ELSE [at |-> "merge", message |-> n, executed |-> <<>>]]
      /\ stored' = stored /\ acknowledged' = acknowledged /\ averaged' = averaged
      /\ entities' = entities /\ categories' = categories
  BY Zenon DEF Receive, tables
<1>2. PICK r : r = IF members[n.cohort] < MinK \/ NamesSomeone(n) THEN IdleCall
                   ELSE [at |-> "merge", message |-> n, executed |-> <<>>]
  OBVIOUS
<1>3. syncCalls' = [syncCalls EXCEPT ![c] = r]
  BY <1>1, <1>2, Zenon
<1>4. r \in SyncCall
  <2>1. CASE members[n.cohort] < MinK \/ NamesSomeone(n)
    BY <1>2, <2>1, Zenon DEF SyncCall
  <2>2. CASE ~(members[n.cohort] < MinK \/ NamesSomeone(n))
    <3>1. n \in Clean
      BY <2>2 DEF Clean
    <3>2. SubSeq(Statements(n), 1, 0) = <<>>
      BY SubSeqEmpty
    <3>3. 0 \in 0..Len(Statements(n))
      BY StatementsOfMessage
    <3>4. r = [at |-> "merge", message |-> n, executed |-> SubSeq(Statements(n), 1, 0)]
      BY <1>2, <2>2, <3>2, Zenon
    <3>5. r \in MergeCalls(n)
      BY <3>3, <3>4, Zenon DEF MergeCalls
    <3> QED BY <3>1, <3>5, Zenon DEF SyncCall
  <2> QED BY <2>1, <2>2, Zenon
<1>5. \A m : /\ One(syncCalls[c], "merge", m) = 0 /\ One(syncCalls[c], "answer", m) = 0
             /\ One(r, "answer", m) = 0
             /\ One(r, "merge", m) \in {0, 1} /\ (m # n => One(r, "merge", m) = 0)
  <2>1. r = IdleCall \/ r = [at |-> "merge", message |-> n, executed |-> <<>>]
    BY <1>2, Zenon
  <2>2. r.at # "answer" /\ (r.at = "merge" => r.message = n)
    BY <2>1 DEF IdleCall
  <2> QED BY <1>1, <2>2 DEF One
<1>6. received' \in [Messages -> Nat] /\ received'[n] = received[n] + 1
      /\ \A m \in Messages : m # n => received'[m] = received[m]
  BY <1>1 DEF GraphSyncInv
<1>7. ASSUME NEW m \in Messages PROVE MessageOK(m)'
  <2>1. CASE m # n
    <3>1. One(r, "merge", m) <= One(syncCalls[c], "merge", m)
          /\ One(r, "answer", m) <= One(syncCalls[c], "answer", m)
      BY <1>5, <2>1
    <3> QED BY <1>1, <1>3, <1>6, <2>1, <3>1, MessageStays, Zenon
  <2>2. CASE m = n
    <3>1. MessageOK(m) /\ syncCalls \in [SyncRequest -> SyncCall]
      BY Zenon DEF GraphSyncInv
    <3>2. IsFiniteSet(Underway("merge", m)) /\ IsFiniteSet(Underway("answer", m))
      BY <3>1, Zenon DEF MessageOK
    <3>3. /\ IsFiniteSet(Underway("merge", m)') /\ Cardinality(Underway("merge", m)) \in Nat
          /\ Cardinality(Underway("merge", m)')
              = (Cardinality(Underway("merge", m)) - One(syncCalls[c], "merge", m)) + One(r, "merge", m)
      BY <1>3, <3>1, <3>2, UnderwayStep, Zenon
    <3>4. /\ IsFiniteSet(Underway("answer", m)') /\ Cardinality(Underway("answer", m)) \in Nat
          /\ Cardinality(Underway("answer", m)')
              = (Cardinality(Underway("answer", m)) - One(syncCalls[c], "answer", m)) + One(r, "answer", m)
      BY <1>3, <3>1, <3>2, UnderwayStep, Zenon
    <3>5. received[m] \in Nat /\ stored[m] \in Nat /\ received'[m] = received[m] + 1
      BY <1>6, <2>2 DEF GraphSyncInv
    <3>6. /\ stored[m] + Cardinality(Underway("merge", m)) <= received[m]
          /\ acknowledged[m] + Cardinality(Underway("answer", m)) <= stored[m]
          /\ averaged[m] <= stored[m]
          /\ entities[m] = stored[m] * InTable(Statements(m), "entity")
          /\ NamesSomeone(m) => stored[m] = 0
      BY <3>1, Zenon DEF MessageOK
    <3>7. stored[m] + Cardinality(Underway("merge", m)') <= received'[m]
      <4>1. One(syncCalls[c], "merge", m) = 0 /\ One(r, "merge", m) \in {0, 1}
        BY <1>5, Zenon
      <4> QED BY <3>3, <3>5, <3>6, <4>1
    <3>8. Cardinality(Underway("answer", m)') = Cardinality(Underway("answer", m))
      <4>1. One(syncCalls[c], "answer", m) = 0 /\ One(r, "answer", m) = 0
        BY <1>5, Zenon
      <4> QED BY <3>4, <4>1
    <3> QED BY <1>1, <3>3, <3>4, <3>6, <3>7, <3>8, Zenon DEF MessageOK
  <2> QED BY <2>1, <2>2
<1>8. syncCalls' \in [SyncRequest -> SyncCall]
  BY <1>3, <1>4 DEF GraphSyncInv
<1>9. categories' = StoredFacts'
  BY <1>1, Zenon DEF GraphSyncInv, StoredFacts
<1>10. /\ stored' \in [Messages -> Nat] /\ acknowledged' \in [Messages -> Nat]
       /\ averaged' \in [Messages -> Nat] /\ entities' \in [Messages -> Nat]
  BY <1>1, Zenon DEF GraphSyncInv
<1> QED BY <1>6, <1>7, <1>8, <1>9, <1>10, Zenon DEF GraphSyncInv

\* The next statement is executed: the request stays in its transaction.
LEMMA SyncExecutes ==
  ASSUME GraphSyncAssumption, GraphSyncInv, NEW c \in SyncRequest, Execute(c)
  PROVE  GraphSyncInv'
<1>1. syncCalls[c] \in SyncCall /\ syncCalls[c].at = "merge" /\ HasMore(c)
  BY DEF Execute, GraphSyncInv
<1>2. PICK q : q = syncCalls[c]
  OBVIOUS
<1>3. PICK r :
        r = [q EXCEPT !.executed = Append(q.executed, Statements(q.message)[Len(q.executed) + 1])]
  OBVIOUS
<1>4. syncCalls' = [syncCalls EXCEPT ![c] = r]
  BY <1>2, <1>3 DEF Execute, NextStatement
<1>5. q \in SyncCall /\ q.at = "merge" /\ Len(q.executed) < Len(Statements(q.message))
  BY <1>1, <1>2, Zenon DEF HasMore
<1>6. r \in SyncCall /\ r.at = "merge" /\ r.message = q.message
  BY <1>3, <1>5, ExecutesNext, Zenon
<1>7. \A m \in Messages : /\ One(r, "merge", m) <= One(syncCalls[c], "merge", m)
                          /\ One(r, "answer", m) <= One(syncCalls[c], "answer", m)
  <2>1. \A m : One(r, "merge", m) = One(q, "merge", m) /\ One(r, "answer", m) = One(q, "answer", m)
    BY <1>5, <1>6, Zenon DEF One
  <2>2. \A a, m : One(q, a, m) \in Nat
    BY DEF One
  <2>3. \A x \in Nat : x <= x
    OBVIOUS
  <2> QED BY <1>2, <2>1, <2>2, <2>3, Zenon
<1>8. /\ received' = received /\ stored' = stored /\ acknowledged' = acknowledged
      /\ averaged' = averaged /\ entities' = entities /\ categories' = categories
  BY DEF Execute, tables, history
<1> QED BY <1>4, <1>6, <1>7, <1>8, SyncQuietStep, Zenon

\* A transaction that fails leaves the tables and the numbers as they were.
LEMMA SyncFails ==
  ASSUME GraphSyncAssumption, GraphSyncInv, NEW c \in SyncRequest, Fail(c)
  PROVE  GraphSyncInv'
<1>1. syncCalls[c] \in SyncCall /\ syncCalls[c].at = "merge"
  BY DEF Fail, GraphSyncInv
<1>2. syncCalls' = [syncCalls EXCEPT ![c] = IdleCall] /\ IdleCall \in SyncCall
  BY Zenon DEF Fail, SyncCall
<1>3. \A m \in Messages : /\ One(IdleCall, "merge", m) <= One(syncCalls[c], "merge", m)
                          /\ One(IdleCall, "answer", m) <= One(syncCalls[c], "answer", m)
  BY DEF One, IdleCall
<1>4. /\ received' = received /\ stored' = stored /\ acknowledged' = acknowledged
  BY DEF Fail, history
<1>5. PICK m : m = syncCalls[c].message
  OBVIOUS
<1>6. PICK e : e = RolledBack(syncCalls[c].executed)
  OBVIOUS
<1>7. InTable(e, "cohort") = 0 /\ InTable(e, "entity") = 0 /\ RowsIn(e, "category") = {}
  BY <1>6, NothingRolledBack, Zenon
<1>8. WriteRows(m, e)
  BY <1>5, <1>6, Zenon DEF Fail
<1>9. categories' = categories
  BY <1>7, <1>8 DEF WriteRows
<1>10. averaged' = averaged /\ entities' = entities
  <2>1. averaged \in [Messages -> Nat] /\ entities \in [Messages -> Nat]
    BY Zenon DEF GraphSyncInv
  <2>2. /\ averaged' = [averaged EXCEPT ![m] = averaged[m] + 0]
        /\ entities' = [entities EXCEPT ![m] = entities[m] + 0]
    BY <1>7, <1>8 DEF WriteRows
  <2> QED BY <2>1, <2>2
<1> QED BY <1>2, <1>3, <1>4, <1>9, <1>10, SyncQuietStep, Zenon

\* What a message adds each time, added once more.
LEMMA OnceMore == \A a, k \in Nat : (a + 1) * k = a * k + k
OBVIOUS

\* A transaction that commits stores all of its message, once more.
LEMMA SyncCommits ==
  ASSUME GraphSyncAssumption, GraphSyncInv, NEW c \in SyncRequest, Commit(c)
  PROVE  GraphSyncInv'
<1>1. PICK q : q = syncCalls[c]
  OBVIOUS
<1>2. PICK n : n = q.message
  OBVIOUS
<1>3. q \in SyncCall /\ q.at = "merge" /\ ~(Len(q.executed) < Len(Statements(q.message)))
  BY <1>1, Zenon DEF Commit, HasMore, GraphSyncInv
<1>4. n \in Clean /\ n \in Messages
  BY <1>2, <1>3, ExecutedSays, Zenon
<1>5. q.executed = Statements(n)
  BY <1>2, <1>3, CommitsAll, Zenon
<1>6. PICK k : k = InTable(Statements(n), "entity")
  OBVIOUS
<1>7. k \in Nat /\ InTable(Statements(n), "cohort") = 1 /\ RowsIn(Statements(n), "category") = FactsOf(n)
  BY <1>4, <1>6, StatementsOfMessage, Zenon DEF FactsOf
<1>8. WriteRows(n, Statements(n))
  BY <1>1, <1>2, <1>5, Zenon DEF Commit
<1>9. PICK r : r = [at |-> "answer", message |-> n]
  OBVIOUS
<1>10. syncCalls' = [syncCalls EXCEPT ![c] = r] /\ r \in SyncCall /\ r.at = "answer" /\ r.message = n
  <2>1. syncCalls' = [syncCalls EXCEPT ![c] = r]
    BY <1>1, <1>2, <1>9, Zenon DEF Commit
  <2>2. r \in SyncCall
    BY <1>4, <1>9, Zenon DEF SyncCall
  <2> QED BY <1>9, <2>1, <2>2
<1>11. received' = received /\ acknowledged' = acknowledged
       /\ stored' = [stored EXCEPT ![n] = stored[n] + 1]
  BY <1>1, <1>2 DEF Commit
<1>12. PICK b \in {0, 1} : averaged' = [averaged EXCEPT ![n] = averaged[n] + b]
  BY <1>7, <1>8 DEF WriteRows
<1>13. entities' = [entities EXCEPT ![n] = entities[n] + k]
  BY <1>6, <1>8 DEF WriteRows
<1>14. /\ stored' \in [Messages -> Nat] /\ averaged' \in [Messages -> Nat]
       /\ entities' \in [Messages -> Nat]
       /\ stored'[n] = stored[n] + 1 /\ averaged'[n] = averaged[n] + b
       /\ entities'[n] = entities[n] + k
       /\ \A m \in Messages : m # n => /\ stored'[m] = stored[m] /\ averaged'[m] = averaged[m]
                                       /\ entities'[m] = entities[m]
  BY <1>4, <1>7, <1>11, <1>12, <1>13 DEF GraphSyncInv
<1>15. /\ One(q, "merge", n) = 1 /\ One(q, "answer", n) = 0
       /\ One(r, "merge", n) = 0 /\ One(r, "answer", n) = 1
       /\ \A m : m # n => /\ One(q, "merge", m) = 0 /\ One(q, "answer", m) = 0
                          /\ One(r, "merge", m) = 0 /\ One(r, "answer", m) = 0
  BY <1>2, <1>3, <1>10 DEF One
<1>16. ASSUME NEW m \in Messages PROVE MessageOK(m)'
  <2>1. CASE m # n
    <3>1. One(r, "merge", m) <= One(syncCalls[c], "merge", m)
          /\ One(r, "answer", m) <= One(syncCalls[c], "answer", m)
      BY <1>1, <1>15, <2>1
    <3> QED BY <1>10, <1>11, <1>14, <2>1, <3>1, MessageStays, Zenon
  <2>2. CASE m = n
    <3>1. MessageOK(n) /\ syncCalls \in [SyncRequest -> SyncCall]
      BY <1>4, Zenon DEF GraphSyncInv
    <3>2. IsFiniteSet(Underway("merge", n)) /\ IsFiniteSet(Underway("answer", n))
      BY <3>1, Zenon DEF MessageOK
    <3>3. /\ IsFiniteSet(Underway("merge", n)') /\ Cardinality(Underway("merge", n)) \in Nat
          /\ Cardinality(Underway("merge", n)')
              = (Cardinality(Underway("merge", n)) - One(syncCalls[c], "merge", n)) + One(r, "merge", n)
      BY <1>10, <3>1, <3>2, UnderwayStep, Zenon
    <3>4. /\ IsFiniteSet(Underway("answer", n)') /\ Cardinality(Underway("answer", n)) \in Nat
          /\ Cardinality(Underway("answer", n)')
              = (Cardinality(Underway("answer", n)) - One(syncCalls[c], "answer", n)) + One(r, "answer", n)
      BY <1>10, <3>1, <3>2, UnderwayStep, Zenon
    <3>5. /\ received[n] \in Nat /\ stored[n] \in Nat /\ acknowledged[n] \in Nat
          /\ averaged[n] \in Nat
      BY <1>4 DEF GraphSyncInv
    <3>6. /\ stored[n] + Cardinality(Underway("merge", n)) <= received[n]
          /\ acknowledged[n] + Cardinality(Underway("answer", n)) <= stored[n]
          /\ averaged[n] <= stored[n]
          /\ entities[n] = stored[n] * k
      BY <1>6, <3>1, Zenon DEF MessageOK
    <3>7. stored'[n] + Cardinality(Underway("merge", n)') <= received'[n]
      <4>1. One(syncCalls[c], "merge", n) = 1 /\ One(r, "merge", n) = 0 /\ received'[n] = received[n]
        BY <1>1, <1>11, <1>15, Zenon
      <4> QED BY <1>14, <3>3, <3>5, <3>6, <4>1
    <3>8. acknowledged'[n] + Cardinality(Underway("answer", n)') <= stored'[n]
      <4>1. One(syncCalls[c], "answer", n) = 0 /\ One(r, "answer", n) = 1
            /\ acknowledged'[n] = acknowledged[n]
        BY <1>1, <1>11, <1>15, Zenon
      <4> QED BY <1>14, <3>4, <3>5, <3>6, <4>1
    <3>9. averaged'[n] <= stored'[n]
      BY <1>14, <3>5, <3>6
    <3>10. entities'[n] = stored'[n] * k
      BY <1>7, <1>14, <3>5, <3>6, OnceMore, Zenon
    <3>11. ~NamesSomeone(n)
      BY <1>4 DEF Clean
    <3>12. MessageOK(n)'
      BY <1>6, <3>3, <3>4, <3>7, <3>8, <3>9, <3>10, <3>11, Zenon DEF MessageOK
    <3> QED BY <2>2, <3>12, Zenon
  <2> QED BY <2>1, <2>2
<1>17. categories' = StoredFacts'
  <2>1. categories' = StoredFacts \cup FactsOf(n)
    BY <1>7, <1>8, Zenon DEF WriteRows, GraphSyncInv
  <2>2. ASSUME NEW m \in Messages PROVE stored'[m] > 0 <=> (m = n \/ stored[m] > 0)
    <3>1. stored[n] + 1 > 0
      BY <1>4 DEF GraphSyncInv
    <3> QED BY <1>14, <3>1
  <2>3. {m \in Messages : stored'[m] > 0} = {n} \cup {m \in Messages : stored[m] > 0}
    BY <1>4, <2>2
  <2>4. PICK old : old = {m \in Messages : stored[m] > 0}
    OBVIOUS
  <2>5. UNION {FactsOf(m) : m \in {n} \cup old} = (UNION {FactsOf(m) : m \in old}) \cup FactsOf(n)
    BY Zenon
  <2> QED BY <2>1, <2>3, <2>4, <2>5, Zenon DEF StoredFacts
<1>18. syncCalls' \in [SyncRequest -> SyncCall] /\ received' \in [Messages -> Nat]
       /\ acknowledged' \in [Messages -> Nat]
  BY <1>10, <1>11 DEF GraphSyncInv
<1> QED BY <1>14, <1>16, <1>17, <1>18, Zenon DEF GraphSyncInv

\* A device is told, or not, of a message that was stored.
LEMMA SyncAnswers ==
  ASSUME GraphSyncAssumption, GraphSyncInv, NEW c \in SyncRequest, NEW succeeds \in BOOLEAN,
         Answer(c, succeeds)
  PROVE  GraphSyncInv'
<1>1. PICK q : q = syncCalls[c]
  OBVIOUS
<1>2. PICK n : n = q.message
  OBVIOUS
<1>3. q \in SyncCall /\ q.at = "answer"
  BY <1>1, Zenon DEF Answer, GraphSyncInv
<1>4. n \in Messages
  BY <1>2, <1>3, CallSays DEF Clean
<1>5. PICK b \in {0, 1} : acknowledged' = [acknowledged EXCEPT ![n] = acknowledged[n] + b]
  BY <1>1, <1>2 DEF Answer
<1>6. /\ received' = received /\ stored' = stored /\ averaged' = averaged
      /\ entities' = entities /\ categories' = categories
      /\ syncCalls' = [syncCalls EXCEPT ![c] = IdleCall]
  BY DEF Answer, tables
<1>7. IdleCall \in SyncCall
  BY Zenon DEF SyncCall
<1>8. /\ acknowledged' \in [Messages -> Nat] /\ acknowledged'[n] = acknowledged[n] + b
      /\ \A m \in Messages : m # n => acknowledged'[m] = acknowledged[m]
  BY <1>4, <1>5 DEF GraphSyncInv
<1>9. /\ One(q, "merge", n) = 0 /\ One(q, "answer", n) = 1
      /\ \A m : One(IdleCall, "merge", m) = 0 /\ One(IdleCall, "answer", m) = 0
      /\ \A m : m # n => One(q, "merge", m) = 0 /\ One(q, "answer", m) = 0
  BY <1>2, <1>3 DEF One, IdleCall
<1>10. ASSUME NEW m \in Messages PROVE MessageOK(m)'
  <2>1. CASE m # n
    <3>1. One(IdleCall, "merge", m) <= One(syncCalls[c], "merge", m)
          /\ One(IdleCall, "answer", m) <= One(syncCalls[c], "answer", m)
      BY <1>1, <1>9, <2>1
    <3> QED BY <1>6, <1>8, <2>1, <3>1, MessageStays, Zenon
  <2>2. CASE m = n
    <3>1. MessageOK(n) /\ syncCalls \in [SyncRequest -> SyncCall]
      BY <1>4, Zenon DEF GraphSyncInv
    <3>2. IsFiniteSet(Underway("merge", n)) /\ IsFiniteSet(Underway("answer", n))
      BY <3>1, Zenon DEF MessageOK
    <3>3. /\ IsFiniteSet(Underway("merge", n)') /\ Cardinality(Underway("merge", n)) \in Nat
          /\ Cardinality(Underway("merge", n)')
              = (Cardinality(Underway("merge", n)) - One(syncCalls[c], "merge", n))
                  + One(IdleCall, "merge", n)
      BY <1>6, <3>1, <3>2, UnderwayStep, Zenon
    <3>4. /\ IsFiniteSet(Underway("answer", n)') /\ Cardinality(Underway("answer", n)) \in Nat
          /\ Cardinality(Underway("answer", n)')
              = (Cardinality(Underway("answer", n)) - One(syncCalls[c], "answer", n))
                  + One(IdleCall, "answer", n)
      BY <1>6, <3>1, <3>2, UnderwayStep, Zenon
    <3>5. /\ received[n] \in Nat /\ stored[n] \in Nat /\ acknowledged[n] \in Nat
      BY <1>4 DEF GraphSyncInv
    <3>6. /\ stored[n] + Cardinality(Underway("merge", n)) <= received[n]
          /\ acknowledged[n] + Cardinality(Underway("answer", n)) <= stored[n]
          /\ averaged[n] <= stored[n]
          /\ entities[n] = stored[n] * InTable(Statements(n), "entity")
          /\ NamesSomeone(n) => stored[n] = 0
      BY <3>1, Zenon DEF MessageOK
    <3>7. Cardinality(Underway("merge", n)') = Cardinality(Underway("merge", n))
      <4>1. One(syncCalls[c], "merge", n) = 0 /\ One(IdleCall, "merge", n) = 0
        BY <1>1, <1>9, Zenon
      <4> QED BY <3>3, <4>1
    <3>8. acknowledged'[n] + Cardinality(Underway("answer", n)') <= stored[n]
      <4>1. One(syncCalls[c], "answer", n) = 1 /\ One(IdleCall, "answer", n) = 0
        BY <1>1, <1>9, Zenon
      <4> QED BY <1>8, <3>4, <3>5, <3>6, <4>1
    <3>9. MessageOK(n)'
      BY <1>6, <3>3, <3>4, <3>6, <3>7, <3>8, Zenon DEF MessageOK
    <3> QED BY <2>2, <3>9, Zenon
  <2> QED BY <2>1, <2>2
<1>11. categories' = StoredFacts'
  BY <1>6, Zenon DEF GraphSyncInv, StoredFacts
<1>12. syncCalls' \in [SyncRequest -> SyncCall]
  BY <1>6, <1>7 DEF GraphSyncInv
<1>13. /\ received' \in [Messages -> Nat] /\ stored' \in [Messages -> Nat]
       /\ averaged' \in [Messages -> Nat] /\ entities' \in [Messages -> Nat]
  BY <1>6, Zenon DEF GraphSyncInv
<1> QED BY <1>8, <1>10, <1>11, <1>12, <1>13, Zenon DEF GraphSyncInv

\* No message was received before the first one.
LEMMA SyncStarts == ASSUME GraphSyncAssumption, GraphSyncInit PROVE GraphSyncInv
<1>1. \A c \in SyncRequest : syncCalls[c].at = "idle"
  BY DEF GraphSyncInit, IdleCall
<1>2. /\ received = [m \in Messages |-> 0] /\ stored = [m \in Messages |-> 0]
      /\ acknowledged = [m \in Messages |-> 0]
      /\ averaged = [m \in Messages |-> 0] /\ entities = [m \in Messages |-> 0]
  BY Zenon DEF GraphSyncInit
<1>3. /\ received \in [Messages -> Nat] /\ stored \in [Messages -> Nat]
      /\ acknowledged \in [Messages -> Nat]
      /\ averaged \in [Messages -> Nat] /\ entities \in [Messages -> Nat]
  BY <1>2
<1>4. ASSUME NEW m \in Messages PROVE MessageOK(m)
  <2>1. Underway("merge", m) = {} /\ Underway("answer", m) = {}
    BY <1>1 DEF Underway
  <2>2. /\ IsFiniteSet(Underway("merge", m)) /\ IsFiniteSet(Underway("answer", m))
        /\ Cardinality(Underway("merge", m)) = 0 /\ Cardinality(Underway("answer", m)) = 0
    BY <2>1, FS_EmptySet, Zenon
  <2>3. received[m] = 0 /\ stored[m] = 0 /\ acknowledged[m] = 0 /\ averaged[m] = 0 /\ entities[m] = 0
    BY <1>2
  <2>4. InTable(Statements(m), "entity") \in Nat
    BY StatementsOfMessage, Zenon
  <2>5. \A k \in Nat : 0 = 0 * k /\ 0 + 0 <= 0 /\ 0 <= 0
    OBVIOUS
  <2> QED BY <2>2, <2>3, <2>4, <2>5, Zenon DEF MessageOK
<1>5. syncCalls \in [SyncRequest -> SyncCall]
  <2>1. IdleCall \in SyncCall
    BY Zenon DEF SyncCall
  <2> QED BY <2>1 DEF GraphSyncInit
<1>6. categories = StoredFacts
  <2>1. {m \in Messages : stored[m] > 0} = {}
    BY <1>2
  <2>2. StoredFacts = {}
    BY <2>1 DEF StoredFacts
  <2> QED BY <2>2 DEF GraphSyncInit
<1> QED BY <1>3, <1>4, <1>5, <1>6, Zenon DEF GraphSyncInv

\* Every step keeps the invariant; that of cohorts counted elsewhere changes none
\* of what it speaks of.
LEMMA SyncStep == ASSUME GraphSyncAssumption, GraphSyncInv, [GraphSyncNext]_graphSyncVars PROVE GraphSyncInv'
<1>1. CASE /\ averaged' = averaged /\ entities' = entities /\ categories' = categories
           /\ syncCalls' = syncCalls /\ received' = received /\ stored' = stored
           /\ acknowledged' = acknowledged
  BY <1>1, Zenon DEF GraphSyncInv, MessageOK, Underway, StoredFacts
<1>2. ASSUME NEW k \in Cohort, Recount(k) PROVE GraphSyncInv'
  BY <1>1, <1>2, Zenon DEF Recount, tables, history
<1>3. CASE UNCHANGED graphSyncVars
  BY <1>1, <1>3, Zenon DEF graphSyncVars
<1> QED BY <1>2, <1>3, SyncReceives, SyncExecutes, SyncFails, SyncCommits, SyncAnswers, Zenon
        DEF GraphSyncNext

\* The invariant says what the property says.
LEMMA SyncSays == ASSUME GraphSyncAssumption, GraphSyncInv PROVE SyncedWholly
<1>1. ASSUME NEW m \in Messages
      PROVE  /\ entities[m] = stored[m] * InTable(Statements(m), "entity")
             /\ averaged[m] <= stored[m] /\ acknowledged[m] <= stored[m] /\ stored[m] <= received[m]
             /\ NamesSomeone(m) => stored[m] = 0
  <2>1. MessageOK(m)
    BY Zenon DEF GraphSyncInv
  <2>2. received[m] \in Nat /\ stored[m] \in Nat /\ acknowledged[m] \in Nat
    BY DEF GraphSyncInv
  <2>3. Cardinality(Underway("merge", m)) \in Nat /\ Cardinality(Underway("answer", m)) \in Nat
    BY <2>1, FS_CardinalityType, Zenon DEF MessageOK
  <2>4. /\ stored[m] + Cardinality(Underway("merge", m)) <= received[m]
        /\ acknowledged[m] + Cardinality(Underway("answer", m)) <= stored[m]
    BY <2>1, Zenon DEF MessageOK
  <2>5. acknowledged[m] <= stored[m] /\ stored[m] <= received[m]
    BY <2>2, <2>3, <2>4
  <2> QED BY <2>1, <2>5, Zenon DEF MessageOK
<1>2. categories = UNION {{m.fact_deltas[i] : i \in DOMAIN m.fact_deltas} :
                           m \in {n \in Messages : stored[n] > 0}}
  BY Zenon DEF GraphSyncInv, StoredFacts, FactsOf
<1> QED BY <1>1, <1>2, Zenon DEF SyncedWholly

\* The invariant holds.
LEMMA GraphSyncInvAlways ==
  ASSUME GraphSyncAssumption PROVE GraphSyncSpec => []GraphSyncInv
<1>1. GraphSyncInit => GraphSyncInv
  BY SyncStarts
<1>2. GraphSyncInv /\ [GraphSyncNext]_graphSyncVars => GraphSyncInv'
  BY SyncStep
<1> QED BY <1>1, <1>2, PTL DEF GraphSyncSpec

\* A message of a device is in the tables as often as its transaction committed,
\* all of it or nothing, never one that names someone, and what a device is told
\* was applied was (gateway/graph_sync.rs), however requests overlap.
THEOREM SyncedWhollyAlways ==
  ASSUME GraphSyncAssumption PROVE GraphSyncSpec => []SyncedWholly
<1>1. GraphSyncInv => SyncedWholly
  BY SyncSays
<1> QED BY <1>1, GraphSyncInvAlways, PTL

\* gateway/graph_sync.rs: a cohort has one of its sizes, a category comes from a message,
\* and a request merges, answers or is over.
THEOREM GraphSyncTypesAlways ==
  ASSUME GraphSyncAssumption PROVE GraphSyncSpec => []GraphSyncTypeOK
<1> DEFINE Sized == members \in [Cohort -> Sizes]
<1>1. GraphSyncInit => Sized
  BY DEF GraphSyncInit
<1>2. Sized /\ [GraphSyncNext]_graphSyncVars => Sized'
  BY DEF GraphSyncNext, Receive, Execute, Fail, Commit, Answer, Recount, graphSyncVars
<1>3. GraphSyncInv /\ Sized => GraphSyncTypeOK
  <2> SUFFICES ASSUME GraphSyncInv, Sized PROVE GraphSyncTypeOK
    OBVIOUS
  <2>1. StoredFacts \subseteq UNION {FactsOf(m) : m \in Messages}
    BY DEF StoredFacts
  <2>2. categories \subseteq UNION {{m.fact_deltas[i] : i \in DOMAIN m.fact_deltas} : m \in Messages}
    BY <2>1, Zenon DEF GraphSyncInv, FactsOf
  <2>3. ASSUME NEW c \in SyncRequest PROVE syncCalls[c].at \in {"idle", "merge", "answer"}
    <3>1. PICK q \in SyncCall : q = syncCalls[c]
      BY DEF GraphSyncInv
    <3>2. CASE q = IdleCall
      BY <3>1, <3>2 DEF IdleCall
    <3>3. CASE q \in {[at |-> "answer", message |-> m] : m \in Clean}
      BY <3>1, <3>3
    <3>4. CASE q \in UNION {MergeCalls(m) : m \in Clean}
      BY <3>1, <3>4 DEF MergeCalls
    <3> QED BY <3>1, <3>2, <3>3, <3>4 DEF SyncCall
  <2> QED BY <2>2, <2>3 DEF GraphSyncTypeOK
<1> QED BY <1>1, <1>2, <1>3, GraphSyncInvAlways, PTL DEF GraphSyncSpec
=============================================================================
