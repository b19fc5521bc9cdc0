------------------------- MODULE NotifyGroupProofs -------------------------
(***************************************************************************)
(* What the consumer group commits.  The invariant SessionInv says how far *)
(* a session has come: below the record its worker is at (Reached) every   *)
(* record was handled or gave an error, and the mark lies between what is  *)
(* committed and that record.  A handler left over from an earlier session *)
(* is not the owner's, so nothing is said of it and nothing it does counts.*)
(***************************************************************************)
EXTENDS NotifyProofs

Reached(p) ==
    IF Busy(owner[p], p) THEN claim[owner[p]][p].offset ELSE next[p]

SessionBehind(p) ==
    owner[p] # Nil =>
        /\ Busy(owner[p], p) => next[p] = Reached(p) + 1
        /\ \A i \in 1 .. Reached(p) - 1 : Attempted(p, i)
        /\ committed[p] <= marked[p]
        /\ marked[p] < Reached(p)
        /\ marked[p] > 0 => marked[p] \in handled[p]

SessionInv == \A p \in Partitions : SessionBehind(p)

GroupInv == SessionInv /\ CommittedAccounted

-----------------------------------------------------------------------------
(* What a handler did stays done: the records that were attempted and those*)
(* that were handled stay so, and the invariant of a partition is kept by a*)
(* step that leaves the partition's session alone.                         *)
LEMMA SessionKept ==
    ASSUME NEW p \in Partitions, SessionBehind(p),
           handled[p] \subseteq handled'[p],
           errored[p] \subseteq errored'[p],
           UNCHANGED <<owner[p], next[p], marked[p], committed[p], claim[owner[p]][p]>>,
           owner[p] # Nil
    PROVE  SessionBehind(p)'
<1>1. Busy(owner[p], p)' <=> Busy(owner[p], p)
  BY DEF Busy
<1>2. Reached(p)' = Reached(p)
  BY <1>1 DEF Reached
<1>3. QED
  BY <1>1, <1>2 DEF SessionBehind, Attempted

(* Without a session there is nothing to keep.                             *)
LEMMA NoSessionInv ==
    ASSUME EndSessions PROVE SessionInv'
BY DEF EndSessions, SessionInv, SessionBehind

(* The commits stay accounted for when handlers finish and nothing is     *)
(* committed.                                                              *)
LEMMA AccountedKept ==
    ASSUME CommittedAccounted, UNCHANGED committed,
           \A p \in Partitions : handled[p] \subseteq handled'[p] /\ errored[p] \subseteq errored'[p]
    PROVE  CommittedAccounted'
BY DEF CommittedAccounted

(* The records a step adds to the finished ones.                           *)
LEMMA ErroredGrows ==
    ASSUME WorkerTypeOK, NEW p \in Partitions, NEW i,
           errored' = [errored EXCEPT ![p] = errored[p] \cup {i}]
    PROVE  /\ \A r \in Partitions : errored[r] \subseteq errored'[r]
           /\ i \in errored'[p]
BY DEF WorkerTypeOK, ProgressTypeOK

(* And to the handled ones. *)
LEMMA HandledGrows ==
    ASSUME WorkerTypeOK, NEW p \in Partitions, NEW i,
           handled' = [handled EXCEPT ![p] = handled[p] \cup {i}]
    PROVE  /\ \A r \in Partitions : handled[r] \subseteq handled'[r]
           /\ i \in handled'[p]
BY DEF WorkerTypeOK, ProgressTypeOK

-----------------------------------------------------------------------------
(* The handler of w on p stops with an error or its record is marked:      *)
(* no session but that of p can be disturbed, and only if it is w's.       *)
LEMMA LeaveKeepsOthers ==
    ASSUME WorkerTypeOK, SessionInv, NEW w \in Workers, NEW p \in Partitions,
           NEW k, claim' = [claim EXCEPT ![w][p] = k],
           \A r \in Partitions : handled[r] \subseteq handled'[r] /\ errored[r] \subseteq errored'[r],
           NEW r \in Partitions, r # p \/ owner[r] # w,
           UNCHANGED <<owner, next[r], marked[r], committed[r]>>
    PROVE  SessionBehind(r)'
<1>1. CASE owner[r] = Nil
  BY <1>1 DEF SessionBehind
<1>2. CASE owner[r] # Nil
  <2>1. owner[r] \in Workers
    BY <1>2 DEF WorkerTypeOK, SessionTypeOK
  <2>2. claim'[owner[r]][r] = claim[owner[r]][r]
    BY <2>1 DEF WorkerTypeOK, ClaimTypeOK
  <2>3. SessionBehind(r)
    BY DEF SessionInv
  <2>4. QED
    BY <1>2, <2>2, <2>3, SessionKept
<1>3. QED
  BY <1>1, <1>2

(* A handler moves on to its next step, on the same record.                *)
LEMMA GotoKeeps ==
    ASSUME WorkerTypeOK, SessionInv, NEW w \in Workers, NEW p \in Partitions, Busy(w, p),
           NEW k, claim' = [claim EXCEPT ![w][p] = k], k.pc # "idle", k.offset = claim[w][p].offset,
           UNCHANGED <<sessionVars, committed, handled, errored>>
    PROVE  SessionInv'
<1>1. SUFFICES ASSUME NEW r \in Partitions PROVE SessionBehind(r)'
  BY DEF SessionInv
<1>2. UNCHANGED <<owner, next, marked>>
  BY DEF sessionVars
<1>3. CASE r # p \/ owner[r] # w
  BY <1>2, <1>3, LeaveKeepsOthers
<1>4. CASE r = p /\ owner[r] = w
  <2>1. claim'[w][p] = k
    BY DEF WorkerTypeOK, ClaimTypeOK
  <2>2. Busy(owner[p], p) /\ Busy(owner[p], p)'
    BY <1>2, <1>4, <2>1 DEF Busy
  <2>3. Reached(p)' = Reached(p)
    BY <1>2, <1>4, <2>1, <2>2 DEF Reached
  <2>4. SessionBehind(p)
    BY DEF SessionInv
  <2>5. QED
    BY <1>2, <1>4, <2>2, <2>3, <2>4 DEF SessionBehind, Attempted
<1>5. QED
  BY <1>3, <1>4

(* A handler returns an error: its record counts as attempted, and the     *)
(* session of its partition goes on behind it.                             *)
LEMMA ErrorKeeps ==
    ASSUME WorkerTypeOK, SessionInv, NEW w \in Workers, NEW p \in Partitions, Busy(w, p),
           HandlerError(w, p), UNCHANGED <<committed, handled>>
    PROVE  /\ SessionInv'
           /\ \A r \in Partitions : errored[r] \subseteq errored'[r]
<1> DEFINE o == claim[w][p].offset
<1>1. /\ claim' = [claim EXCEPT ![w][p] = NoClaim]
      /\ errored' = [errored EXCEPT ![p] = errored[p] \cup {o}]
      /\ UNCHANGED <<owner, next, marked>>
  BY DEF HandlerError, Leave, sessionVars
<1>2. /\ \A r \in Partitions : errored[r] \subseteq errored'[r]
      /\ o \in errored'[p]
  BY <1>1, ErroredGrows
<1>3. SUFFICES ASSUME NEW r \in Partitions PROVE SessionBehind(r)'
  BY <1>2 DEF SessionInv
<1>4. CASE r # p \/ owner[r] # w
  BY <1>1, <1>2, <1>4, LeaveKeepsOthers
<1>5. CASE r = p /\ owner[r] = w
  <2>1. claim'[w][p] = NoClaim
    BY <1>1 DEF WorkerTypeOK, ClaimTypeOK
  <2>2. Busy(owner[p], p) /\ ~Busy(owner[p], p)'
    BY <1>1, <1>5, <2>1 DEF Busy, NoClaim
  <2>3. Reached(p) = o /\ Reached(p)' = next[p]
    BY <1>1, <1>5, <2>2 DEF Reached
  <2>4. SessionBehind(p) /\ owner[p] # Nil /\ next[p] \in Nat /\ marked[p] \in Nat
    BY <1>5, WorkerAssumption DEF SessionInv, WorkerTypeOK, SessionTypeOK
  <2>5. next[p] = o + 1 /\ marked[p] < o /\ o \in Nat
    <3>1. next[p] = o + 1 /\ marked[p] < o
      BY <2>2, <2>3, <2>4 DEF SessionBehind
    <3>2. claim[w][p] \in Claim
      BY DEF WorkerTypeOK, ClaimTypeOK
    <3>3. QED
      BY <3>1, <3>2 DEF Claim
  <2>6. ASSUME NEW i \in 1 .. Reached(p)' - 1 PROVE Attempted(p, i)'
    <3>1. i \in 1 .. o - 1 \/ i = o
      BY <2>3, <2>5
    <3>2. CASE i = o
      BY <1>2, <3>2 DEF Attempted
    <3>3. CASE i \in 1 .. o - 1
      <4>1. Attempted(p, i)
        BY <2>3, <2>4, <3>3 DEF SessionBehind
      <4>2. QED
        BY <1>2, <4>1 DEF Attempted
    <3>4. QED
      BY <3>1, <3>2, <3>3
  <2>7. marked[p] < Reached(p)'
    BY <2>3, <2>4, <2>5
  <2>8. QED
    BY <1>1, <1>5, <2>2, <2>4, <2>6, <2>7 DEF SessionBehind
<1>6. QED
  BY <1>4, <1>5

(* A worker is given a partition: it has no handler left on it, and starts *)
(* behind the committed offset.                                            *)
LEMMA AssignKeeps ==
    ASSUME WorkerTypeOK, GroupInv, NEW w \in Workers, NEW p \in Partitions, Assign(w, p)
    PROVE  SessionInv'
<1>1. /\ owner' = [owner EXCEPT ![p] = w]
      /\ next' = [next EXCEPT ![p] = committed[p] + 1]
      /\ marked' = [marked EXCEPT ![p] = committed[p]]
      /\ UNCHANGED <<committed, claim, handled, errored>>
  BY DEF Assign, StartOffset
<1>2. SUFFICES ASSUME NEW r \in Partitions PROVE SessionBehind(r)'
  BY DEF SessionInv
<1>3. CASE r # p
  <2>1. owner'[r] = owner[r] /\ next'[r] = next[r] /\ marked'[r] = marked[r]
    BY <1>1, <1>3 DEF WorkerTypeOK, SessionTypeOK
  <2>2. CASE owner[r] = Nil
    BY <2>1, <2>2 DEF SessionBehind
  <2>3. CASE owner[r] # Nil
    <3>1. SessionBehind(r)
      BY DEF GroupInv, SessionInv
    <3>2. QED
      BY <1>1, <2>1, <2>3, <3>1, SessionKept
  <2>4. QED
    BY <2>2, <2>3
<1>4. CASE r = p
  <2>1. owner'[p] = w /\ next'[p] = committed[p] + 1 /\ marked'[p] = committed[p]
    BY <1>1 DEF WorkerTypeOK, SessionTypeOK
  <2>2. ~Busy(w, p)
    BY WorkerAssumption DEF Assign, Rejoined
  <2>3. ~Busy(owner[p], p)' /\ Reached(p)' = committed[p] + 1
    BY <1>1, <2>1, <2>2 DEF Busy, Reached
  <2>4. committed[p] \in Nat
    BY DEF WorkerTypeOK, ProgressTypeOK
  <2>5. \A i \in 1 .. committed[p] : Attempted(p, i)'
    BY <1>1 DEF GroupInv, CommittedAccounted, Attempted
  <2>6. committed[p] > 0 => committed[p] \in handled[p]
    BY DEF GroupInv, CommittedAccounted
  <2>7. Reached(p)' - 1 = committed[p]
    BY <2>3, <2>4
  <2>8. QED
    BY <1>1, <1>4, <2>1, <2>3, <2>4, <2>5, <2>6, <2>7 DEF SessionBehind
<1>5. QED
  BY <1>3, <1>4

(* The owner takes its next record. *)
LEMMA FetchKeeps ==
    ASSUME WorkerTypeOK, SessionInv, NEW w \in Workers, NEW p \in Partitions, Fetch(w, p)
    PROVE  SessionInv'
<1> DEFINE k == [NoClaim EXCEPT !.pc = "found", !.offset = next[p]]
<1>1. /\ owner[p] = w
      /\ ~Busy(w, p)
      /\ claim' = [claim EXCEPT ![w][p] = k]
      /\ next' = [next EXCEPT ![p] = next[p] + 1]
      /\ UNCHANGED <<owner, marked, committed, handled, errored>>
  BY DEF Fetch, Advance
<1>2. SUFFICES ASSUME NEW r \in Partitions PROVE SessionBehind(r)'
  BY DEF SessionInv
<1>3. CASE r # p
  <2>1. next'[r] = next[r]
    BY <1>1, <1>3 DEF WorkerTypeOK, SessionTypeOK
  <2>2. QED
    BY <1>1, <1>3, <2>1, LeaveKeepsOthers
<1>4. CASE r = p
  <2>1. claim'[w][p] = k /\ next'[p] = next[p] + 1
    BY <1>1 DEF WorkerTypeOK, ClaimTypeOK, SessionTypeOK
  <2>2. k.pc = "found" /\ k.offset = next[p]
    BY DEF NoClaim
  <2>3. Busy(owner[p], p)' /\ Reached(p)' = next[p]
    BY <1>1, <2>1, <2>2 DEF Busy, Reached
  <2>4. SessionBehind(p) /\ Reached(p) = next[p]
    BY <1>1 DEF SessionInv, Reached
  <2>5. QED
    BY <1>1, <1>4, <2>1, <2>3, <2>4 DEF SessionBehind, Attempted
<1>5. QED
  BY <1>3, <1>4

(* The owner gives up on its next record: the query for it gave an error.  *)
LEMMA FetchErrorKeeps ==
    ASSUME WorkerTypeOK, SessionInv, NEW w \in Workers, NEW p \in Partitions,
           owner[p] = w, ~Busy(w, p), Advance(p),
           errored' = [errored EXCEPT ![p] = errored[p] \cup {next[p]}],
           UNCHANGED <<committed, claim, handled>>
    PROVE  SessionInv'
<1>1. next' = [next EXCEPT ![p] = next[p] + 1] /\ UNCHANGED <<owner, marked>>
  BY DEF Advance
<1>2. /\ \A r \in Partitions : errored[r] \subseteq errored'[r]
      /\ next[p] \in errored'[p]
  BY ErroredGrows
<1>3. SUFFICES ASSUME NEW r \in Partitions PROVE SessionBehind(r)'
  BY DEF SessionInv
<1>4. SessionBehind(r)
  BY DEF SessionInv
<1>5. CASE owner[r] = Nil
  BY <1>1, <1>5 DEF SessionBehind
<1>6. CASE owner[r] # Nil /\ r # p
  <2>1. next'[r] = next[r]
    BY <1>1, <1>6 DEF WorkerTypeOK, SessionTypeOK
  <2>2. QED
    BY <1>1, <1>2, <1>4, <1>6, <2>1, SessionKept
<1>7. CASE owner[r] # Nil /\ r = p
  <2>1. next'[p] = next[p] + 1 /\ next[p] \in Nat /\ marked[p] \in Nat
    BY <1>1 DEF WorkerTypeOK, SessionTypeOK
  <2>2. ~Busy(owner[p], p) /\ ~Busy(owner[p], p)'
    BY <1>1 DEF Busy
  <2>3. Reached(p) = next[p] /\ Reached(p)' = next[p] + 1
    BY <2>1, <2>2 DEF Reached
  <2>4. ASSUME NEW i \in 1 .. Reached(p)' - 1 PROVE Attempted(p, i)'
    <3>1. i \in 1 .. next[p] - 1 \/ i = next[p]
      BY <2>1, <2>3
    <3>2. CASE i = next[p]
      BY <1>2, <3>2 DEF Attempted
    <3>3. CASE i \in 1 .. next[p] - 1
      <4>1. Attempted(p, i)
        BY <1>4, <1>7, <2>3, <3>3 DEF SessionBehind
      <4>2. QED
        BY <1>2, <4>1 DEF Attempted
    <3>4. QED
      BY <3>1, <3>2, <3>3
  <2>5. marked[p] < Reached(p)'
    BY <1>4, <1>7, <2>1, <2>3 DEF SessionBehind
  <2>6. QED
    BY <1>1, <1>4, <1>7, <2>2, <2>4, <2>5 DEF SessionBehind
<1>8. QED
  BY <1>5, <1>6, <1>7

(* A record was handled.  Its worker commits only for partitions it owns,  *)
(* where its marks are behind what was attempted.                          *)
LEMMA MarksAccounted ==
    ASSUME WorkerTypeOK, SessionInv, NEW w \in Workers, NEW p \in Partitions, Busy(w, p),
           NEW r \in Partitions, InSession(w, r)
    PROVE  /\ Marks(w, p)[r] \in Nat
           /\ Marks(w, p)[r] >= committed[r]
           /\ Marks(w, p)[r] = IF r = p THEN Reached(p) ELSE marked[r]
           /\ Marks(w, p)[r] <= Reached(r)
           /\ r # p => /\ Marks(w, p)[r] < Reached(r)
                       /\ Marks(w, p)[r] > 0 => Marks(w, p)[r] \in handled[r]
<1>1. SessionBehind(r) /\ owner[r] = w /\ owner[r] # Nil
  BY WorkerAssumption DEF SessionInv, InSession
<1>2. marked[r] \in Nat /\ committed[r] \in Nat /\ next[r] \in Nat
  BY DEF WorkerTypeOK, SessionTypeOK, ProgressTypeOK
<1>3. claim[w][p].offset \in Nat
  <2>1. claim[w][p] \in Claim
    BY DEF WorkerTypeOK, ClaimTypeOK
  <2>2. QED
    BY <2>1 DEF Claim
<1>4. Marks(w, p)[r] = IF r = p THEN claim[w][p].offset ELSE marked[r]
  BY DEF Marks
<1>5. r = p => Reached(p) = claim[w][p].offset
  BY <1>1 DEF Reached
<1>6. /\ committed[r] <= marked[r] /\ marked[r] < Reached(r)
      /\ marked[r] > 0 => marked[r] \in handled[r]
  BY <1>1 DEF SessionBehind
<1>7. CASE r = p
  BY <1>2, <1>3, <1>4, <1>5, <1>6, <1>7
<1>8. CASE r # p
  <2>1. Marks(w, p)[r] = marked[r]
    BY <1>4, <1>8
  <2>2. Reached(r) \in Nat
    <3>1. CASE Busy(w, r)
      <4>1. claim[w][r] \in Claim
        BY DEF WorkerTypeOK, ClaimTypeOK
      <4>2. QED
        BY <1>1, <3>1, <4>1 DEF Reached, Claim
    <3>2. CASE ~Busy(w, r)
      BY <1>1, <1>2, <3>2 DEF Reached
    <3>3. QED
      BY <3>1, <3>2
  <2>3. QED
    BY <1>2, <1>6, <1>8, <2>1, <2>2
<1>9. QED
  BY <1>7, <1>8

(* A handled record is marked, and every mark of the session committed.    *)
LEMMA MarkKeeps ==
    ASSUME WorkerTypeOK, GroupInv, NEW w \in Workers, NEW p \in Partitions, MarkAndCommit(w, p)
    PROVE  GroupInv' /\ \A r \in Partitions : committed'[r] >= committed[r]
<1> DEFINE o == claim[w][p].offset
<1>1. /\ Busy(w, p)
      /\ handled' = [handled EXCEPT ![p] = handled[p] \cup {o}]
      /\ claim' = [claim EXCEPT ![w][p] = NoClaim]
      /\ UNCHANGED <<owner, next, errored>>
  BY DEF MarkAndCommit, Busy, Leave, sessionVars
<1>2. /\ \A r \in Partitions : handled[r] \subseteq handled'[r]
      /\ o \in handled'[p]
  BY <1>1, HandledGrows
<1>3. \A r \in Partitions : marked[r] \in Nat /\ committed[r] \in Nat /\ next[r] \in Nat
  BY DEF WorkerTypeOK, SessionTypeOK, ProgressTypeOK
<1>4. o \in Nat
  <2>1. claim[w][p] \in Claim
    BY DEF WorkerTypeOK, ClaimTypeOK
  <2>2. QED
    BY <2>1 DEF Claim
<1>5. CASE InSession(w, p)
  <2>1. /\ marked' = [marked EXCEPT ![p] = o]
        /\ committed' = Marks(w, p) \/ UNCHANGED committed
    BY <1>5 DEF MarkAndCommit
  <2>2. marked'[p] = o /\ \A r \in Partitions : r # p => marked'[r] = marked[r]
    BY <2>1 DEF WorkerTypeOK, SessionTypeOK
  <2>3. ASSUME NEW r \in Partitions
        PROVE  \/ committed'[r] = committed[r]
               \/ InSession(w, r) /\ committed'[r] = Marks(w, p)[r]
    BY <2>1 DEF Marks
  <2>4. ASSUME NEW r \in Partitions
        PROVE  committed'[r] >= committed[r] /\ committed'[r] \in Nat
    BY <1>1, <1>3, <2>3, MarksAccounted DEF GroupInv
  <2>5. \A r \in Partitions : SessionBehind(r)
    BY DEF GroupInv, SessionInv
  <2>6. SessionBehind(p) /\ owner[p] = w /\ owner[p] # Nil /\ Reached(p) = o
    BY <1>1, <1>5, <2>5, WorkerAssumption DEF InSession, Reached
  <2>7. next[p] = o + 1 /\ \A i \in 1 .. o - 1 : Attempted(p, i)
    BY <1>1, <2>6 DEF SessionBehind
  <2>8. \A i \in 1 .. o : Attempted(p, i)'
    <3>1. TAKE i \in 1 .. o
    <3>2. CASE i = o
      BY <1>2, <3>2 DEF Attempted
    <3>3. CASE i # o
      <4>1. i \in 1 .. o - 1
        BY <1>4, <3>3
      <4>2. QED
        BY <1>1, <1>2, <2>7, <4>1 DEF Attempted
    <3>4. QED
      BY <3>2, <3>3
  <2>9. ASSUME NEW r \in Partitions
        PROVE  /\ \A i \in 1 .. committed'[r] : i \in handled'[r] \cup errored'[r]
               /\ committed'[r] > 0 => committed'[r] \in handled'[r]
    <3>1. CASE committed'[r] = committed[r]
      BY <1>1, <1>2, <3>1 DEF GroupInv, CommittedAccounted
    <3>2. CASE r = p /\ committed'[r] = Marks(w, p)[r] /\ InSession(w, r)
      <4>1. committed'[p] = o
        BY <3>2 DEF Marks
      <4>2. QED
        BY <1>2, <2>8, <3>2, <4>1 DEF Attempted
    <3>3. CASE r # p /\ committed'[r] = Marks(w, p)[r] /\ InSession(w, r)
      <4>1. committed'[r] = marked[r] /\ owner[r] = w /\ owner[r] # Nil
        BY <3>3, WorkerAssumption DEF Marks, InSession
      <4>2. /\ \A i \in 1 .. Reached(r) - 1 : Attempted(r, i)
            /\ marked[r] < Reached(r)
            /\ marked[r] > 0 => marked[r] \in handled[r]
        BY <2>5, <4>1 DEF SessionBehind
      <4>3. Reached(r) \in Nat
        <5>1. claim[w][r] \in Claim
          BY DEF WorkerTypeOK, ClaimTypeOK
        <5>2. QED
          BY <1>3, <4>1, <5>1 DEF Reached, Claim
      <4>4. \A i \in 1 .. marked[r] : i \in 1 .. Reached(r) - 1
        BY <1>3, <4>2, <4>3
      <4>5. QED
        BY <1>1, <1>2, <4>1, <4>2, <4>4 DEF Attempted
    <3>4. QED
      BY <2>3, <3>1, <3>2, <3>3
  <2>10. ASSUME NEW r \in Partitions PROVE SessionBehind(r)'
    <3>1. CASE r = p
      <4>1. ~Busy(owner[p], p)' /\ Reached(p)' = o + 1
        <5>1. claim'[w][p] = NoClaim
          BY <1>1 DEF WorkerTypeOK, ClaimTypeOK
        <5>2. ~Busy(owner[p], p)'
          BY <1>1, <2>6, <5>1 DEF Busy, NoClaim
        <5>3. QED
          BY <1>1, <2>7, <5>2 DEF Reached
      <4>2. committed'[p] <= o
        <5>1. committed[p] <= o
          BY <1>3, <1>4, <2>6 DEF SessionBehind
        <5>2. Marks(w, p)[p] = o
          BY <1>5 DEF Marks
        <5>3. committed'[p] = committed[p] \/ committed'[p] = o
          BY <2>3, <5>2
        <5>4. QED
          BY <1>4, <5>1, <5>3
      <4>3. Reached(p)' - 1 = o /\ o < Reached(p)'
        BY <1>4, <4>1
      <4>4. QED
        BY <1>2, <2>2, <2>8, <3>1, <4>1, <4>2, <4>3 DEF SessionBehind
    <3>2. CASE r # p /\ owner[r] = Nil
      BY <1>1, <3>2 DEF SessionBehind
    <3>3. CASE r # p /\ owner[r] # Nil
      <4>1. claim'[owner[r]][r] = claim[owner[r]][r]
        BY <1>1, <3>3 DEF WorkerTypeOK, ClaimTypeOK, SessionTypeOK
      <4>2. Reached(r)' = Reached(r) /\ (Busy(owner[r], r)' <=> Busy(owner[r], r))
        BY <1>1, <4>1 DEF Reached, Busy
      <4>3. committed'[r] <= marked[r]
        <5>1. committed[r] <= marked[r]
          BY <2>5, <3>3 DEF SessionBehind
        <5>2. QED
          BY <1>3, <2>3, <3>3, <5>1 DEF Marks
      <4>4. SessionBehind(r)
        BY <2>5
      <4>5. QED
        BY <1>1, <1>2, <2>2, <3>3, <4>2, <4>3, <4>4 DEF SessionBehind, Attempted
    <3>4. QED
      BY <3>1, <3>2, <3>3
  <2>11. QED
    BY <2>4, <2>9, <2>10 DEF GroupInv, SessionInv, CommittedAccounted
<1>6. CASE ~InSession(w, p)
  <2>1. UNCHANGED <<committed, marked>>
    BY <1>6 DEF MarkAndCommit, sessionVars
  <2>2. CommittedAccounted'
    BY <1>1, <1>2, <2>1, AccountedKept DEF GroupInv
  <2>3. ASSUME NEW r \in Partitions PROVE SessionBehind(r)'
    <3>1. r # p \/ owner[r] # w
      BY <1>6 DEF InSession
    <3>2. QED
      BY <1>1, <1>2, <2>1, <3>1, LeaveKeepsOthers DEF GroupInv
  <2>4. QED
    BY <1>3, <2>1, <2>2, <2>3 DEF GroupInv, SessionInv
<1>7. QED
  BY <1>5, <1>6

-----------------------------------------------------------------------------
(* Every step keeps the invariant, and none moves a commit back.           *)
LEMMA GroupStep ==
    ASSUME TypeOK, GroupInv, [Next]_vars
    PROVE  GroupInv' /\ \A p \in Partitions : committed'[p] >= committed[p]
<1>1. WorkerTypeOK /\ SessionInv /\ CommittedAccounted
  BY DEF TypeOK, GroupInv
<1>2. \A p \in Partitions : committed[p] \in Nat
  BY <1>1 DEF WorkerTypeOK, ProgressTypeOK
<1>3. CASE UNCHANGED workerVars
  <2>1. UNCHANGED <<owner, next, marked, committed, claim, handled, errored>>
    BY <1>3 DEF workerVars, sessionVars
  <2>2. QED
    BY <1>1, <1>2, <2>1
       DEF GroupInv, SessionInv, SessionBehind, Reached, Busy, Attempted, CommittedAccounted
<1>4. ASSUME SessionInv', UNCHANGED <<committed, handled>>,
             \A p \in Partitions : errored[p] \subseteq errored'[p]
      PROVE  GroupInv' /\ \A p \in Partitions : committed'[p] >= committed[p]
  BY <1>1, <1>2, <1>4, AccountedKept DEF GroupInv
<1>5. CASE Rebalance
  BY <1>4, <1>5, NoSessionInv DEF Rebalance
<1>6. ASSUME NEW w \in Workers, CrashWorker(w) \/ \E p \in Partitions : FetchNothing(w, p)
      PROVE  GroupInv' /\ \A p \in Partitions : committed'[p] >= committed[p]
  BY <1>4, <1>6, NoSessionInv DEF CrashWorker, FetchNothing, Die
<1>7. ASSUME NEW w \in Workers, NEW p \in Partitions, Assign(w, p)
      PROVE  GroupInv' /\ \A r \in Partitions : committed'[r] >= committed[r]
  <2>1. SessionInv'
    BY <1>1, <1>7, AssignKeeps
  <2>2. QED
    BY <1>4, <1>7, <2>1 DEF Assign
<1>8. ASSUME NEW w \in Workers, NEW p \in Partitions, Fetch(w, p)
      PROVE  GroupInv' /\ \A r \in Partitions : committed'[r] >= committed[r]
  <2>1. SessionInv'
    BY <1>1, <1>8, FetchKeeps
  <2>2. QED
    BY <1>4, <1>8, <2>1 DEF Fetch
<1>9. ASSUME NEW w \in Workers, NEW p \in Partitions, FetchError(w, p)
      PROVE  GroupInv' /\ \A r \in Partitions : committed'[r] >= committed[r]
  <2>1. CASE Die(w) /\ UNCHANGED errored
    BY <1>4, <1>9, <2>1, NoSessionInv DEF FetchError, Die
  <2>2. CASE /\ errored' = [errored EXCEPT ![p] = errored[p] \cup {next[p]}]
             /\ Advance(p)
             /\ UNCHANGED claim
    <3>1. owner[p] = w /\ ~Busy(w, p) /\ UNCHANGED <<committed, handled>>
      BY <1>9 DEF FetchError
    <3>2. SessionInv'
      BY <1>1, <2>2, <3>1, FetchErrorKeeps
    <3>3. \A r \in Partitions : errored[r] \subseteq errored'[r]
      BY <1>1, <2>2, ErroredGrows
    <3>4. QED
      BY <1>4, <3>1, <3>2, <3>3
  <2>3. QED
    BY <1>9, <2>1, <2>2 DEF FetchError
<1>10. ASSUME NEW w \in Workers, NEW p \in Partitions, Busy(w, p), HandlerError(w, p),
              UNCHANGED <<committed, handled>>
       PROVE  GroupInv' /\ \A r \in Partitions : committed'[r] >= committed[r]
  BY <1>1, <1>4, <1>10, ErrorKeeps
<1>11. ASSUME NEW w \in Workers, NEW p \in Partitions, Busy(w, p), NEW k,
              claim' = [claim EXCEPT ![w][p] = k], k.pc # "idle", k.offset = claim[w][p].offset,
              UNCHANGED <<sessionVars, committed, handled, errored>>
       PROVE  GroupInv' /\ \A r \in Partitions : committed'[r] >= committed[r]
  BY <1>1, <1>4, <1>11, GotoKeeps
<1>12. ASSUME NEW w \in Workers, NEW p \in Partitions
       PROVE  /\ claim[w][p] \in Claim
              /\ claim \in [Workers -> [Partitions -> Claim]]
  BY <1>1 DEF WorkerTypeOK, ClaimTypeOK
<1>13. ASSUME NEW w \in Workers, NEW p \in Partitions, NEW label \in {"sending", "handled"},
              Busy(w, p), Goto(w, p, label),
              UNCHANGED <<sessionVars, committed, handled, errored>>
       PROVE  GroupInv' /\ \A r \in Partitions : committed'[r] >= committed[r]
  <2> DEFINE k == [claim[w][p] EXCEPT !.pc = label]
  <2>1. claim' = [claim EXCEPT ![w][p] = k]
    BY <1>12, <1>13 DEF Goto
  <2>2. k.pc # "idle" /\ k.offset = claim[w][p].offset
    BY <1>12 DEF Claim
  <2>3. QED
    BY <1>11, <1>13, <2>1, <2>2
<1>14. ASSUME NEW w \in Workers, NEW p \in Partitions, Preload(w, p)
       PROVE  GroupInv' /\ \A r \in Partitions : committed'[r] >= committed[r]
  <2> DEFINE T == {t \in TargetsOf({Claimed(w, p)}) : Visible(targets[t])}
             k == [claim[w][p] EXCEPT !.pc = "loaded", !.loaded = T]
  <2>1. claim' = [claim EXCEPT ![w][p] = k]
    BY <1>12, <1>14 DEF Preload
  <2>2. k.pc # "idle" /\ k.offset = claim[w][p].offset
    BY <1>12 DEF Claim
  <2>3. QED
    BY <1>11, <1>14, <2>1, <2>2 DEF Preload, Busy
<1>15. ASSUME NEW w \in Workers, NEW p \in Partitions, UpdateProcessingStatus(w, p)
       PROVE  GroupInv' /\ \A r \in Partitions : committed'[r] >= committed[r]
  <2>1. Busy(w, p) /\ UNCHANGED <<committed, handled>>
    BY <1>15 DEF UpdateProcessingStatus, Busy
  <2>2. CASE Goto(w, p, "sending") /\ UNCHANGED <<sessionVars, errored>>
    BY <1>13, <2>1, <2>2
  <2>3. CASE HandlerError(w, p)
    BY <1>10, <2>1, <2>3
  <2>4. CASE Die(w) /\ UNCHANGED errored
    BY <1>4, <2>1, <2>4, NoSessionInv DEF Die
  <2>5. QED
    BY <1>15, <2>2, <2>3, <2>4 DEF UpdateProcessingStatus, DbError
<1>16. ASSUME NEW w \in Workers, NEW p \in Partitions, NEW answers, CallProvider(w, p, answers)
       PROVE  GroupInv' /\ \A r \in Partitions : committed'[r] >= committed[r]
  <2>1. PICK a \in answers :
          claim' = [claim EXCEPT ![w][p] = [claim[w][p] EXCEPT !.pc = "answered", !.answer = a]]
    BY <1>12, <1>16 DEF CallProvider
  <2> DEFINE k == [claim[w][p] EXCEPT !.pc = "answered", !.answer = a]
  <2>2. k.pc # "idle" /\ k.offset = claim[w][p].offset
    BY <1>12 DEF Claim
  <2>3. QED
    BY <1>11, <1>16, <2>1, <2>2 DEF CallProvider, Busy
<1>17. ASSUME NEW w \in Workers, NEW p \in Partitions, HandleSendResult(w, p)
       PROVE  GroupInv' /\ \A r \in Partitions : committed'[r] >= committed[r]
  <2>1. Busy(w, p) /\ UNCHANGED <<committed, handled>>
    BY <1>17 DEF HandleSendResult, Busy
  <2>2. CASE Goto(w, p, "handled") /\ UNCHANGED <<sessionVars, errored>>
    BY <1>13, <2>1, <2>2
  <2>3. CASE HandlerError(w, p)
    BY <1>10, <2>1, <2>3
  <2>4. QED
    BY <1>17, <2>2, <2>3 DEF HandleSendResult
<1>18. ASSUME NEW w \in Workers, NEW p \in Partitions, MarkAndCommit(w, p)
       PROVE  GroupInv' /\ \A r \in Partitions : committed'[r] >= committed[r]
  BY <1>1, <1>18, MarkKeeps
<1>19. QED
  BY <1>3, <1>5, <1>6, <1>7, <1>8, <1>9, <1>14, <1>15, <1>16, <1>17, <1>18
     DEF Next, vars, WorkerNext, Handle, SendSms, SendEmail

(* GroupInv holds at the start, where nobody owns a partition.             *)
LEMMA GroupStart == Init => GroupInv
BY DEF Init, WorkerInit, GroupInv, SessionInv, SessionBehind, CommittedAccounted

(* GroupInv is an invariant. *)
LEMMA GroupInvariant == Spec => []GroupInv
<1>1. TypeOK /\ GroupInv /\ [Next]_vars => GroupInv'
  BY GroupStep
<1>2. QED
  BY <1>1, GroupStart, TypeCorrect, PTL DEF Spec

(* CommittedAccounted: the group's offset covers only records that some    *)
(* handler finished with, in ConsumeClaim of consumer.go.                  *)
THEOREM CommitsAreAccounted == Spec => []CommittedAccounted
<1>1. GroupInv => CommittedAccounted
  BY DEF GroupInv
<1>2. QED
  BY <1>1, GroupInvariant, PTL

(* CommitNeverMovesBack: no commit of a worker, not even one whose session *)
(* was taken from it, lowers the group's offset.                           *)
THEOREM CommitsMoveForward == Spec => CommitNeverMovesBack
<1>1. TypeOK /\ GroupInv /\ [Next]_vars
        => [\A p \in Partitions : committed'[p] >= committed[p]]_vars
  BY GroupStep
<1>2. QED
  BY <1>1, TypeCorrect, GroupInvariant, PTL DEF Spec, CommitNeverMovesBack
=============================================================================
