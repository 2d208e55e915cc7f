----------------------------- MODULE DomainProofs -----------------------------
(***************************************************************************)
(* What is proved of four of the business engines, for any subjects,       *)
(* pages, entries, events, notices, positions, messages and rules: the     *)
(* exception cases, the custody feed, the election chain and the           *)
(* withholding tax.  The engines that sum or fold are in ReckoningProofs.  *)
(***************************************************************************)
EXTENDS ExceptionCases, Custody, Election, TaxEvents,
        SequenceTheorems, FiniteSetTheorems, FunctionTheorems, TLAPS

-----------------------------------------------------------------------------
(***************************************************************************)
(* Exception cases.  The trail tells the case because every entry is added *)
(* together with the field it explains; the invariant follows the last     *)
(* entry of each kind through the operators that append.                   *)
(***************************************************************************)
SightTypes == {"CREATED", "REOBSERVED", "NOT_OBSERVED"}
MoveTypes == {"CREATED", "REOPENED", "TRANSITION"}

IsLast(h, types, n) ==
  /\ n \in DOMAIN h /\ h[n].type \in types
  /\ \A m \in DOMAIN h : h[m].type \in types => m <= n

\* The first entry creates the case, no other does.
Begun(h) == Len(h) > 0 /\ \A n \in DOMAIN h : h[n].type = "CREATED" <=> n = 1
Sighted(h, seen) == \E n \in Nat : IsLast(h, SightTypes, n) /\ seen = (h[n].type # "NOT_OBSERVED")
StatusMoved(h, at) == \E n \in Nat : IsLast(h, MoveTypes, n) /\ at = h[n].to

\* A case and what its trail says of it.
Told(case) ==
  /\ case \in Case
  /\ Begun(case.history)
  /\ Sighted(case.history, case.observed)
  /\ StatusMoved(case.history, case.workflow)
  /\ case.resolution = (case.workflow \in CLOSED_WORKFLOW)

ToldAll(doc) == DOMAIN doc \subseteq Branches \X Keys /\ \A k \in DOMAIN doc : Told(doc[k])

\* The inductive invariant: every case of every document is told by its trail.
CasesInv ==
  /\ found \in [Branches -> [Keys -> Exceptional \cup Silent]]
  /\ rounds \in 0..MaxRounds
  /\ ToldAll(filed) /\ \A b \in Branches : ToldAll(docs[b]) /\ ToldAll(previous[b])

\* The last entry is the one that LastOf finds.
LEMMA LastIsLast ==
  ASSUME NEW h \in Seq(AuditEntry), NEW types, NEW n, IsLast(h, types, n)
  PROVE  LastOf(h, types) = h[n]
<1> DEFINE at == {m \in DOMAIN h : h[m].type \in types}
<1>1. \A m \in at : m \in Nat
  OBVIOUS
<1>2. n \in at /\ \A m \in at : m <= n
  BY DEF IsLast
<1>3. \A k \in at : (\A m \in at : m <= k) => k = n
  BY <1>1, <1>2
<1>4. (CHOOSE k \in at : \A m \in at : m <= k) = n
  BY <1>2, <1>3
<1> QED  BY <1>4 DEF LastOf

\* What an entry at the end of the trail changes.
LEMMA AppendKeeps ==
  ASSUME NEW h \in Seq(AuditEntry), NEW e \in AuditEntry, NEW types, NEW n \in Nat, IsLast(h, types, n)
  PROVE  /\ e.type \notin types => IsLast(Append(h, e), types, n) /\ Append(h, e)[n] = h[n]
         /\ e.type \in types => IsLast(Append(h, e), types, Len(h) + 1) /\ Append(h, e)[Len(h) + 1] = e
<1>1. /\ DOMAIN h = 1..Len(h) /\ DOMAIN Append(h, e) = 1..(Len(h) + 1) /\ Len(h) \in Nat
      /\ \A m \in 1..Len(h) : Append(h, e)[m] = h[m]
      /\ Append(h, e)[Len(h) + 1] = e
  OBVIOUS
<1> QED  BY <1>1 DEF IsLast

LEMMA AppendSighted ==
  ASSUME NEW h \in Seq(AuditEntry), NEW e \in AuditEntry, NEW seen, Sighted(h, seen)
  PROVE  /\ e.type \notin SightTypes => Sighted(Append(h, e), seen)
         /\ e.type \in SightTypes => Sighted(Append(h, e), e.type # "NOT_OBSERVED")
<1>1. PICK n \in Nat : IsLast(h, SightTypes, n) /\ seen = (h[n].type # "NOT_OBSERVED")
  BY DEF Sighted
<1>2. /\ e.type \notin SightTypes => IsLast(Append(h, e), SightTypes, n) /\ Append(h, e)[n] = h[n]
      /\ e.type \in SightTypes => IsLast(Append(h, e), SightTypes, Len(h) + 1) /\ Append(h, e)[Len(h) + 1] = e
  BY <1>1, AppendKeeps
<1>3. Len(h) + 1 \in Nat
  OBVIOUS
<1> QED  BY <1>1, <1>2, <1>3, Zenon DEF Sighted

LEMMA AppendMoved ==
  ASSUME NEW h \in Seq(AuditEntry), NEW e \in AuditEntry, NEW at, StatusMoved(h, at)
  PROVE  /\ e.type \notin MoveTypes => StatusMoved(Append(h, e), at)
         /\ e.type \in MoveTypes => StatusMoved(Append(h, e), e.to)
<1>1. PICK n \in Nat : IsLast(h, MoveTypes, n) /\ at = h[n].to
  BY DEF StatusMoved
<1>2. /\ e.type \notin MoveTypes => IsLast(Append(h, e), MoveTypes, n) /\ Append(h, e)[n] = h[n]
      /\ e.type \in MoveTypes => IsLast(Append(h, e), MoveTypes, Len(h) + 1) /\ Append(h, e)[Len(h) + 1] = e
  BY <1>1, AppendKeeps
<1>3. Len(h) + 1 \in Nat
  OBVIOUS
<1> QED  BY <1>1, <1>2, <1>3, Zenon DEF StatusMoved

LEMMA AppendBegun ==
  ASSUME NEW h \in Seq(AuditEntry), NEW e \in AuditEntry, Begun(h), e.type # "CREATED"
  PROVE  Append(h, e) \in Seq(AuditEntry) /\ Begun(Append(h, e))
  BY DEF Begun

\* A conditional entry at the end of the trail is an Append or nothing.
LEMMA ConcatOne ==
  ASSUME NEW h \in Seq(AuditEntry), NEW e \in AuditEntry
  PROVE  h \o <<e>> = Append(h, e) /\ h \o <<>> = h
  OBVIOUS

-----------------------------------------------------------------------------
LEMMA AuditTypes ==
  /\ \A type, to : Audit(type, to).type = type /\ Audit(type, to).to = to
  /\ \A status \in Exceptional : Audit("FACT_UPDATED", status) \in AuditEntry
  /\ \A to \in Workflow : Audit("TRANSITION", to) \in AuditEntry
  /\ Audit("CREATED", "OPEN") \in AuditEntry /\ Audit("REOPENED", "OPEN") \in AuditEntry
  /\ Audit("REOBSERVED", "") \in AuditEntry /\ Audit("NOT_OBSERVED", "") \in AuditEntry
  BY DEF Audit, AuditEntry, Workflow, ACTIVE_WORKFLOW, CLOSED_WORKFLOW

\* The fields of a case.
LEMMA CaseFields ==
  ASSUME NEW case \in Case
  PROVE  /\ case.status \in Exceptional /\ case.workflow \in Workflow
         /\ case.observed \in BOOLEAN /\ case.resolution \in BOOLEAN /\ case.history \in Seq(AuditEntry)
  BY DEF Case

LEMMA CreatedTold ==
  ASSUME NEW status \in Exceptional
  PROVE  Told(Created(status))
<1> DEFINE e == Audit("CREATED", "OPEN")
           h == <<e>>
<1>0. e \in AuditEntry /\ e.type = "CREATED" /\ e.to = "OPEN"
  BY AuditTypes
<1>1. h \in Seq(AuditEntry) /\ DOMAIN h = {1} /\ Len(h) = 1 /\ h[1].type = "CREATED" /\ h[1].to = "OPEN"
  <2> HIDE DEF e
  <2> QED  BY <1>0
<1>2. Begun(h)
  BY <1>1 DEF Begun
<1>3. IsLast(h, SightTypes, 1) /\ IsLast(h, MoveTypes, 1)
  BY <1>1 DEF IsLast, SightTypes, MoveTypes
<1>4. Sighted(h, TRUE) /\ StatusMoved(h, "OPEN")
  BY <1>1, <1>3 DEF Sighted, StatusMoved
<1>5. Created(status) = [status |-> status, workflow |-> "OPEN", observed |-> TRUE,
                         resolution |-> FALSE, history |-> h]
  BY DEF Created
<1> HIDE DEF h
<1>6. Created(status) \in Case
  BY <1>1, <1>5 DEF Case, Workflow, ACTIVE_WORKFLOW
<1>7. FALSE = ("OPEN" \in CLOSED_WORKFLOW)
  BY DEF CLOSED_WORKFLOW
<1>8. /\ Created(status).history = h /\ Created(status).observed = TRUE
      /\ Created(status).workflow = "OPEN" /\ Created(status).resolution = FALSE
  BY <1>5
<1> QED  BY <1>2, <1>4, <1>6, <1>7, <1>8, Zenon DEF Told

LEMMA Associative ==
  \A r, s, t \in Seq(AuditEntry) : (r \o s) \o t = r \o (s \o t) /\ r \o s \in Seq(AuditEntry)
  BY ConcatAssociative, ConcatProperties

LEMMA TransitionedTold ==
  ASSUME NEW case, Told(case), NEW to \in {"IN_REVIEW", "RESOLVED"}
  PROVE  Told(Transitioned(case, to))
<1> DEFINE h == case.history
           e == Audit("TRANSITION", to)
           new == Transitioned(case, to)
<1>1. case \in Case /\ h \in Seq(AuditEntry) /\ e \in AuditEntry /\ e.type = "TRANSITION" /\ e.to = to
      /\ to \in Workflow
  BY CaseFields, AuditTypes DEF Told, Workflow, ACTIVE_WORKFLOW, CLOSED_WORKFLOW
<1> DEFINE resolved == to \in CLOSED_WORKFLOW
<1>2. resolved \in BOOLEAN
  OBVIOUS
<1>2a. Append(h, e) \in Seq(AuditEntry)
  BY <1>1
<1>2b. new = [case EXCEPT !.workflow = to, !.resolution = resolved, !.history = Append(h, e)]
  BY Zenon DEF Transitioned
<1> HIDE DEF h, e, new, resolved
<1>2c. new \in Case /\ new.history = Append(h, e) /\ new.workflow = to /\ new.observed = case.observed
      /\ new.resolution = resolved
  <2>1. PICK t \in Seq(AuditEntry) : t = Append(h, e)
    BY <1>2a
  <2>2. new = [case EXCEPT !.workflow = to, !.resolution = resolved, !.history = t]
    BY <1>2b, <2>1
  <2>3. new \in Case /\ new.history = t /\ new.workflow = to /\ new.observed = case.observed
        /\ new.resolution = resolved
    BY <1>1, <1>2, <2>2 DEF Case
  <2> QED  BY <2>1, <2>3
<1>3. Begun(h) /\ Sighted(h, case.observed) /\ StatusMoved(h, case.workflow)
  BY DEF Told, h
<1>4. Begun(Append(h, e))
  BY <1>1, <1>3, AppendBegun
<1>5. Sighted(Append(h, e), case.observed)
  BY <1>1, <1>3, AppendSighted DEF SightTypes
<1>6. StatusMoved(Append(h, e), to)
  BY <1>1, <1>3, AppendMoved DEF MoveTypes
<1>7. Told(new)
  BY <1>2, <1>2c, <1>4, <1>5, <1>6 DEF Told, resolved
<1> QED  BY <1>7 DEF new

LEMMA UnobservedTold ==
  ASSUME NEW case, Told(case)
  PROVE  Told(Unobserved(case)) /\ Unobserved(case).observed = FALSE
<1>1. CASE ~case.observed
  <2>1. Unobserved(case) = case
    BY <1>1 DEF Unobserved
  <2>2. case.observed = FALSE
    BY <1>1, CaseFields DEF Told
  <2> QED  BY <2>1, <2>2
<1>2. CASE case.observed
  <2> DEFINE h == case.history
             e == Audit("NOT_OBSERVED", "")
             new == Unobserved(case)
  <2>1. case \in Case /\ h \in Seq(AuditEntry) /\ e \in AuditEntry /\ e.type = "NOT_OBSERVED"
    BY CaseFields, AuditTypes DEF Told
  <2>1a. Append(h, e) \in Seq(AuditEntry) /\ FALSE \in BOOLEAN
    <3> HIDE DEF h, e
    <3> QED  BY <2>1
  <2>1d. h = case.history
    OBVIOUS
  <2>1b. new = [case EXCEPT !.observed = FALSE, !.history = Append(h, e)]
    BY <1>2, Zenon DEF Unobserved
  <2> HIDE DEF h, e, new
  <2>2. new \in Case /\ new.history = Append(h, e) /\ new.workflow = case.workflow
        /\ new.observed = FALSE /\ new.resolution = case.resolution
    <3>1. PICK t \in Seq(AuditEntry) : t = Append(h, e)
      BY <2>1a
    <3>2. new = [case EXCEPT !.observed = FALSE, !.history = t]
      BY <2>1b, <3>1
    <3>3. new \in Case /\ new.history = t /\ new.workflow = case.workflow
          /\ new.observed = FALSE /\ new.resolution = case.resolution
      BY <2>1, <3>2 DEF Case
    <3> QED  BY <3>1, <3>3
  <2>3. Begun(h) /\ Sighted(h, case.observed) /\ StatusMoved(h, case.workflow)
        /\ case.resolution = (case.workflow \in CLOSED_WORKFLOW)
    BY DEF Told, h
  <2>4. Begun(Append(h, e))
    BY <2>1, <2>3, AppendBegun
  <2>5. Sighted(Append(h, e), FALSE)
    <3>1. Sighted(Append(h, e), e.type # "NOT_OBSERVED")
      BY <2>1, <2>3, AppendSighted DEF SightTypes
    <3>2. (e.type # "NOT_OBSERVED") = FALSE
      BY <2>1
    <3> QED  BY <3>1, <3>2, Zenon
  <2>6. StatusMoved(Append(h, e), case.workflow)
    BY <2>1, <2>3, AppendMoved DEF MoveTypes
  <2>7. Told(new) /\ new.observed = FALSE
    BY <2>2, <2>3, <2>4, <2>5, <2>6 DEF Told
  <2> QED  BY <2>7 DEF new
<1> QED  BY <1>1, <1>2

\* What the conditional entries of an observation add, one after the other.
LEMMA ObservedTold ==
  ASSUME NEW case, Told(case), NEW status \in Exceptional
  PROVE  /\ Told(Observed(case, status)) /\ Observed(case, status).observed = TRUE
         /\ Observed(case, status).workflow \in ACTIVE_WORKFLOW
<1> DEFINE h == case.history
           wasClosed == case.workflow \in CLOSED_WORKFLOW
           updated == Audit("FACT_UPDATED", status)
           reobserved == Audit("REOBSERVED", "")
           reopened == Audit("REOPENED", "OPEN")
           one == IF case.status # status THEN <<updated>> ELSE <<>>
           two == IF ~case.observed THEN <<reobserved>> ELSE <<>>
           three == IF wasClosed THEN <<reopened>> ELSE <<>>
           to == IF wasClosed THEN "OPEN" ELSE case.workflow
           new == Observed(case, status)
<1>1. case \in Case /\ h \in Seq(AuditEntry)
  BY CaseFields DEF Told
<1>2. /\ updated \in AuditEntry /\ updated.type = "FACT_UPDATED"
      /\ reobserved \in AuditEntry /\ reobserved.type = "REOBSERVED"
      /\ reopened \in AuditEntry /\ reopened.type = "REOPENED" /\ reopened.to = "OPEN"
  BY AuditTypes
<1>3. one \in Seq(AuditEntry) /\ two \in Seq(AuditEntry) /\ three \in Seq(AuditEntry)
  <2> HIDE DEF updated, reobserved, reopened, wasClosed
  <2> QED  BY <1>2
<1>4. h \o (one \o two \o three) = ((h \o one) \o two) \o three
  <2> HIDE DEF h, one, two, three
  <2>0. h \in Seq(AuditEntry) /\ one \o two \in Seq(AuditEntry)
    BY <1>1, <1>3 DEF h
  <2>1. h \o ((one \o two) \o three) = (h \o (one \o two)) \o three
    <3>1. \A u, v, w \in Seq(AuditEntry) : (u \o v) \o w = u \o (v \o w)
      BY Associative
    <3>2. three \in Seq(AuditEntry)
      BY <1>3
    <3> DEFINE mid == one \o two
    <3> HIDE DEF mid
    <3>3. mid \in Seq(AuditEntry)
      BY <2>0 DEF mid
    <3>4. h \o (mid \o three) = (h \o mid) \o three
      BY <2>0, <3>1, <3>2, <3>3
    <3> QED  BY <3>4 DEF mid
  <2>2. h \o (one \o two) = (h \o one) \o two
    BY <2>0, <1>3, Associative
  <2> QED  BY <2>1, <2>2
<1>5. Begun(h) /\ Sighted(h, case.observed) /\ StatusMoved(h, case.workflow)
      /\ case.resolution = wasClosed
  BY DEF Told
<1>6. /\ h \o one \in Seq(AuditEntry) /\ Begun(h \o one)
      /\ Sighted(h \o one, case.observed) /\ StatusMoved(h \o one, case.workflow)
  <2>1. CASE case.status = status
    <3>1. h \o one = h
      BY <2>1, <1>1, ConcatOne
    <3> QED  BY <3>1, <1>1, <1>5
  <2>2. CASE case.status # status
    <3> HIDE DEF h, updated
    <3>1. h \o one = Append(h, updated)
      BY <2>2, <1>1, <1>2, ConcatOne
    <3>2. Append(h, updated) \in Seq(AuditEntry) /\ Begun(Append(h, updated))
      BY <1>1, <1>2, <1>5, AppendBegun
    <3>3. Sighted(Append(h, updated), case.observed) /\ StatusMoved(Append(h, updated), case.workflow)
      BY <1>1, <1>2, <1>5, AppendSighted, AppendMoved DEF SightTypes, MoveTypes
    <3> QED  BY <3>1, <3>2, <3>3
  <2> QED  BY <2>1, <2>2
<1> DEFINE h1 == h \o one
<1>7. /\ h1 \o two \in Seq(AuditEntry) /\ Begun(h1 \o two)
      /\ Sighted(h1 \o two, TRUE) /\ StatusMoved(h1 \o two, case.workflow)
  <2> HIDE DEF h1
  <2>0. /\ h1 \in Seq(AuditEntry) /\ Begun(h1)
        /\ Sighted(h1, case.observed) /\ StatusMoved(h1, case.workflow)
    BY <1>6 DEF h1
  <2>1. CASE case.observed
    <3>1. h1 \o two = h1
      BY <2>0, <2>1
    <3>2. case.observed = TRUE
      BY <2>1, <1>1, CaseFields
    <3> QED  BY <3>1, <3>2, <2>0
  <2>2. CASE ~case.observed
    <3> HIDE DEF reobserved
    <3>1. h1 \o two = Append(h1, reobserved)
      BY <2>0, <2>2, <1>2, ConcatOne
    <3>2. Append(h1, reobserved) \in Seq(AuditEntry) /\ Begun(Append(h1, reobserved))
      BY <2>0, <1>2, AppendBegun
    <3>3. Sighted(Append(h1, reobserved), reobserved.type # "NOT_OBSERVED")
      BY <2>0, <1>2, AppendSighted DEF SightTypes
    <3>4. (reobserved.type # "NOT_OBSERVED") = TRUE
      BY <1>2
    <3>5. StatusMoved(Append(h1, reobserved), case.workflow)
      BY <2>0, <1>2, AppendMoved DEF MoveTypes
    <3>6. Sighted(Append(h1, reobserved), TRUE)
      BY <3>3, <3>4, Zenon
    <3> QED  BY <3>1, <3>2, <3>5, <3>6
  <2> QED  BY <2>1, <2>2
<1> DEFINE h2 == h1 \o two
<1>8. /\ h2 \o three \in Seq(AuditEntry) /\ Begun(h2 \o three)
      /\ Sighted(h2 \o three, TRUE) /\ StatusMoved(h2 \o three, to)
  <2> HIDE DEF h2
  <2>0. /\ h2 \in Seq(AuditEntry) /\ Begun(h2)
        /\ Sighted(h2, TRUE) /\ StatusMoved(h2, case.workflow)
    BY <1>7 DEF h2
  <2>1. CASE ~wasClosed
    <3>1. h2 \o three = h2 /\ to = case.workflow
      BY <2>0, <2>1
    <3> QED  BY <3>1, <2>0
  <2>2. CASE wasClosed
    <3> HIDE DEF reopened
    <3>1. h2 \o three = Append(h2, reopened) /\ to = "OPEN"
      BY <2>0, <2>2, <1>2, ConcatOne
    <3>2. Append(h2, reopened) \in Seq(AuditEntry) /\ Begun(Append(h2, reopened))
      BY <2>0, <1>2, AppendBegun
    <3>3. Sighted(Append(h2, reopened), TRUE)
      BY <2>0, <1>2, AppendSighted DEF SightTypes
    <3>4. StatusMoved(Append(h2, reopened), "OPEN")
      BY <2>0, <1>2, AppendMoved DEF MoveTypes
    <3> QED  BY <3>1, <3>2, <3>3, <3>4
  <2> QED  BY <2>1, <2>2
<1>9. PICK resolved \in BOOLEAN : resolved = IF wasClosed THEN FALSE ELSE case.resolution
  BY <1>1, CaseFields
<1>10. to \in ACTIVE_WORKFLOW /\ ~(to \in CLOSED_WORKFLOW) /\ to \in Workflow
  BY <1>1, CaseFields DEF Workflow, ACTIVE_WORKFLOW, CLOSED_WORKFLOW
<1>11. resolved = FALSE
  BY <1>5, <1>9, <1>1, CaseFields
<1>12. new \in Case /\ new.observed = TRUE /\ new.workflow = to /\ new.resolution = resolved
       /\ new.history = h2 \o three
  <2>1. AuditEntries(case, status) = one \o two \o three
    BY DEF AuditEntries
  <2>2. h \o AuditEntries(case, status) = h2 \o three
    BY <2>1, <1>4
  <2>3. new = [case EXCEPT !.status = status, !.observed = TRUE, !.workflow = to,
                           !.resolution = resolved, !.history = h \o AuditEntries(case, status)]
    BY <1>9, Zenon DEF Observed
  <2>4. new = [case EXCEPT !.status = status, !.observed = TRUE, !.workflow = to,
                           !.resolution = resolved, !.history = h2 \o three]
    BY <2>2, <2>3, Zenon
  <2> HIDE DEF to, h2, three, new
  <2>5. PICK t \in Seq(AuditEntry) : t = h2 \o three
    BY <1>8
  <2>6. new = [case EXCEPT !.status = status, !.observed = TRUE, !.workflow = to,
                           !.resolution = resolved, !.history = t]
    BY <2>4, <2>5
  <2>7. new \in Case /\ new.observed = TRUE /\ new.workflow = to /\ new.resolution = resolved
        /\ new.history = t
    BY <2>6, <1>1, <1>9, <1>10 DEF Case
  <2> QED  BY <2>5, <2>7
<1> HIDE DEF new, to, h2, three
<1>13. Told(new)
  <2>1. FALSE = (to \in CLOSED_WORKFLOW)
    BY <1>10
  <2> QED  BY <1>8, <1>11, <1>12, <2>1, Zenon DEF Told
<1> QED  BY <1>10, <1>12, <1>13 DEF new

-----------------------------------------------------------------------------
\* merge_cases keeps every case told, and its queue is what was classified.
LEMMA MergeTold ==
  ASSUME NEW b \in Branches, NEW old, ToldAll(old), NEW recon \in [Keys -> Exceptional \cup Silent]
  PROVE  ToldAll(Merge(b, old, recon)) /\ Queue(Merge(b, old, recon)) = Classify(b, recon)
<1> DEFINE new == Merge(b, old, recon)
           seen == Classify(b, recon)
<1>1. seen \subseteq Branches \X Keys /\ \A k \in seen : recon[k[2]] \in Exceptional
  BY DEF Classify
<1>2. DOMAIN new = DOMAIN old \cup seen
  BY DEF Merge
<1>3. ASSUME NEW k \in DOMAIN new
      PROVE  /\ Told(new[k]) /\ new[k].observed = (k \in seen)
             /\ k \in seen => new[k].workflow \in ACTIVE_WORKFLOW
  <2>1. new[k] = IF k \notin DOMAIN old THEN Created(recon[k[2]])
                 ELSE IF k \in seen THEN Observed(old[k], recon[k[2]])
                 ELSE Unobserved(old[k])
    BY <1>2, Zenon DEF Merge
  <2> HIDE DEF new, seen
  <2>2. CASE k \notin DOMAIN old
    <3>1. k \in seen /\ recon[k[2]] \in Exceptional
      BY <2>2, <1>1, <1>2
    <3>2. new[k] = Created(recon[k[2]])
      BY <2>1, <2>2
    <3>3. Created(recon[k[2]]).observed = TRUE /\ Created(recon[k[2]]).workflow = "OPEN"
      BY DEF Created
    <3>4. new[k].observed = (k \in seen)
      BY <3>1, <3>2, <3>3
    <3> QED  BY <3>1, <3>2, <3>3, <3>4, CreatedTold DEF ACTIVE_WORKFLOW
  <2>3. CASE k \in DOMAIN old /\ k \in seen
    <3>1. Told(old[k]) /\ recon[k[2]] \in Exceptional
      BY <2>3, <1>1 DEF ToldAll
    <3>2. new[k] = Observed(old[k], recon[k[2]])
      BY <2>1, <2>3
    <3>3. /\ Told(Observed(old[k], recon[k[2]])) /\ Observed(old[k], recon[k[2]]).observed = TRUE
          /\ Observed(old[k], recon[k[2]]).workflow \in ACTIVE_WORKFLOW
      BY <3>1, ObservedTold
    <3>4. new[k].observed = (k \in seen)
      BY <2>3, <3>2, <3>3
    <3> QED  BY <3>2, <3>3, <3>4
  <2>4. CASE k \in DOMAIN old /\ k \notin seen
    <3>1. Told(old[k])
      BY <2>4 DEF ToldAll
    <3>2. new[k] = Unobserved(old[k])
      BY <2>1, <2>4
    <3>3. Told(Unobserved(old[k])) /\ Unobserved(old[k]).observed = FALSE
      BY <3>1, UnobservedTold
    <3>4. new[k].observed = (k \in seen)
      <4>1. FALSE = (k \in seen)
        BY <2>4
      <4> QED  BY <4>1, <3>2, <3>3, Zenon
    <3> QED  BY <2>4, <3>2, <3>3, <3>4
  <2> QED  BY <2>2, <2>3, <2>4
<1>4. ToldAll(new)
  BY <1>1, <1>2, <1>3 DEF ToldAll
<1>5. Queue(new) = seen
  <2> HIDE DEF new, seen
  <2> QED  BY <1>2, <1>3 DEF Queue
<1> QED  BY <1>4, <1>5

LEMMA CasesInitially == CasesInit => CasesInv
<1> SUFFICES ASSUME CasesInit PROVE CasesInv
  OBVIOUS
<1>1. ToldAll(NoCases)
  BY DEF ToldAll, NoCases
<1>2. found \in [Branches -> [Keys -> Exceptional \cup Silent]]
  BY DEF CasesInit, Silent
<1>3. filed = NoCases /\ \A b \in Branches : docs[b] = NoCases /\ previous[b] = NoCases
  BY DEF CasesInit
<1>4. rounds \in 0..MaxRounds
  BY CasesAssumption DEF CasesInit
<1> QED  BY <1>1, <1>2, <1>3, <1>4 DEF CasesInv

LEMMA CasesStep == CasesInv /\ [CasesNext]_casesVars => CasesInv'
<1> SUFFICES ASSUME CasesInv, [CasesNext]_casesVars PROVE CasesInv'
  OBVIOUS
<1>0. ASSUME Tick PROVE rounds' \in 0..MaxRounds
  BY <1>0, CasesAssumption DEF Tick, CasesInv
<1>1. CASE FactsChange
  <2>1. PICK b \in Branches, k \in Keys, s \in Exceptional \cup Silent : found' = [found EXCEPT ![b][k] = s]
    BY <1>1 DEF FactsChange
  <2>2. found' \in [Branches -> [Keys -> Exceptional \cup Silent]]
    BY <2>1 DEF CasesInv
  <2> QED  BY <1>0, <1>1, <2>2 DEF FactsChange, CasesInv
<1>2. CASE CliExceptions
  <2>1. PICK kept \in {filed, NoCases} : filed' = Merge("cash", kept, found["cash"])
    BY <1>2 DEF CliExceptions
  <2>2. ToldAll(kept)
    BY <2>1 DEF CasesInv, ToldAll, NoCases
  <2>3. "cash" \in Branches /\ found["cash"] \in [Keys -> Exceptional \cup Silent]
    BY DEF CasesInv, Branches
  <2>4. ToldAll(filed')
    BY <2>1, <2>2, <2>3, MergeTold
  <2> QED  BY <1>0, <1>2, <2>4 DEF CliExceptions, CasesInv
<1>3. CASE CliTransition
  <2>1. PICK k \in DOMAIN filed, to \in {"IN_REVIEW", "RESOLVED"} :
          filed' = [filed EXCEPT ![k] = Transitioned(@, to)]
    BY <1>3 DEF CliTransition
  <2>2. DOMAIN filed' = DOMAIN filed
        /\ \A j \in DOMAIN filed : filed'[j] = IF j = k THEN Transitioned(filed[k], to) ELSE filed[j]
    BY <2>1
  <2>3. Told(Transitioned(filed[k], to))
    BY TransitionedTold DEF CasesInv, ToldAll
  <2>4. ToldAll(filed')
    BY <2>2, <2>3 DEF CasesInv, ToldAll
  <2> QED  BY <1>0, <1>3, <2>4 DEF CliTransition, CasesInv
<1>4. CASE DailyRun
  <2>1. ASSUME NEW b \in Branches PROVE ToldAll(docs'[b])
    <3>1. PreviousOf(b) \in Branches /\ ToldAll(previous[PreviousOf(b)])
      BY DEF PreviousOf, Branches, CasesInv
    <3>2. docs'[b] = Merge(b, previous[PreviousOf(b)], found[b])
      BY <1>4 DEF DailyRun
    <3>3. found[b] \in [Keys -> Exceptional \cup Silent]
      BY DEF CasesInv
    <3> QED  BY <3>1, <3>2, <3>3, MergeTold
  <2>2. previous' \in {previous, docs'}
    BY <1>4 DEF DailyRun
  <2>3. \A b \in Branches : ToldAll(previous'[b])
    BY <2>1, <2>2 DEF CasesInv
  <2> QED  BY <1>0, <1>4, <2>1, <2>3 DEF DailyRun, CasesInv
<1>5. CASE UNCHANGED casesVars
  BY <1>5 DEF casesVars, CasesInv
<1> QED  BY <1>1, <1>2, <1>3, <1>4, <1>5 DEF CasesNext

\* A case that its trail tells is as TrailTells says.
LEMMA ToldTells ==
  ASSUME NEW case, Told(case)
  PROVE  TrailTells(case)
<1> DEFINE h == case.history
<1>1. h \in Seq(AuditEntry)
  BY CaseFields DEF Told
<1>2. Cardinality({n \in DOMAIN h : h[n].type = "CREATED"}) = 1
  <2>1. {n \in DOMAIN h : h[n].type = "CREATED"} = {1}
    BY <1>1 DEF Told, Begun
  <2> QED  BY <2>1, FS_Singleton
<1>3. case.observed = (LastOf(h, SightTypes).type # "NOT_OBSERVED")
  <2>1. PICK n \in Nat : IsLast(h, SightTypes, n) /\ case.observed = (h[n].type # "NOT_OBSERVED")
    BY Zenon DEF Told, Sighted
  <2>2. LastOf(h, SightTypes) = h[n]
    BY <1>1, <2>1, LastIsLast
  <2> QED  BY <2>1, <2>2, Zenon
<1>4. case.workflow = LastOf(h, MoveTypes).to
  <2>1. PICK n \in Nat : IsLast(h, MoveTypes, n) /\ case.workflow = h[n].to
    BY Zenon DEF Told, StatusMoved
  <2>2. LastOf(h, MoveTypes) = h[n]
    BY <1>1, <2>1, LastIsLast
  <2> QED  BY <2>1, <2>2, Zenon
<1>5. case.resolution = (case.workflow \in CLOSED_WORKFLOW)
  BY Zenon DEF Told
<1> QED  BY <1>2, <1>3, <1>4, <1>5, Zenon DEF TrailTells, SightTypes, MoveTypes

AllTold ==
  \A doc \in {filed} \cup {docs[b] : b \in Branches} : \A k \in DOMAIN doc : TrailTells(doc[k])

LEMMA CasesInvTells == CasesInv => CasesTypeOK /\ AllTold
<1> SUFFICES ASSUME CasesInv PROVE CasesTypeOK /\ AllTold
  OBVIOUS
<1>1. \A doc \in {filed} \cup {docs[b] : b \in Branches} \cup {previous[b] : b \in Branches} : ToldAll(doc)
  BY DEF CasesInv
<1>2. CasesTypeOK
  BY <1>1 DEF CasesTypeOK, CasesInv, ToldAll, Told
<1>3. ASSUME NEW doc \in {filed} \cup {docs[b] : b \in Branches}, NEW k \in DOMAIN doc PROVE Told(doc[k])
  BY <1>1 DEF ToldAll
<1>4. AllTold
  BY <1>3, ToldTells, Zenon DEF AllTold
<1> QED  BY <1>2, <1>4

\* A run and an exceptions command leave the queue that the reconciliation found.
LEMMA QueueStep ==
  CasesInv /\ [CasesNext]_casesVars =>
    [/\ docs' # docs => \A b \in Branches : Queue(docs'[b]) = Classify(b, found[b])
     /\ CliExceptions => Queue(filed') = Classify("cash", found["cash"])]_casesVars
<1> SUFFICES ASSUME CasesInv, CasesNext
             PROVE  /\ docs' # docs => \A b \in Branches : Queue(docs'[b]) = Classify(b, found[b])
                    /\ CliExceptions => Queue(filed') = Classify("cash", found["cash"])
  OBVIOUS
<1>1. ASSUME docs' # docs, NEW b \in Branches PROVE Queue(docs'[b]) = Classify(b, found[b])
  <2>1. DailyRun
    BY <1>1 DEF CasesNext, FactsChange, CliExceptions, CliTransition
  <2>2. PreviousOf(b) \in Branches /\ ToldAll(previous[PreviousOf(b)])
    BY DEF PreviousOf, Branches, CasesInv
  <2>3. docs'[b] = Merge(b, previous[PreviousOf(b)], found[b])
    BY <2>1 DEF DailyRun
  <2>4. found[b] \in [Keys -> Exceptional \cup Silent]
    BY DEF CasesInv
  <2> QED  BY <2>2, <2>3, <2>4, MergeTold
<1>2. ASSUME CliExceptions PROVE Queue(filed') = Classify("cash", found["cash"])
  <2>1. PICK kept \in {filed, NoCases} : filed' = Merge("cash", kept, found["cash"])
    BY <1>2 DEF CliExceptions
  <2>2. ToldAll(kept)
    BY <2>1 DEF CasesInv, ToldAll, NoCases
  <2>3. "cash" \in Branches /\ found["cash"] \in [Keys -> Exceptional \cup Silent]
    BY DEF CasesInv, Branches
  <2> QED  BY <2>1, <2>2, <2>3, MergeTold
<1> QED  BY <1>1, <1>2

\* Whatever the reconciliations find, run after run, complete or partial, and
\* whatever the operator closes, the audit trail alone tells every case, and the
\* queue is exactly what was found (exceptions.py, merge_cases and
\* apply_transition; ops_dag.py, _previous_cases).
THEOREM CasesAreTold == CasesSpec => CasesStand /\ []CasesTypeOK
<1>1. CasesSpec => []CasesInv
  BY CasesInitially, CasesStep, PTL DEF CasesSpec
<1>2. CasesSpec => [](CasesTypeOK /\ AllTold)
  BY <1>1, CasesInvTells, PTL
<1>3. CasesSpec => QueueIsFindings
  BY <1>1, QueueStep, PTL DEF CasesSpec, QueueIsFindings
<1> QED  BY <1>2, <1>3, PTL DEF CasesStand, AllTold

-----------------------------------------------------------------------------
(***************************************************************************)
(* The custody feed.  Two statements that are published for one account    *)
(* and day are both whole, and then either would dispute the other if they *)
(* differed; the references of a bound entry resolve to one event only.    *)
(***************************************************************************)
\* The inductive invariant: besides the types, an entry is recorded once.
CustodyInv ==
  /\ CustodyTypeOK
  /\ IsFiniteSet(arrived)
  /\ \A e, f \in reported : e.no = f.no => e = f

LEMMA CustodyStarts == CustodyInit => CustodyInv
<1> SUFFICES ASSUME CustodyInit PROVE CustodyInv
  OBVIOUS
<1>1. registry \in [References -> Events \cup {NoEvent}] /\ custodyDay \in 0..LastCustodyDay
  BY CustodyAssumption DEF CustodyInit
<1> QED  BY <1>1, FS_EmptySet DEF CustodyInit, CustodyInv, CustodyTypeOK

LEMMA CustodyStep == CustodyInv /\ [CustodyNext]_custodyVars => CustodyInv'
<1> SUFFICES ASSUME CustodyInv, [CustodyNext]_custodyVars PROVE CustodyInv'
  OBVIOUS
<1>1. CASE PageArrives
  <2>1. PICK m \in Pages : arrived' = arrived \cup {PositionObservation(m)}
    BY <1>1 DEF PageArrives
  <2>2. IsFiniteSet(arrived')
    BY <2>1, FS_AddElement DEF CustodyInv
  <2> QED  BY <1>1, <2>1, <2>2 DEF PageArrives, CustodyInv, CustodyTypeOK
<1>2. CASE ReportArrives
  <2>1. PICK e \in Entries : /\ ~\E r \in reported : r.no = e.no
                             /\ reported' = reported \cup {CashObservation(e)}
    BY <1>2 DEF ReportArrives
  <2>2. CashObservation(e).no = e.no
    BY DEF CashObservation
  <2>3. \A r, f \in reported' : r.no = f.no => r = f
    BY <2>1, <2>2 DEF CustodyInv
  <2> QED  BY <1>2, <2>1, <2>3 DEF ReportArrives, CustodyInv, CustodyTypeOK
<1>3. CASE ReferenceRegistered
  <2>1. registry' \in [References -> Events \cup {NoEvent}]
    BY <1>3 DEF ReferenceRegistered, CustodyInv, CustodyTypeOK
  <2> QED  BY <1>3, <2>1 DEF ReferenceRegistered, CustodyInv, CustodyTypeOK
<1>4. CASE CustodyDayPasses
  <2>1. custodyDay' \in 0..LastCustodyDay
    BY <1>4, CustodyAssumption DEF CustodyDayPasses, CustodyInv, CustodyTypeOK
  <2> QED  BY <1>4, <2>1 DEF CustodyDayPasses, CustodyInv, CustodyTypeOK
<1>5. CASE UNCHANGED custodyVars
  BY <1>5 DEF custodyVars, CustodyInv, CustodyTypeOK
<1> QED  BY <1>1, <1>2, <1>3, <1>4, <1>5 DEF CustodyNext

-----------------------------------------------------------------------------
\* A complete statement is whole and nothing disputes it.
LEMMA CompleteStands ==
  ASSUME NEW got, NEW st, Status(st, got) = "COMPLETE"
  PROVE  Whole(st, got) /\ ~Disputed(st, got)
<1>1. ~PageConflict(st, got)
  BY DEF Status
<1>2. ~(Whole(st, got) /\ Disputed(st, got)) /\ Completeness(Deduped(st, got)) = "COMPLETE"
  BY <1>1 DEF Status
<1> QED  BY <1>1, <1>2 DEF Whole

\* Two documents of one account and day are one document.
LEMMA OneDocument ==
  ASSUME NEW got, NEW d \in Published(got), NEW e \in Published(got),
         d.account = e.account, d.day = e.day
  PROVE  d = e
<1>1. PICK st \in Statements(got) :
        /\ Status(st, got) = "COMPLETE"
        /\ d = [account |-> st[1], day |-> AsOf(st, got), rows |-> {r \in Rows(st, got) : r[2] # NoValue}]
  BY DEF Published
<1>2. PICK other \in Statements(got) :
        /\ Status(other, got) = "COMPLETE"
        /\ e = [account |-> other[1], day |-> AsOf(other, got),
                rows |-> {r \in Rows(other, got) : r[2] # NoValue}]
  BY DEF Published
<1>3. Slot(st, got) = Slot(other, got)
  BY <1>1, <1>2 DEF Slot
<1>4. Whole(other, got) /\ ~Disputed(st, got)
  BY <1>1, <1>2, CompleteStands
<1>5. Rows(other, got) = Rows(st, got)
  BY <1>3, <1>4 DEF Disputed
<1> QED  BY <1>1, <1>2, <1>3, <1>5 DEF Slot

-----------------------------------------------------------------------------
\* An entry has two or four references.
LEMMA EntryRefs ==
  ASSUME CustodyInv, NEW e \in reported
  PROVE  DOMAIN e.refs = 1..2 \/ DOMAIN e.refs = 1..4
<1>1. PICK f \in Entries : e = CashObservation(f)
  BY DEF CustodyInv, CustodyTypeOK
<1>2. e.refs = MtRefs(f) \/ e.refs = CamtRefs(f)
  BY <1>1 DEF CashObservation
<1>3. DOMAIN MtRefs(f) = 1..2 /\ DOMAIN CamtRefs(f) = 1..4
  BY DEF MtRefs, CamtRefs
<1> QED  BY <1>2, <1>3

LEMMA LeastOf ==
  ASSUME NEW S \in SUBSET (1..4), S # {}
  PROVE  Min(S) \in S
<1>1. \E i \in S : \A j \in S : i <= j
  <2>1. CASE 1 \in S
    BY <2>1
  <2>2. CASE 1 \notin S /\ 2 \in S
    BY <2>2
  <2>3. CASE 1 \notin S /\ 2 \notin S /\ 3 \in S
    BY <2>3
  <2>4. CASE 1 \notin S /\ 2 \notin S /\ 3 \notin S
    <3>1. \A i \in S : i = 4
      BY <2>4
    <3>2. \A i, j \in S : i <= j
      BY <3>1
    <3> QED  BY <3>2
  <2> QED  BY <2>1, <2>2, <2>3, <2>4
<1> QED  BY <1>1 DEF Min

\* The references of a bound entry resolve to the event of its movement.
LEMMA BoundAgrees ==
  ASSUME CustodyInv, NEW e \in reported, BindingStatus(e) = "BOUND"
  PROVE  /\ SourceReference(e) \in RefSet(e)
         /\ \A r \in RefSet(e) : registry[r] \in {NoEvent, registry[SourceReference(e)]}
<1>1. RefSet(e) # {} /\ ~(Cardinality(Resolves(e)) > 1) /\ Resolves(e) # {}
  BY DEF BindingStatus
<1> DEFINE S == Resolving(e)
<1>2. S \subseteq 1..4 /\ S \subseteq DOMAIN e.refs
  BY EntryRefs DEF Resolving
<1>3. S # {}
  <2>1. PICK r \in RefSet(e) : registry[r] # NoEvent
    BY <1>1 DEF Resolves
  <2>2. PICK i \in DOMAIN e.refs : r = e.refs[i] /\ r # NoValue
    BY DEF RefSet
  <2> QED  BY <2>1, <2>2 DEF Resolving
<1>4. Min(S) \in S
  BY <1>2, <1>3, LeastOf
<1>5. /\ SourceReference(e) \in RefSet(e)
      /\ registry[SourceReference(e)] # NoEvent
  BY <1>2, <1>4 DEF SourceReference, Resolving, RefSet
<1>6. IsFiniteSet(Resolves(e))
  <2> DEFINE T == {registry[e.refs[i]] : i \in DOMAIN e.refs}
  <2>1. \/ T = {registry[e.refs[1]]} \cup {registry[e.refs[2]]}
        \/ T = (({registry[e.refs[1]]} \cup {registry[e.refs[2]]})
                  \cup {registry[e.refs[3]]}) \cup {registry[e.refs[4]]}
    <3>1. CASE DOMAIN e.refs = 1..2
      <4>1. DOMAIN e.refs = {1, 2}
        BY <3>1
      <4> QED  BY <4>1
    <3>2. CASE DOMAIN e.refs = 1..4
      <4>1. DOMAIN e.refs = {1, 2, 3, 4}
        BY <3>2
      <4> QED  BY <4>1
    <3> QED  BY <3>1, <3>2, EntryRefs
  <2> HIDE DEF T
  <2>2. IsFiniteSet(T)
    <3>1. \A a, b : IsFiniteSet({a} \cup {b})
      BY FS_Singleton, FS_AddElement
    <3>2. \A a, b, c, d : IsFiniteSet((({a} \cup {b}) \cup {c}) \cup {d})
      BY <3>1, FS_AddElement
    <3> DEFINE a == registry[e.refs[1]]
               b == registry[e.refs[2]]
               c == registry[e.refs[3]]
               d == registry[e.refs[4]]
    <3>3. IsFiniteSet({a} \cup {b}) /\ IsFiniteSet((({a} \cup {b}) \cup {c}) \cup {d})
      BY <3>1, <3>2, Zenon
    <3>4. T = {a} \cup {b} \/ T = (({a} \cup {b}) \cup {c}) \cup {d}
      BY <2>1, Zenon
    <3> HIDE DEF a, b, c, d
    <3> QED  BY <3>3, <3>4, Zenon
  <2>3. Resolves(e) \subseteq T
    BY DEF Resolves, RefSet, T
  <2> QED  BY <2>2, <2>3, FS_Subset
<1>7. registry[SourceReference(e)] \in Resolves(e)
  BY <1>5 DEF Resolves
<1>8. Cardinality(Resolves(e)) = 1
  <2>1. Cardinality(Resolves(e)) \in Nat /\ Cardinality(Resolves(e)) # 0
    BY <1>1, <1>6, FS_CardinalityType, FS_EmptySet
  <2> QED  BY <1>1, <2>1
<1>9. PICK v : Resolves(e) = {v}
  BY <1>6, <1>8, FS_Singleton
<1>10. \A r \in RefSet(e) : registry[r] = NoEvent \/ registry[r] \in Resolves(e)
  BY DEF Resolves
<1> QED  BY <1>5, <1>7, <1>9, <1>10

\* A movement with references of its own is found in the report it came from.
LEMMA FoundAgain ==
  ASSUME CustodyInv, NEW m \in Movements,
         \A e \in reported \ {m.entry} : RefSet(e) \cap RefSet(m.entry) = {}
  PROVE  FeedStatus(m, reported) = "MATCH"
<1>1. PICK e \in reported : /\ BindingStatus(e) = "BOUND"
                            /\ m = [entry |-> e, ref |-> SourceReference(e),
                                    event |-> registry[SourceReference(e)]]
  BY DEF Movements
<1>2. m.entry = e /\ m.ref = SourceReference(e) /\ SourceReference(e) \in RefSet(e)
  BY <1>1, BoundAgrees
<1>3. {f \in reported : Names(f, m)} = {e}
  <2>1. ASSUME NEW f \in reported, Names(f, m) PROVE f = e
    <3>1. f.no = e.no \/ m.ref \in RefSet(f)
      BY <1>2, <2>1 DEF Names
    <3> QED  BY <3>1, <1>2 DEF CustodyInv
  <2> QED  BY <1>2, <2>1 DEF Names
<1>4. e.no \in Nat
  <2>1. PICK f \in Entries : e = CashObservation(f)
    BY DEF CustodyInv, CustodyTypeOK
  <2> QED  BY <2>1, CustodyAssumption DEF CashObservation
<1>5. (CHOOSE f \in {e} : \A o \in {e} : f.no <= o.no) = e
  BY <1>4
<1>6. e.amount = m.entry.amount
  BY <1>2
<1> QED  BY <1>3, <1>5, <1>6 DEF FeedStatus

LEMMA CustodyTruth == CustodyInv => OneTruthPerSlot /\ MovementsAgree
<1> SUFFICES ASSUME CustodyInv PROVE OneTruthPerSlot /\ MovementsAgree
  OBVIOUS
<1>1. ASSUME NEW d \in Published(arrived), NEW e \in Published(arrived),
             d.account = e.account, d.day = e.day
      PROVE  PositionItems(d) = PositionItems(e)
  BY <1>1, OneDocument
<1>2. ASSUME NEW m \in Movements, NEW r \in RefSet(m.entry)
      PROVE  registry[r] \in {NoEvent, m.event}
  <2>1. PICK e \in reported : /\ BindingStatus(e) = "BOUND"
                              /\ m = [entry |-> e, ref |-> SourceReference(e),
                                      event |-> registry[SourceReference(e)]]
    BY DEF Movements
  <2>2. m.entry = e /\ m.event = registry[SourceReference(e)]
    BY <2>1
  <2> QED  BY <1>2, <2>1, <2>2, BoundAgrees
<1> QED  BY <1>1, <1>2, FoundAgain DEF OneTruthPerSlot, MovementsAgree

\* Whatever pages and entries arrive, in whatever order, an account has one truth
\* for a day and a movement the one event of its references (custody_snapshot.py,
\* build_snapshots; custody_bind.py, bind_cash).
THEOREM OneTruth == CustodySpec => [](CustodyTypeOK /\ OneTruthPerSlot /\ MovementsAgree)
<1>1. CustodyInv => CustodyTypeOK
  BY DEF CustodyInv
<1> QED BY <1>1, CustodyStarts, CustodyStep, CustodyTruth, PTL DEF CustodySpec

-----------------------------------------------------------------------------
(***************************************************************************)
(* A redelivery.  A page that came again is alike the page that came       *)
(* first: the pages that are picked, one of each number, are alike before  *)
(* and after, so every statement reads as it did.                          *)
(***************************************************************************)
PagesAlike(a, b) ==
  /\ a.account = b.account /\ a.ref = b.ref /\ a.page = b.page
  /\ Content(a) = Content(b)
  /\ a.mark = b.mark /\ a.update = b.update

\* Two sets of picked pages that read alike.
ReadAlike(D, E) ==
  /\ \A a \in D : \E b \in E : PagesAlike(a, b)
  /\ \A b \in E : \E a \in D : PagesAlike(a, b)
  /\ Cardinality(D) = Cardinality(E)

\* The custodian's own word: pages with the content and the number of one another
\* say the same of what follows.  custody_snapshot.py:87-90 takes the first row that
\* bears the number; the order of the rows is not part of the content it compares.
SamePage(a, b) ==
  /\ a.account = b.account /\ a.ref = b.ref /\ a.page = b.page /\ Content(a) = Content(b)

Agreed(got) == \A a, b \in got : SamePage(a, b) => PagesAlike(a, b)
PagesAgree == Agreed({PositionObservation(m) : m \in Pages})

LEMMA AlikeReads ==
  ASSUME NEW D, NEW E, ReadAlike(D, E)
  PROVE  /\ Completeness(D) = Completeness(E)
         /\ {p.day : p \in D} = {p.day : p \in E}
         /\ UNION {p.rows : p \in D} = UNION {p.rows : p \in E}
<1>1. \A a, b : PagesAlike(a, b) => /\ a.day = b.day /\ a.rows = b.rows /\ a.page = b.page
                               /\ a.mark = b.mark /\ a.update = b.update
  BY DEF PagesAlike, Content
<1>2. /\ \A a \in D : \E b \in E : a.day = b.day /\ a.rows = b.rows
      /\ \A b \in E : \E a \in D : a.day = b.day /\ a.rows = b.rows
  BY <1>1 DEF ReadAlike
<1>3. {p.day : p \in D} = {p.day : p \in E}
  BY <1>2
<1>4. UNION {p.rows : p \in D} = UNION {p.rows : p \in E}
  <2>1. {p.rows : p \in D} = {p.rows : p \in E}
    BY <1>2
  <2> QED  BY <2>1
<1>5. Completeness(D) = Completeness(E)
  <2>1. Marks(D) = Marks(E)
    <3>1. /\ \A a \in D : \E b \in E : a.mark = b.mark
          /\ \A b \in E : \E a \in D : a.mark = b.mark
      BY <1>1 DEF ReadAlike
    <3> QED  BY <3>1 DEF Marks
  <2>2. {p.page : p \in D} = {p.page : p \in E}
    <3>1. /\ \A a \in D : \E b \in E : a.page = b.page
          /\ \A b \in E : \E a \in D : a.page = b.page
      BY <1>1 DEF ReadAlike
    <3> QED  BY <3>1
  <2>3. (\E p \in D : p.update = "DELT") <=> (\E p \in E : p.update = "DELT")
    BY <1>1 DEF ReadAlike
  <2>4. Cardinality(D) = Cardinality(E)
    BY DEF ReadAlike
  <2> QED  BY <2>1, <2>2, <2>3, <2>4 DEF Completeness
<1> QED  BY <1>3, <1>4, <1>5

\* One page is picked for each number.
LEMMA OneForEach ==
  ASSUME NEW got, IsFiniteSet(got), NEW st
  PROVE  /\ Cardinality(Deduped(st, got)) = Cardinality(Numbers(st, got))
         /\ \A n \in Numbers(st, got) :
              \E a \in Deduped(st, got) : a.page = n
         /\ \A a \in Deduped(st, got) :
              a \in got /\ <<a.account, a.ref>> = st /\ a.page \in Numbers(st, got)
<1> DEFINE P == PagesOf(st, got)
           N == Numbers(st, got)
           Pick(n) == CHOOSE p \in P : p.page = n
           D == Deduped(st, got)
           f == [n \in N |-> Pick(n)]
<1>1. \A n \in N : Pick(n) \in P /\ Pick(n).page = n
  BY DEF Numbers
<1>2. D = {Pick(n) : n \in N}
  BY DEF Deduped
<1>3. IsFiniteSet(N)
  <2>1. IsFiniteSet(P)
    BY FS_Subset DEF PagesOf
  <2>2. N = {p.page : p \in P}
    BY DEF Numbers
  <2> DEFINE g == [p \in P |-> p.page]
  <2> HIDE DEF P, N
  <2>3. g \in Surjection(P, N)
    <3>1. g \in [P -> N] /\ \A n \in N : \E p \in P : g[p] = n
      BY <2>2
    <3> QED  BY <3>1, Fun_IsSurj
  <2> QED  BY <2>1, <2>3, FS_Surjection
<1> HIDE DEF P, N, Pick, D
<1>4. f \in Bijection(N, D)
  <2>1. f \in [N -> D]
    BY <1>2
  <2>2. \A a, b \in N : f[a] = f[b] => a = b
    BY <1>1
  <2>3. \A d \in D : \E n \in N : f[n] = d
    BY <1>2
  <2> QED  BY <2>1, <2>2, <2>3, Fun_IsBij
<1>5. Cardinality(D) = Cardinality(N)
  BY <1>3, <1>4, FS_Bijection DEF ExistsBijection
<1>6. \A n \in N : \E a \in D : a.page = n
  BY <1>1, <1>2
<1>7. \A a \in D : a \in P /\ a.page \in N
  BY <1>1, <1>2
<1> QED  BY <1>5, <1>6, <1>7 DEF P, N, D, PagesOf

-----------------------------------------------------------------------------
\* What a second delivery of a page leaves: got without it, and got with it.
Redelivered(got, got2) ==
  \E p, q : q \in got /\ PagesAlike(p, q) /\ got2 = got \cup {p}

LEMMA RedeliveredKeeps ==
  ASSUME NEW got, NEW got2, Redelivered(got, got2)
  PROVE  /\ Statements(got2) = Statements(got)
         /\ \A st : /\ Numbers(st, got2) = Numbers(st, got)
                    /\ PageConflict(st, got2) <=> PageConflict(st, got)
<1>1. PICK p, q : q \in got /\ PagesAlike(p, q) /\ got2 = got \cup {p}
  BY DEF Redelivered
<1>2. p.account = q.account /\ p.ref = q.ref /\ p.page = q.page /\ Content(p) = Content(q)
  BY <1>1 DEF PagesAlike
<1>3. Statements(got2) = Statements(got)
  BY <1>1, <1>2 DEF Statements
<1>4. ASSUME NEW st
      PROVE  /\ Numbers(st, got2) = Numbers(st, got)
             /\ PageConflict(st, got2) <=> PageConflict(st, got)
  <2>1. \A a \in got2 : a \in got \/ a = p
    BY <1>1
  <2>2. \A a \in PagesOf(st, got) : a \in PagesOf(st, got2)
    BY <1>1 DEF PagesOf
  <2>3. \A a \in PagesOf(st, got2) :
          \E b \in PagesOf(st, got) : a.page = b.page /\ Content(a) = Content(b)
    <3> SUFFICES ASSUME NEW a \in PagesOf(st, got2)
                 PROVE  \E b \in PagesOf(st, got) : a.page = b.page /\ Content(a) = Content(b)
      OBVIOUS
    <3>1. CASE a \in got
      BY <3>1 DEF PagesOf
    <3>2. CASE a = p
      <4>1. q \in PagesOf(st, got)
        BY <1>1, <1>2, <3>2 DEF PagesOf
      <4> QED  BY <1>2, <3>2, <4>1
    <3> QED  BY <2>1, <3>1, <3>2 DEF PagesOf
  <2>4. Numbers(st, got2) = Numbers(st, got)
    BY <2>2, <2>3 DEF Numbers
  <2>5. PageConflict(st, got2) <=> PageConflict(st, got)
    <3>1. PageConflict(st, got) => PageConflict(st, got2)
      BY <2>2, Zenon DEF PageConflict
    <3>2. ASSUME PageConflict(st, got2) PROVE PageConflict(st, got)
      <4>1. PICK a, b \in PagesOf(st, got2) : a.page = b.page /\ Content(a) # Content(b)
        BY <3>2, Zenon DEF PageConflict
      <4>2. PICK c \in PagesOf(st, got) : a.page = c.page /\ Content(a) = Content(c)
        BY <2>3, Zenon
      <4>3. PICK d \in PagesOf(st, got) : b.page = d.page /\ Content(b) = Content(d)
        BY <2>3, Zenon
      <4>4. c.page = d.page /\ Content(c) # Content(d)
        BY <4>1, <4>2, <4>3
      <4> QED  BY <4>4, Zenon DEF PageConflict
    <3> QED  BY <3>1, <3>2
  <2> QED  BY <2>4, <2>5
<1> QED  BY <1>3, <1>4

\* Without a conflict, the pages picked of a statement read alike.
LEMMA PicksReadAlike ==
  ASSUME NEW got, NEW got2, IsFiniteSet(got), IsFiniteSet(got2),
         Redelivered(got, got2), Agreed(got2), NEW st, ~PageConflict(st, got2)
  PROVE  ReadAlike(Deduped(st, got), Deduped(st, got2))
<1>1. got \subseteq got2 /\ Numbers(st, got2) = Numbers(st, got)
  BY RedeliveredKeeps DEF Redelivered
<1> DEFINE D == Deduped(st, got)
           E == Deduped(st, got2)
           N == Numbers(st, got)
<1>2. /\ Cardinality(D) = Cardinality(N)
      /\ \A n \in N : \E a \in D : a.page = n
      /\ \A a \in D : a \in got /\ <<a.account, a.ref>> = st /\ a.page \in N
  BY OneForEach
<1>3. /\ Cardinality(E) = Cardinality(N)
      /\ \A n \in N : \E b \in E : b.page = n
      /\ \A b \in E : b \in got2 /\ <<b.account, b.ref>> = st /\ b.page \in N
  BY <1>1, OneForEach
<1>4. ASSUME NEW a \in got2, NEW b \in got2, <<a.account, a.ref>> = st, <<b.account, b.ref>> = st,
             a.page = b.page
      PROVE  PagesAlike(a, b)
  <2>1. Content(a) = Content(b)
    BY <1>4 DEF PageConflict, PagesOf
  <2>2. SamePage(a, b)
    BY <1>4, <2>1 DEF SamePage
  <2> QED  BY <2>2 DEF Agreed
<1>5. \A a \in D : \E b \in E : PagesAlike(a, b)
  <2> TAKE a \in D
  <2>1. PICK b \in E : b.page = a.page
    BY <1>2, <1>3
  <2> QED  BY <1>1, <1>2, <1>3, <1>4, <2>1
<1>6. \A b \in E : \E a \in D : PagesAlike(a, b)
  <2> TAKE b \in E
  <2>1. PICK a \in D : b.page = a.page
    BY <1>2, <1>3
  <2> QED  BY <1>1, <1>2, <1>3, <1>4, <2>1
<1> QED  BY <1>2, <1>3, <1>5, <1>6 DEF ReadAlike

\* Nothing that is published changes.
LEMMA PublishedStands ==
  ASSUME NEW got, NEW got2, IsFiniteSet(got), IsFiniteSet(got2),
         Redelivered(got, got2), Agreed(got2)
  PROVE  Published(got2) = Published(got)
<1>1. /\ Statements(got2) = Statements(got)
      /\ \A st : PageConflict(st, got2) <=> PageConflict(st, got)
  BY RedeliveredKeeps
<1>2. ASSUME NEW st, ~PageConflict(st, got2)
      PROVE  /\ Completeness(Deduped(st, got2)) = Completeness(Deduped(st, got))
             /\ AsOf(st, got2) = AsOf(st, got)
             /\ Rows(st, got2) = Rows(st, got)
  <2>1. ReadAlike(Deduped(st, got), Deduped(st, got2))
    BY <1>2, PicksReadAlike
  <2>2. /\ Completeness(Deduped(st, got2)) = Completeness(Deduped(st, got))
        /\ {p.day : p \in Deduped(st, got)} = {p.day : p \in Deduped(st, got2)}
        /\ UNION {p.rows : p \in Deduped(st, got)} = UNION {p.rows : p \in Deduped(st, got2)}
    BY <2>1, AlikeReads
  <2>3. AsOf(st, got2) = AsOf(st, got)
    <3> DEFINE Only(S) == LET T == S \ {NoValue}
                          IN  IF Cardinality(T) = 1 THEN CHOOSE v \in T : TRUE ELSE NoValue
    <3>1. \A g : AsOf(st, g) = Only({p.day : p \in Deduped(st, g)})
      BY Zenon DEF AsOf
    <3> HIDE DEF Only
    <3> QED  BY <2>2, <3>1
  <2> QED  BY <2>2, <2>3 DEF Rows
<1>3. \A st : Whole(st, got2) <=> Whole(st, got)
  BY <1>1, <1>2, Zenon DEF Whole
<1>4. \A st : Whole(st, got2) => ~PageConflict(st, got2)
  BY DEF Whole
<1>5. \A st : Whole(st, got2) => Slot(st, got2) = Slot(st, got) /\ Rows(st, got2) = Rows(st, got)
  BY <1>2, <1>4, Zenon DEF Slot
<1>6. \A st : Whole(st, got2) => (Disputed(st, got2) <=> Disputed(st, got))
  <2> SUFFICES ASSUME NEW st, Whole(st, got2) PROVE Disputed(st, got2) <=> Disputed(st, got)
    OBVIOUS
  <2>1. Slot(st, got2) = Slot(st, got) /\ Rows(st, got2) = Rows(st, got)
    BY <1>5
  <2> QED  BY <1>1, <1>3, <1>5, <2>1, Zenon DEF Disputed
<1>7. \A st : Status(st, got2) = Status(st, got)
  <2> SUFFICES ASSUME NEW st PROVE Status(st, got2) = Status(st, got)
    OBVIOUS
  <2>1. CASE PageConflict(st, got2)
    BY <1>1, <2>1 DEF Status
  <2>2. CASE ~PageConflict(st, got2)
    <3>1. (Whole(st, got2) /\ Disputed(st, got2)) <=> (Whole(st, got) /\ Disputed(st, got))
      BY <1>3, <1>6
    <3> QED  BY <1>1, <1>2, <2>2, <3>1 DEF Status
  <2> QED  BY <2>1, <2>2
<1>8. \A st : Status(st, got2) = "COMPLETE" =>
        AsOf(st, got2) = AsOf(st, got) /\ Rows(st, got2) = Rows(st, got)
  BY <1>2, <1>4, CompleteStands
<1> DEFINE Doc(st, g) == [account |-> st[1], day |-> AsOf(st, g),
                          rows |-> {r \in Rows(st, g) : r[2] # NoValue}]
           Told2(g) == {s \in Statements(g) : Status(s, g) = "COMPLETE" /\ s[1] \in Mapped}
<1>9. Told2(got2) = Told2(got)
  BY <1>1, <1>7
<1>10. \A st \in Told2(got) : Doc(st, got2) = Doc(st, got)
  BY <1>7, <1>8
<1>11. {Doc(st, got2) : st \in Told2(got2)} = {Doc(st, got) : st \in Told2(got)}
  <2> HIDE DEF Doc, Told2
  <2> QED  BY <1>9, <1>10
<1> QED  BY <1>11, Zenon DEF Published

\* A page that is told apart by its number only is alike the page it repeats.
LEMMA RepeatIsAlike ==
  ASSUME NEW m \in Pages, NEW q, [PositionObservation(m) EXCEPT !.no = q.no] = q
  PROVE  PagesAlike(PositionObservation(m), q)
<1> DEFINE p == PositionObservation(m)
<1>1. PICK account, ref, day, page, mark, update, rows, no :
        p = [no |-> no, account |-> account, ref |-> ref, day |-> day, page |-> page,
             mark |-> mark, update |-> update, rows |-> rows]
  BY Zenon DEF PositionObservation, Mt535, Semt002
<1> HIDE DEF p
<1>2. q = [no |-> q.no, account |-> account, ref |-> ref, day |-> day, page |-> page,
           mark |-> mark, update |-> update, rows |-> rows]
  BY <1>1 DEF p
<1>3. /\ p.account = q.account /\ p.ref = q.ref /\ p.page = q.page
      /\ p.mark = q.mark /\ p.update = q.update /\ p.day = q.day /\ p.rows = q.rows
  BY <1>1, <1>2
<1> QED  BY <1>3 DEF PagesAlike, Content, p

LEMMA FeedKeeps ==
  PagesAgree => (CustodyInv /\ [CustodyNext]_custodyVars =>
    [\A p \in arrived' \ arrived :
       (\E q \in arrived : [p EXCEPT !.no = q.no] = q)
         => Published(arrived') = Published(arrived)]_custodyVars)
<1> SUFFICES ASSUME PagesAgree, CustodyInv, CustodyNext, NEW p \in arrived' \ arrived,
                    NEW q \in arrived, [p EXCEPT !.no = q.no] = q
             PROVE  Published(arrived') = Published(arrived)
  BY Zenon
<1>1. PageArrives
  BY DEF CustodyNext, ReportArrives, ReferenceRegistered, CustodyDayPasses
<1>2. PICK m \in Pages : arrived' = arrived \cup {PositionObservation(m)}
  BY <1>1 DEF PageArrives
<1>3. p = PositionObservation(m)
  BY <1>2
<1>4. PagesAlike(p, q)
  BY <1>3, RepeatIsAlike
<1>5. Redelivered(arrived, arrived')
  BY <1>2, <1>3, <1>4 DEF Redelivered
<1>6. Agreed(arrived')
  <2>1. arrived' \subseteq {PositionObservation(n) : n \in Pages}
    BY <1>2 DEF CustodyInv, CustodyTypeOK
  <2> QED  BY <2>1 DEF PagesAgree, Agreed
<1>7. IsFiniteSet(arrived) /\ IsFiniteSet(arrived')
  BY <1>2, FS_AddElement DEF CustodyInv
<1> QED  BY <1>5, <1>6, <1>7, PublishedStands

\* The feed as a whole: a second delivery also changes no document, where pages with
\* one content and number bear one mark (custody_snapshot.py:87-90).
THEOREM FeedIsTold ==
  ASSUME PagesAgree
  PROVE  CustodySpec => FeedIsTrue
<1>1. CustodySpec => RedeliveryHarmless
  BY CustodyStarts, CustodyStep, FeedKeeps, PTL DEF CustodySpec, RedeliveryHarmless
<1> QED  BY <1>1, OneTruth, PTL DEF FeedIsTrue

-----------------------------------------------------------------------------
(***************************************************************************)
(* The election chain.  Each file keeps the documents it was made from, so *)
(* whatever was revised in between, it is the one its operator makes of    *)
(* them; what a ready instruction says of them is then a fact of the       *)
(* operators alone.                                                        *)
(***************************************************************************)
NoticesRead == {CaMessage(n) : n \in ElectNotices}

EligibilityOf(n, c, lines, rules) ==
  [canon |-> c, positions |-> lines, notice |-> n, event |-> Bound(n, c),
   cells |-> Cells(Opportunity(n, c), lines, rules)]

BuiltFrom(i, n, c, lines, rules, q) ==
  /\ n \in NoticesRead /\ c \in Canons /\ lines \in Positions /\ rules \in RuleSets /\ q \in Requests
  /\ i = Instruction(EligibilityOf(n, c, lines, rules), Opportunity(n, c), q)

Composed(i) == \E n, c, lines, rules, q : BuiltFrom(i, n, c, lines, rules, q)

OpportunityMade ==
  opportunity = NoDoc \/ \E n \in NoticesRead, c \in Canons : opportunity = Opportunity(n, c)
EligibilityMade ==
  eligibility = NoDoc \/ \E n \in NoticesRead, c \in Canons, lines \in Positions, rules \in RuleSets :
                           eligibility = EligibilityOf(n, c, lines, rules)

\* The inductive invariant: the inputs are inputs, every file is made of such, and
\* what was written is a ready instruction with its message on the notice it names.
ElectInv ==
  /\ canonDoc \in Canons /\ latestNotice \in NoticesRead
  /\ positionsDoc \in Positions /\ rulesDoc \in RuleSets
  /\ OpportunityMade /\ EligibilityMade
  /\ instruction = NoDoc \/ Composed(instruction)
  /\ \A w \in written :
       \E i, m : /\ w = [instruction |-> i, message |-> m]
                 /\ Composed(i) /\ i.status = "READY"
                 /\ m \in {Mt565(i, i.notice), Seev033(i, i.notice)}

LEMMA ElectInitially == ElectInit => ElectInv
  BY ElectionAssumption DEF ElectInit, ElectInv, NoticesRead, OpportunityMade, EligibilityMade

LEMMA ElectStep == ElectInv /\ [ElectNext]_electVars => ElectInv'
<1> SUFFICES ASSUME ElectInv, [ElectNext]_electVars PROVE ElectInv'
  OBVIOUS
<1> USE DEF Files, inputVars
<1>1. CASE InputRevised
  BY <1>1 DEF InputRevised, ElectInv, OpportunityMade, EligibilityMade, NoticesRead
<1>2. CASE ProjectElection
  <2>1. OpportunityMade'
    BY <1>2 DEF ProjectElection, ElectInv, OpportunityMade
  <2> QED  BY <1>2, <2>1 DEF ProjectElection, ElectInv, EligibilityMade
<1>3. CASE ComputeEligibility
  <2>1. PICK n \in NoticesRead, c \in Canons : opportunity = Opportunity(n, c)
    BY <1>3 DEF ComputeEligibility, ElectInv, OpportunityMade
  <2>2. c = canonDoc /\ opportunity.notice = n /\ opportunity.event = Bound(n, c)
    BY <1>3, <2>1 DEF ComputeEligibility, Opportunity
  <2>3. eligibility' = EligibilityOf(n, c, positionsDoc, rulesDoc)
    BY <1>3, <2>1, <2>2 DEF ComputeEligibility, EligibilityOf
  <2>4. EligibilityMade'
    BY <2>3 DEF EligibilityMade, ElectInv
  <2> QED  BY <1>3, <2>4 DEF ComputeEligibility, ElectInv, OpportunityMade
<1>4. CASE BuildInstruction
  <2>1. PICK n \in NoticesRead, c \in Canons : opportunity = Opportunity(n, c)
    BY <1>4 DEF BuildInstruction, ElectInv, OpportunityMade
  <2>2. PICK n2 \in NoticesRead, c2 \in Canons, lines \in Positions, rules \in RuleSets :
          eligibility = EligibilityOf(n2, c2, lines, rules)
    BY <1>4 DEF BuildInstruction, ElectInv, EligibilityMade
  <2>3. n2 = n /\ c2 = c
    <3>1. opportunity.notice = n /\ opportunity.canon = c
      BY <2>1 DEF Opportunity
    <3>2. eligibility.notice = n2 /\ eligibility.canon = c2
      BY <2>2 DEF EligibilityOf
    <3> QED  BY <1>4, <3>1, <3>2 DEF BuildInstruction, Mismatch
  <2>4. PICK q \in Requests : instruction' = Instruction(eligibility, opportunity, q)
    BY <1>4 DEF BuildInstruction
  <2>5. BuiltFrom(instruction', n, c, lines, rules, q)
    BY <2>1, <2>2, <2>3, <2>4 DEF BuiltFrom
  <2>6. Composed(instruction')
    BY <2>5, Zenon DEF Composed
  <2> QED  BY <1>4, <2>6 DEF BuildInstruction, ElectInv, OpportunityMade, EligibilityMade
<1>5. ASSUME NEW m, m \in {Mt565(instruction, latestNotice), Seev033(instruction, latestNotice)},
             instruction # NoDoc, SameNotice(instruction, latestNotice),
             instruction.status = "READY", Handed(m)
      PROVE  ElectInv'
  <2>1. latestNotice = instruction.notice /\ Composed(instruction)
    BY <1>5 DEF SameNotice, ElectInv
  <2>2. written' = written \cup {[instruction |-> instruction, message |-> m]}
    BY <1>5 DEF Handed
  <2>3. m \in {Mt565(instruction, instruction.notice), Seev033(instruction, instruction.notice)}
    BY <1>5, <2>1
  <2>4. \A w \in written' :
          \E i, k : /\ w = [instruction |-> i, message |-> k]
                    /\ Composed(i) /\ i.status = "READY"
                    /\ k \in {Mt565(i, i.notice), Seev033(i, i.notice)}
    <3> SUFFICES ASSUME NEW w \in written'
                 PROVE  \E i, k : /\ w = [instruction |-> i, message |-> k]
                                  /\ Composed(i) /\ i.status = "READY"
                                  /\ k \in {Mt565(i, i.notice), Seev033(i, i.notice)}
      OBVIOUS
    <3>1. CASE w \in written
      BY <3>1 DEF ElectInv
    <3>2. CASE w = [instruction |-> instruction, message |-> m]
      BY <1>5, <2>1, <2>3, <3>2, Zenon
    <3> QED  BY <2>2, <3>1, <3>2
  <2> QED  BY <1>5, <2>4 DEF Handed, ElectInv, OpportunityMade, EligibilityMade
<1>6. CASE WriteMt565
  BY <1>5, <1>6 DEF WriteMt565, MtSerializable
<1>7. CASE WriteSeev033
  BY <1>5, <1>7 DEF WriteSeev033, MxSerializable
<1>8. CASE AdviceReceived
  BY <1>8 DEF AdviceReceived, ElectInv, OpportunityMade, EligibilityMade
<1>9. CASE UNCHANGED electVars
  BY <1>9 DEF electVars, ElectInv, OpportunityMade, EligibilityMade
<1> QED  BY <1>1, <1>2, <1>3, <1>4, <1>6, <1>7, <1>8, <1>9 DEF ElectNext

-----------------------------------------------------------------------------
\* The one element of a set of one.
LEMMA OneOf ==
  ASSUME NEW S, IsFiniteSet(S), Cardinality(S) = 1
  PROVE  \E v \in S : S = {v} /\ (CHOOSE w \in S : TRUE) = v
<1>1. PICK v : S = {v}
  BY FS_Singleton
<1> QED  BY <1>1

\* The event a notice is bound to is in the canon, the only one that fits it.
LEMMA BoundEvent ==
  ASSUME NEW n \in NoticesRead, NEW c \in Canons, Bound(n, c) # NoCanonEvent
  PROVE  /\ n.type # NoField
         /\ EventOf(Bound(n, c), c) \in c
         /\ \A e \in c \ {EventOf(Bound(n, c), c)} : e \notin Named(n, c) \/ ~Consistent(n, e)
<1>1. /\ n.type # NoField
      /\ Cardinality(Narrowed(n, c)) = 1
      /\ Bound(n, c) = (CHOOSE e \in Narrowed(n, c) : TRUE).id
  BY DEF Bound
<1>2. Named(n, c) \subseteq c /\ Narrowed(n, c) \subseteq Named(n, c)
  BY DEF Narrowed, Named
<1>3. IsFiniteSet(Narrowed(n, c)) /\ IsFiniteSet(Named(n, c))
  <2>1. IsFiniteSet(c)
    BY ElectionAssumption
  <2>2. Narrowed(n, c) \subseteq c
    BY <1>2
  <2> QED  BY <1>2, <2>1, <2>2, FS_Subset
<1>4. PICK e0 \in Narrowed(n, c) : /\ Narrowed(n, c) = {e0}
                                   /\ (CHOOSE w \in Narrowed(n, c) : TRUE) = e0
  BY <1>1, <1>3, OneOf
<1>5. e0 \in c /\ Bound(n, c) = e0.id
  BY <1>1, <1>2, <1>4
<1>6. EventOf(Bound(n, c), c) = e0
  <2>1. \A f \in c : f.id = e0.id => f = e0
    BY <1>5, ElectionAssumption
  <2> QED  BY <1>5, <2>1 DEF EventOf
<1>7. ASSUME NEW e \in c \ {e0}, e \in Named(n, c), Consistent(n, e) PROVE FALSE
  <2>1. CASE Cardinality(Named(n, c)) <= 1
    <3>1. Narrowed(n, c) = Named(n, c)
      BY <2>1 DEF Narrowed
    <3> QED  BY <1>4, <1>7, <3>1
  <2>2. CASE ~(Cardinality(Named(n, c)) <= 1)
    <3>1. e \in Narrowed(n, c)
      BY <1>7, <2>2 DEF Narrowed
    <3> QED  BY <1>4, <1>7, <3>1
  <2> QED  BY <2>1, <2>2
<1> QED  BY <1>1, <1>5, <1>6, <1>7

LEMMA NoticeFields ==
  ASSUME NEW n \in NoticesRead
  PROVE  IsFiniteSet(DOMAIN n.options)
<1>1. PICK m \in ElectNotices : n = CaMessage(m)
  BY DEF NoticesRead
<1>2. n.options = m.options
  BY <1>1 DEF CaMessage, MtMessage, MxMessage
<1> QED  BY <1>2, ElectionAssumption

\* There are finitely many cells: one for each line and option.
LEMMA CellsFinite ==
  ASSUME NEW n \in NoticesRead, NEW c \in Canons, NEW lines \in Positions, NEW rules \in RuleSets
  PROVE  IsFiniteSet(Cells(Opportunity(n, c), lines, rules))
<1> DEFINE opp == Opportunity(n, c)
           O == {n.options[k] : k \in Identified(n)}
           K == DOMAIN lines
           F(p) == [line |-> p[1], account |-> lines[p[1]].account, isin |-> lines[p[1]].isin,
                    option |-> p[2].id, kind |-> p[2].kind,
                    status |-> CellStatus(opp, lines, rules, p[1], p[2]),
                    quantity |-> lines[p[1]].quantity]
           C == {F(p) : p \in K \X O}
<1>1. IsFiniteSet(Identified(n))
  <2>1. Identified(n) \subseteq DOMAIN n.options
    BY DEF Identified
  <2> QED  BY <2>1, NoticeFields, FS_Subset
<1>2. IsFiniteSet(O)
  <2> DEFINE g == [k \in Identified(n) |-> n.options[k]]
  <2>1. g \in [Identified(n) -> O] /\ \A o \in O : \E k \in Identified(n) : g[k] = o
    OBVIOUS
  <2> HIDE DEF g, O
  <2>2. g \in Surjection(Identified(n), O)
    BY <2>1, Fun_IsSurj
  <2> QED  BY <1>1, <2>2, FS_Surjection
<1>3. IsFiniteSet(K)
  BY ElectionAssumption
<1>4. opp.options = O
  BY DEF Opportunity
<1> HIDE DEF O, K, opp
<1>5. IsFiniteSet(K \X O)
  BY <1>2, <1>3, FS_Product
<1>6. IsFiniteSet(C)
  <2> DEFINE g == [p \in K \X O |-> F(p)]
  <2> HIDE DEF F
  <2>1. g \in [K \X O -> C] /\ \A t \in C : \E p \in K \X O : g[p] = t
    OBVIOUS
  <2> HIDE DEF g, C
  <2>2. g \in Surjection(K \X O, C)
    BY <2>1, Fun_IsSurj
  <2> QED  BY <1>5, <2>2, FS_Surjection
<1>7. ASSUME NEW t \in Cells(opp, lines, rules) PROVE t \in C
  <2>1. PICK k \in K, o \in O :
          t = [line |-> k, account |-> lines[k].account, isin |-> lines[k].isin, option |-> o.id,
               kind |-> o.kind, status |-> CellStatus(opp, lines, rules, k, o),
               quantity |-> lines[k].quantity]
    BY <1>4 DEF Cells, K
  <2>2. <<k, o>> \in K \X O /\ t = F(<<k, o>>)
    BY <2>1
  <2> QED  BY <2>2
<1>8. Cells(opp, lines, rules) \subseteq C
  BY <1>7
<1> QED  BY <1>6, <1>8, FS_Subset DEF opp

\* What an eligible cell says of its line, its option and the event.
LEMMA EligibleCell ==
  ASSUME NEW n \in NoticesRead, NEW c \in Canons, NEW lines \in Positions, NEW rules \in RuleSets,
         NEW k \in DOMAIN lines, NEW o,
         CellStatus(Opportunity(n, c), lines, rules, k, o) = "ELIGIBLE"
  PROVE  /\ Bound(n, c) # NoCanonEvent
         /\ ~Unclear(n)
         /\ lines[k].isin = EventOf(Bound(n, c), c).isin
         /\ \E f \in DOMAIN EventOf(Bound(n, c), c).dates :
              lines[k].asOf = EventOf(Bound(n, c), c).dates[f]
<1> DEFINE opp == Opportunity(n, c)
           e == EventOf(Bound(n, c), c)
<1>1. /\ opp.canon = c /\ opp.event = Bound(n, c)
      /\ opp.projected = (Bound(n, c) # NoCanonEvent /\ ~Unclear(n))
  BY DEF Opportunity
<1> HIDE DEF opp
<1>2. /\ opp.projected
      /\ ~(Duplicate(lines, k) \/ lines[k].isin # EventOf(opp.event, opp.canon).isin)
      /\ ~(Cardinality(Applicable(o, rules)) # 1)
      /\ Snapshot(lines[k], BasisDay(o, rules, EventOf(opp.event, opp.canon)))
  BY Zenon DEF CellStatus, opp
<1>3. Bound(n, c) # NoCanonEvent /\ ~Unclear(n)
  BY <1>1, <1>2
<1>4. lines[k].isin = e.isin
  BY <1>1, <1>2
<1>5. RuleOf(o, rules) \in rules
  <2>1. Applicable(o, rules) # {}
    BY <1>2, FS_EmptySet
  <2> QED  BY <2>1 DEF RuleOf, Applicable
<1>6. RuleOf(o, rules).field \in {"ex", "rec"}
  BY <1>5, ElectionAssumption
<1>7. DOMAIN e.dates = {"ex", "rec"}
  <2>1. e \in c
    BY <1>3, BoundEvent
  <2> QED  BY <2>1, ElectionAssumption
<1>8. lines[k].asOf = e.dates[RuleOf(o, rules).field]
  BY <1>1, <1>2 DEF Snapshot, BasisDay
<1> QED  BY <1>3, <1>4, <1>6, <1>7, <1>8

\* What a ready instruction stands on: one event, one option, one line held in full.
ElectBacked(i, n, c, lines, q) ==
  LET event == EventOf(Bound(n, c), c)
      held == {k \in DOMAIN lines :
                 /\ lines[k].account = q.account
                 /\ lines[k].isin = i.cell.isin /\ i.cell.isin = event.isin
                 /\ \E f \in DOMAIN event.dates : lines[k].asOf = event.dates[f]}
  IN  /\ \A e \in c \ {event} : e \notin Named(n, c) \/ ~Consistent(n, e)
      /\ Cardinality({k \in DOMAIN n.options : n.options[k].id = q.option}) = 1
      /\ \E k \in held : lines[k].quantity = q.quantity /\ held = {k}

LEMMA ReadyIsBacked ==
  ASSUME NEW i, NEW n, NEW c, NEW lines, NEW rules, NEW q,
         BuiltFrom(i, n, c, lines, rules, q), i.status = "READY"
  PROVE  ElectBacked(i, n, c, lines, q)
<1> DEFINE opp == Opportunity(n, c)
           elig == EligibilityOf(n, c, lines, rules)
           M == Matches(elig, q)
           event == EventOf(Bound(n, c), c)
           held == {k \in DOMAIN lines :
                      /\ lines[k].account = q.account
                      /\ lines[k].isin = i.cell.isin /\ i.cell.isin = event.isin
                      /\ \E f \in DOMAIN event.dates : lines[k].asOf = event.dates[f]}
<1>1. /\ n \in NoticesRead /\ c \in Canons /\ lines \in Positions /\ rules \in RuleSets /\ q \in Requests
      /\ i = Instruction(elig, opp, q)
  BY DEF BuiltFrom
<1>2. elig.cells = Cells(opp, lines, rules)
  BY DEF EligibilityOf
<1> HIDE DEF elig
<1>3. /\ i.status = InstructionStatus(elig, opp, q)
      /\ i.cell = IF Cardinality(M) = 1 THEN Cell(elig, q) ELSE NoDoc
  BY <1>1 DEF Instruction
<1>4. /\ Cardinality(M) = 1
      /\ \E o \in opp.options : o.id = q.option
      /\ Cell(elig, q).status = "ELIGIBLE"
      /\ ~(q.quantity > Cell(elig, q).quantity) /\ ~(q.quantity < Cell(elig, q).quantity)
  <2>1. InstructionStatus(elig, opp, q) = "READY"
    BY <1>3
  <2> HIDE DEF opp
  <2> QED  BY <2>1, Zenon DEF InstructionStatus, M
<1>5. IsFiniteSet(M)
  <2>1. IsFiniteSet(Cells(opp, lines, rules))
    BY <1>1, CellsFinite
  <2>2. M \subseteq Cells(opp, lines, rules)
    BY <1>2 DEF Matches
  <2> QED  BY <2>1, <2>2, FS_Subset
<1>6. PICK cell \in M : M = {cell} /\ Cell(elig, q) = cell
  <2> HIDE DEF M
  <2>1. PICK v \in M : M = {v} /\ (CHOOSE w \in M : TRUE) = v
    BY <1>4, <1>5, OneOf
  <2> QED  BY <2>1 DEF Cell, M
<1>7. opp.options = {n.options[k] : k \in Identified(n)}
  BY DEF Opportunity
<1> HIDE DEF opp
<1>8. PICK k \in DOMAIN lines, o \in opp.options :
        cell = [line |-> k, account |-> lines[k].account, isin |-> lines[k].isin, option |-> o.id,
                kind |-> o.kind, status |-> CellStatus(opp, lines, rules, k, o),
                quantity |-> lines[k].quantity]
  <2>1. cell \in Cells(opp, lines, rules)
    BY <1>2, <1>6 DEF Matches
  <2> QED  BY <2>1 DEF Cells
<1>9. /\ cell.line = k /\ cell.account = lines[k].account /\ cell.isin = lines[k].isin
      /\ cell.option = o.id /\ cell.quantity = lines[k].quantity
      /\ cell.status = CellStatus(opp, lines, rules, k, o)
  BY <1>8
<1>10. lines[k].account = q.account /\ o.id = q.option
  BY <1>6, <1>9 DEF Matches
<1>11. CellStatus(opp, lines, rules, k, o) = "ELIGIBLE"
  BY <1>4, <1>6, <1>9
<1>12. /\ Bound(n, c) # NoCanonEvent /\ ~Unclear(n)
       /\ lines[k].isin = event.isin
       /\ \E f \in DOMAIN event.dates : lines[k].asOf = event.dates[f]
  <2>1. CellStatus(Opportunity(n, c), lines, rules, k, o) = "ELIGIBLE"
    BY <1>11 DEF opp
  <2> QED  BY <1>1, <2>1, EligibleCell
<1>13. n.type # NoField /\ \A e \in c \ {event} : e \notin Named(n, c) \/ ~Consistent(n, e)
  BY <1>1, <1>12, BoundEvent
<1>14. Cardinality({j \in DOMAIN n.options : n.options[j].id = q.option}) = 1
  <2>1. PICK j0 \in Identified(n) : o = n.options[j0]
    BY <1>7, <1>8
  <2>2. q.option # NoId
    BY <1>10, <2>1 DEF Identified
  <2>3. \A j \in DOMAIN n.options : n.options[j].id = q.option => j \in Identified(n)
    BY <1>13, <2>2 DEF Identified
  <2>4. ~Twice(n)
    BY <1>12 DEF Unclear
  <2>5. {j \in DOMAIN n.options : n.options[j].id = q.option} = {j0}
    <3>1. j0 \in DOMAIN n.options
      BY DEF Identified
    <3>2. ASSUME NEW j \in DOMAIN n.options, n.options[j].id = q.option PROVE j = j0
      BY <1>10, <2>1, <2>3, <2>4, <3>2 DEF Twice
    <3> QED  BY <1>10, <2>1, <3>1, <3>2
  <2> QED  BY <2>5, FS_Singleton
<1>15. i.cell = cell
  BY <1>3, <1>4, <1>6
<1>16. k \in held
  BY <1>9, <1>10, <1>12, <1>15
<1>17. lines[k].quantity = q.quantity
  <2>1. q.quantity \in Int /\ lines[k].quantity \in Int
    BY <1>1, ElectionAssumption
  <2> QED  BY <1>4, <1>6, <1>9, <2>1
<1>18. ASSUME NEW j \in held PROVE j = k
  <2> DEFINE G(a, b) == [line |-> a, account |-> lines[a].account, isin |-> lines[a].isin,
                         option |-> b.id, kind |-> b.kind,
                         status |-> CellStatus(opp, lines, rules, a, b),
                         quantity |-> lines[a].quantity]
             d == G(j, o)
  <2>1. j \in DOMAIN lines /\ lines[j].account = q.account
    OBVIOUS
  <2>2. d \in Cells(opp, lines, rules)
    <3>1. Cells(opp, lines, rules) = {G(a, b) : a \in DOMAIN lines, b \in opp.options}
      BY DEF Cells
    <3> HIDE DEF G
    <3> QED  BY <2>1, <3>1
  <2>3. d.account = q.account /\ d.option = q.option /\ d.line = j
    BY <1>10, <2>1
  <2> HIDE DEF d
  <2>4. d \in M
    BY <1>2, <2>2, <2>3 DEF Matches
  <2> QED  BY <1>6, <1>9, <2>3, <2>4
<1>19. held = {k}
  <2> HIDE DEF held
  <2> QED  BY <1>16, <1>18
<1> QED  BY <1>13, <1>14, <1>16, <1>17, <1>19 DEF ElectBacked

-----------------------------------------------------------------------------
LEMMA ElectInvBacked == ElectInv => ElectionBacked
<1> SUFFICES ASSUME ElectInv, NEW w \in written
             PROVE  LET i == w.instruction
                        event == EventOf(i.event, i.canon)
                        held == {k \in DOMAIN i.positions :
                                   /\ i.positions[k].account = w.message.account
                                   /\ i.positions[k].isin = w.message.isin /\ w.message.isin = event.isin
                                   /\ \E f \in DOMAIN event.dates : i.positions[k].asOf = event.dates[f]}
                    IN  /\ w.message.corps = i.notice.corps
                        /\ \A e \in i.canon \ {event} :
                             e \notin Named(i.notice, i.canon) \/ ~Consistent(i.notice, e)
                        /\ Cardinality({n \in DOMAIN i.notice.options :
                                          i.notice.options[n].id = w.message.option}) = 1
                        /\ \E k \in held : i.positions[k].quantity = w.message.quantity /\ held = {k}
  BY Zenon DEF ElectionBacked
<1>1. PICK i, m : /\ w = [instruction |-> i, message |-> m]
                  /\ Composed(i) /\ i.status = "READY"
                  /\ m \in {Mt565(i, i.notice), Seev033(i, i.notice)}
  BY DEF ElectInv
<1>2. w.instruction = i /\ w.message = m
  BY <1>1
<1>3. PICK n, c, lines, rules, q : BuiltFrom(i, n, c, lines, rules, q)
  BY <1>1, Zenon DEF Composed
<1>4. i.request = q /\ i.event = Bound(n, c) /\ i.canon = c /\ i.positions = lines /\ i.notice = n
  <2>1. i = Instruction(EligibilityOf(n, c, lines, rules), Opportunity(n, c), q)
    BY <1>3 DEF BuiltFrom
  <2>2. LET elig == EligibilityOf(n, c, lines, rules)
        IN  elig.event = Bound(n, c) /\ elig.canon = c /\ elig.positions = lines /\ elig.notice = n
    BY DEF EligibilityOf
  <2> QED  BY <2>1, <2>2 DEF Instruction
<1>5. /\ m.corps = n.corps /\ m.isin = i.cell.isin /\ m.account = q.account
      /\ m.option = q.option /\ m.quantity = q.quantity
  BY <1>1, <1>4 DEF Mt565, Seev033
<1>6. ElectBacked(i, n, c, lines, q)
  BY <1>1, <1>3, ReadyIsBacked
<1> QED  BY <1>2, <1>4, <1>5, <1>6 DEF ElectBacked

\* Whichever commands are run on files of whatever age, and however the canon, the
\* notice, the positions and the rules are revised in between, what was written is
\* what was held (mt565.py, seev033.py, election_instruction.py and
\* election_eligibility.py).
THEOREM WrittenIsBacked == ElectSpec => []ElectionBacked
  BY ElectInitially, ElectStep, ElectInvBacked, PTL DEF ElectSpec

\* What is counted stays within its bounds, and the advice is one of those there are.
AdviceStatuses == {"ACCEPTED", "REJECTED", "PENDING", "DEFAULT_ACTION_APPLIED", "UNSUPPORTED"}
ElectCounts ==
  /\ IsFiniteSet(written) /\ Cardinality(written) <= MaxWritten
  /\ revisions \in 0..MaxRevisions
  /\ advice = NoDoc \/ advice.status \in AdviceStatuses

LEMMA ElectCounted == ElectCounts /\ [ElectNext]_electVars => ElectCounts'
<1> SUFFICES ASSUME ElectCounts, [ElectNext]_electVars PROVE ElectCounts'
  OBVIOUS
<1>1. ASSUME NEW m, Handed(m) PROVE ElectCounts'
  <2> DEFINE w == [instruction |-> instruction, message |-> m]
  <2>1. written' = written \cup {w} /\ Cardinality(written) < MaxWritten
    BY <1>1 DEF Handed
  <2> HIDE DEF w
  <2>2. /\ IsFiniteSet(written')
        /\ Cardinality(written') \in {Cardinality(written), Cardinality(written) + 1}
    BY <2>1, FS_AddElement DEF ElectCounts
  <2>3. Cardinality(written) \in Nat /\ MaxWritten \in Nat
    BY FS_CardinalityType, ElectionAssumption DEF ElectCounts
  <2>4. Cardinality(written') <= MaxWritten
    BY <2>1, <2>2, <2>3
  <2> QED BY <1>1, <2>2, <2>4 DEF Handed, ElectCounts
<1>2. CASE InputRevised
  <2>1. revisions' \in 0..MaxRevisions
    BY <1>2, ElectionAssumption DEF InputRevised, Revised, ElectCounts
  <2> QED BY <1>2, <2>1 DEF InputRevised, Files, ElectCounts
<1>3. CASE AdviceReceived
  <2>1. PICK a \in Advices :
          advice' = [refs |-> a.refs, binding |-> AdviceBinding(instruction, a.refs),
                     status |-> Normalized(a.says),
                     event |-> IF AdviceBinding(instruction, a.refs) = "BOUND" THEN instruction.event
                               ELSE NoCanonEvent]
    BY <1>3 DEF AdviceReceived
  <2>2. \A choices : Normalized(choices) \in AdviceStatuses
    BY DEF Normalized, AdviceStatuses
  <2>3. advice'.status \in AdviceStatuses
    BY <2>1, <2>2
  <2> QED BY <1>3, <2>3 DEF AdviceReceived, ElectCounts
<1>4. CASE WriteMt565 \/ WriteSeev033
  BY <1>1, <1>4 DEF WriteMt565, WriteSeev033
<1>5. CASE ProjectElection \/ ComputeEligibility \/ BuildInstruction \/ UNCHANGED electVars
  <2>1. UNCHANGED <<written, advice, revisions>>
    BY <1>5 DEF ProjectElection, ComputeEligibility, BuildInstruction, electVars
  <2> QED BY <2>1 DEF ElectCounts
<1> QED BY <1>2, <1>3, <1>4, <1>5 DEF ElectNext

LEMMA ElectFilesTyped == ElectInv /\ ElectCounts => ElectTypeOK
<1> SUFFICES ASSUME ElectInv, ElectCounts PROVE ElectTypeOK
  OBVIOUS
<1>1. \E n \in ElectNotices : n.no = latestNotice.no
  BY DEF ElectInv, NoticesRead, CaMessage, MtMessage, MxMessage
<1>2. opportunity = NoDoc \/ opportunity.event \in {e.id : e \in opportunity.canon} \cup {NoCanonEvent}
  <2> SUFFICES ASSUME NEW n \in NoticesRead, NEW c \in Canons, opportunity = Opportunity(n, c)
               PROVE  opportunity.event \in {e.id : e \in opportunity.canon} \cup {NoCanonEvent}
    BY DEF ElectInv, OpportunityMade
  <2>1. opportunity.event = Bound(n, c) /\ opportunity.canon = c
    BY DEF Opportunity
  <2>2. Narrowed(n, c) \subseteq c
    BY DEF Narrowed, Named
  <2>3. Cardinality(Narrowed(n, c)) = 1 => Narrowed(n, c) # {}
    BY FS_EmptySet
  <2> QED BY <2>1, <2>2, <2>3 DEF Bound
<1>3. instruction = NoDoc \/ instruction.status \in {"READY", "INDETERMINATE", "UNSUPPORTED"}
  <2>1. \A elig, opp, q : InstructionStatus(elig, opp, q) \in {"READY", "INDETERMINATE", "UNSUPPORTED"}
    BY DEF InstructionStatus
  <2>2. \A i : Composed(i) => \E elig, opp, q : i.status = InstructionStatus(elig, opp, q)
    BY DEF Composed, BuiltFrom, Instruction
  <2> QED BY <2>1, <2>2 DEF ElectInv
<1> QED BY <1>1, <1>2, <1>3 DEF ElectTypeOK, ElectInv, ElectCounts, AdviceStatuses

\* Every file of the election chain has its type, and what is counted its bound.
THEOREM ElectionTyped == ElectSpec => []ElectTypeOK
<1>1. ElectInit => ElectCounts
  BY FS_EmptySet, ElectionAssumption DEF ElectInit, ElectCounts
<1> QED BY <1>1, ElectInitially, ElectStep, ElectCounted, ElectFilesTyped, PTL DEF ElectSpec

-----------------------------------------------------------------------------
(***************************************************************************)
(* Withholding tax.  Two rules that one profile meets on one day touch,    *)
(* and have no field on which they are disjoint; and every check that is   *)
(* passed says something of all that is declared.                          *)
(***************************************************************************)

LEMMA OneRuleAtMost ==
  ASSUME TaxAssumption, TaxEventTypeOK, ValidRules, NEW p
  PROVE  Cardinality({r \in Active : Satisfies(p, r)}) <= 1
<1> DEFINE met == {r \in Active : Satisfies(p, r)}
<1>1. ASSUME NEW r \in met, NEW s \in met, r # s PROVE FALSE
  <2>1. r \in ruleset /\ s \in ruleset /\ InForce(r, payDay) /\ InForce(s, payDay)
    BY DEF Active
  <2>2. /\ r.from \in Int /\ r.to \in Int /\ s.from \in Int /\ s.to \in Int /\ payDay \in Int
    BY <2>1 DEF TaxAssumption, TaxEventTypeOK
  <2>3. Touching(r, s)
    BY <2>1, <2>2 DEF InForce, Touching
  <2>4. Satisfies(p, r) /\ Satisfies(p, s)
    OBVIOUS
  <2>5. ~Disjoint(r, s)
    BY <2>4 DEF Satisfies, Disjoint
  <2>6. ~Overlap(r, s)
    BY <1>1, <2>1 DEF ValidRules
  <2> QED BY <2>3, <2>5, <2>6 DEF Overlap
<1> HIDE DEF met
<1>2. ASSUME met = {} PROVE Cardinality(met) <= 1
  BY <1>2, FS_EmptySet
<1>3. ASSUME met # {} PROVE Cardinality(met) <= 1
  <2>1. PICK r \in met : TRUE
    BY <1>3
  <2>2. met = {r}
    BY <1>1, <2>1
  <2>3. Cardinality(met) = 1
    BY <2>2, FS_Singleton
  <2> QED BY <2>3
<1> QED BY <1>2, <1>3 DEF met

LEMMA ItemsAre ==
  ASSUME TaxAssumption, TaxEventTypeOK, NEW n \in DOMAIN taxInbox
  PROVE  /\ IsFiniteSet(ItemsOf(n))
         /\ \A i \in ItemsOf(n) : i.kind \in {"rate", "amount"} /\ i.value \in Int
<1> DEFINE m == taxInbox[n]
           item(k) == [at |-> <<n, IF m.lines[k].option = NoOption THEN 0 ELSE 1, k>>,
                       type |-> TaxTypeOf(m.lines[k].qualifier), kind |-> m.lines[k].kind,
                       option |-> m.lines[k].option, value |-> m.lines[k].value,
                       currency |-> CurrencyOf(m, k)]
           T == {item(k) : k \in DOMAIN m.lines}
           f == [k \in DOMAIN m.lines |-> item(k)]
<1>1. m \in TaxMessages
  BY DEF TaxEventTypeOK
<1>2. /\ m.lines \in Seq({m.lines[k] : k \in DOMAIN m.lines})
      /\ \A k \in DOMAIN m.lines : m.lines[k].kind \in {"rate", "amount"} /\ m.lines[k].value \in Int
  BY <1>1 DEF TaxAssumption
<1>3. ItemsOf(n) = T
  BY DEF ItemsOf
<1>4. \A k : item(k).kind = m.lines[k].kind /\ item(k).value = m.lines[k].value
  OBVIOUS
<1> HIDE DEF item
<1>5. f \in Surjection(DOMAIN m.lines, T)
  BY DEF Surjection
<1>6. IsFiniteSet(DOMAIN m.lines)
  <2>1. DOMAIN m.lines = 1..Len(m.lines) /\ Len(m.lines) \in Nat
    BY <1>2
  <2> QED BY <2>1, FS_Interval
<1>7. IsFiniteSet(T)
  <2> HIDE DEF f, T, m
  <2> QED BY <1>5, <1>6, FS_Surjection
<1>8. \A i \in T : i.kind \in {"rate", "amount"} /\ i.value \in Int
  BY <1>2, <1>4
<1> QED BY <1>3, <1>7, <1>8

LEMMA EvidenceIs ==
  ASSUME TaxAssumption, TaxEventTypeOK, NEW role
  PROVE  /\ IsFiniteSet(Evidence(role))
         /\ \A i \in Evidence(role) : i.kind \in {"rate", "amount"} /\ i.value \in Int
<1> DEFINE N == Telling(role)
           T == {ItemsOf(n) : n \in N}
           f == [n \in N |-> ItemsOf(n)]
<1>1. N \subseteq DOMAIN taxInbox
  BY DEF Telling
<1>2. IsFiniteSet(N)
  <2>1. DOMAIN taxInbox = 1..Len(taxInbox) /\ Len(taxInbox) \in Nat
    BY DEF TaxEventTypeOK
  <2>2. IsFiniteSet(DOMAIN taxInbox)
    BY <2>1, FS_Interval
  <2> HIDE DEF N
  <2> QED BY <1>1, <2>2, FS_Subset
<1>3. Evidence(role) = UNION T
  BY DEF Evidence
<1> HIDE DEF N
<1>4. f \in Surjection(N, T)
  BY DEF Surjection
<1>5. IsFiniteSet(T)
  <2> HIDE DEF f, T
  <2> QED BY <1>2, <1>4, FS_Surjection
<1>6. \A t \in T : IsFiniteSet(t)
  BY <1>1, ItemsAre
<1>7. \A i \in UNION T : i.kind \in {"rate", "amount"} /\ i.value \in Int
  BY <1>1, ItemsAre
<1> HIDE DEF T
<1>8. IsFiniteSet(UNION T)
  BY <1>5, <1>6, FS_UNION
<1> QED BY <1>3, <1>7, <1>8

LEMMA ValuesAre ==
  ASSUME TaxAssumption, TaxEventTypeOK, NEW type, NEW kind
  PROVE  IsFiniteSet(ValuesOf(Declared(type, kind))) /\ ValuesOf(Declared(type, kind)) \subseteq Int
<1> DEFINE S == Declared(type, kind)
           f == [i \in S |-> i.value]
<1>1. S \subseteq Evidence("EXPECTED")
  BY DEF Declared
<1>2. IsFiniteSet(S) /\ \A i \in S : i.value \in Int
  BY <1>1, EvidenceIs, FS_Subset
<1> HIDE DEF S
<1>3. f \in Surjection(S, ValuesOf(S))
  BY DEF Surjection, ValuesOf
<1>4. IsFiniteSet(ValuesOf(S))
  <2> HIDE DEF f
  <2> QED BY <1>2, <1>3, FS_Surjection
<1> QED BY <1>2, <1>4 DEF ValuesOf, S

\* Of a calculated tax there is one rule, and what the messages declare agrees with it.
LEMMA CalculatedIsBacked ==
  ASSUME TaxAssumption, TaxEventTypeOK, NEW a \in Owners, TaxStatus(a) = "CALCULATED"
  PROVE  /\ RuleFor(a) \in ruleset
         /\ Declared("SECOND", {"rate", "amount"}) = {}
         /\ RateOf(RuleFor(a)) \in Int /\ BasisOf(a) \in Int
         /\ RuleFor(a).source # "EXEMPT" => Rates \subseteq {RateOf(RuleFor(a))}
<1> DEFINE r == RuleFor(a)
<1>1. /\ Satisfied(a) # {} /\ Declared("SECOND", {"rate", "amount"}) = {}
      /\ RateProblem(r) = "NONE" /\ ~BasisProblem(r)
  <2>1. /\ Satisfied(a) # {} /\ Declared("SECOND", {"rate", "amount"}) = {}
        /\ ~(RateProblem(r) # "NONE" /\ RateProblem(r) # "CALCULATED")
    BY DEF TaxStatus
  <2>2. RateProblem(r) \in {"CONFLICTING", "INDETERMINATE", "NONE"}
    BY DEF RateProblem
  <2>3. RateProblem(r) = "NONE"
    BY <2>1, <2>2
  <2> QED BY <2>1, <2>3 DEF TaxStatus
<1>2. r \in ruleset
  <2>1. r \in Satisfied(a)
    BY <1>1 DEF RuleFor
  <2> QED BY <2>1 DEF Satisfied, Active
<1>3. /\ r.rate \in Int /\ r.source \in {"CONFIGURED", "SOURCE_DECLARED_RATE", "EXEMPT"}
  <2>1. r \in TaxRules
    BY <1>2 DEF TaxEventTypeOK
  <2> HIDE DEF r
  <2> QED BY <2>1 DEF TaxAssumption
<1>4. IsFiniteSet(Rates) /\ Rates \subseteq Int
  BY ValuesAre DEF Rates
<1>5. gross[a] \in Int
  BY DEF TaxAssumption, TaxEventTypeOK
<1> HIDE DEF r
<1>6. Cardinality(Rates) \in Nat /\ (Rates = {} => Cardinality(Rates) = 0)
  BY <1>4, FS_CardinalityType, FS_EmptySet
<1>7. RateOf(r) \in Int /\ (r.source # "EXEMPT" => Rates \subseteq {RateOf(r)})
  <2>1. CASE r.source = "EXEMPT"
    BY <2>1 DEF RateOf
  <2>2. CASE r.source = "SOURCE_DECLARED_RATE"
    <3>1. ~(Cardinality(Rates) > 1)
      BY <1>1, <1>6, <2>2 DEF RateProblem
    <3>2. Rates # {}
      BY <1>1, <1>6, <2>2 DEF RateProblem
    <3>3. Cardinality(Rates) = 1
      BY <1>4, <1>6, <3>1, <3>2, FS_EmptySet
    <3>4. PICK v : Rates = {v}
      BY <1>4, <3>3, FS_Singleton
    <3>5. RateOf(r) = v
      BY <2>2, <3>4 DEF RateOf
    <3> QED BY <1>4, <3>4, <3>5
  <2>3. CASE r.source = "CONFIGURED"
    <3>1. Rates \subseteq {r.rate}
      BY <1>1, <2>3 DEF RateProblem
    <3>2. RateOf(r) = r.rate
      BY <2>3 DEF RateOf
    <3> QED BY <1>3, <3>1, <3>2
  <2> QED BY <1>3, <2>1, <2>2, <2>3
<1>8. BasisOf(a) \in Int
  <2>1. CASE r.basis = "EXPLICIT_BASIS"
    <3>1. Cardinality(ValuesOf(Basis)) = 1
      BY <1>1, <2>1 DEF BasisProblem
    <3>2. IsFiniteSet(ValuesOf(Basis)) /\ ValuesOf(Basis) \subseteq Int
      BY ValuesAre DEF Basis
    <3>3. PICK v : ValuesOf(Basis) = {v}
      BY <3>1, <3>2, FS_Singleton
    <3> QED BY <2>1, <3>2, <3>3 DEF BasisOf, r
  <2>2. CASE r.basis # "EXPLICIT_BASIS"
    BY <1>5, <2>2 DEF BasisOf, r
  <2> QED BY <2>1, <2>2
<1> QED BY <1>1, <1>2, <1>7, <1>8 DEF r

LEMMA RoundedIs ==
  ASSUME NEW raw \in Int, NEW mode
  PROVE  Rounded(raw, mode) \in Int /\ (raw >= 0 => Rounded(raw, mode) >= 0)
<1>1. raw % 2 \in 0..1 /\ (raw = 0 => raw % 2 = 0)
  OBVIOUS
<1> DEFINE odd == raw % 2
<1>2. odd \in 0..1 /\ (raw = 0 => odd = 0)
  BY <1>1
<1> HIDE DEF odd
<1>3. /\ raw + odd \in Int /\ raw - odd \in Int
      /\ raw >= 0 => raw + odd >= 0 /\ raw - odd >= 0
  BY <1>2
<1> QED BY <1>3 DEF Rounded, odd

LEMMA TaxIsBacked == ASSUME TaxAssumption PROVE TaxEventTypeOK => NetIsBacked
<1> SUFFICES ASSUME TaxEventTypeOK, NEW a \in Owners
             PROVE  /\ ValidRules => \A p \in ProfilesOf(a) :
                         Cardinality({r \in Active : Satisfies(p, r)}) <= 1
                    /\ TaxStatus(a) = "CALCULATED" =>
                         /\ ~\E i \in Evidence("EXPECTED") : InScope(i) /\ i.type = "SECOND"
                         /\ RuleFor(a).source # "EXEMPT" =>
                              \A i \in Evidence("EXPECTED") :
                                InScope(i) /\ i.type = "PRIMARY" /\ i.kind = "rate" => i.value = RateOf(RuleFor(a))
                         /\ BasisOf(a) >= 0 /\ RateOf(RuleFor(a)) >= 0 => Withheld(a) >= 0
                         /\ Withheld(a) + ExpectedNet(a) = 2 * gross[a]
  BY DEF NetIsBacked
<1>1. ValidRules => \A p \in ProfilesOf(a) : Cardinality({r \in Active : Satisfies(p, r)}) <= 1
  BY OneRuleAtMost
<1> SUFFICES ASSUME TaxStatus(a) = "CALCULATED"
             PROVE  /\ ~\E i \in Evidence("EXPECTED") : InScope(i) /\ i.type = "SECOND"
                    /\ RuleFor(a).source # "EXEMPT" =>
                         \A i \in Evidence("EXPECTED") :
                           InScope(i) /\ i.type = "PRIMARY" /\ i.kind = "rate" => i.value = RateOf(RuleFor(a))
                    /\ BasisOf(a) >= 0 /\ RateOf(RuleFor(a)) >= 0 => Withheld(a) >= 0
                    /\ Withheld(a) + ExpectedNet(a) = 2 * gross[a]
  BY <1>1
<1>2. ~\E i \in Evidence("EXPECTED") : InScope(i) /\ i.type = "SECOND"
  <2>1. \A i \in Evidence("EXPECTED") : i.kind \in {"rate", "amount"}
    BY EvidenceIs
  <2> QED BY <2>1, CalculatedIsBacked DEF Declared
<1>3. ASSUME RuleFor(a).source # "EXEMPT", NEW i \in Evidence("EXPECTED"), InScope(i),
             i.type = "PRIMARY", i.kind = "rate"
      PROVE  i.value = RateOf(RuleFor(a))
  <2>1. i.value \in Rates
    BY <1>3 DEF Rates, ValuesOf, Declared
  <2> QED BY <1>3, <2>1, CalculatedIsBacked
<1> DEFINE basis == BasisOf(a)
           rate == RateOf(RuleFor(a))
           raw == basis * rate
<1>4. basis \in Int /\ rate \in Int
  BY CalculatedIsBacked
<1>5. Withheld(a) = Rounded(raw, RuleFor(a).round)
  BY DEF Withheld
<1> HIDE DEF basis, rate
<1>6. raw \in Int /\ (basis >= 0 /\ rate >= 0 => raw >= 0)
  BY <1>4, SMT
<1> HIDE DEF raw
<1>7. Withheld(a) \in Int /\ (basis >= 0 /\ rate >= 0 => Withheld(a) >= 0)
  BY <1>5, <1>6, RoundedIs
<1>8. gross[a] \in Int
  BY DEF TaxAssumption, TaxEventTypeOK
<1>9. Withheld(a) + ExpectedNet(a) = 2 * gross[a]
  BY <1>7, <1>8 DEF ExpectedNet
<1> QED BY <1>2, <1>3, <1>7, <1>9 DEF basis, rate

LEMMA ConfirmationIsHeard == ConfirmationHeard
<1>1. ASSUME NEW a \in Owners, ComparedStatus(a) = "MATCH"
      PROVE  /\ ValuesOf(Withholdings("amount")) \subseteq {Withheld(a)}
             /\ ValuesOf(Withholdings("rate")) \subseteq {RateOf(RuleFor(a))}
  <2>1. AmountStatus(a) = "MATCH" /\ RateStatus(a) = "MATCH"
    BY <1>1 DEF ComparedStatus
  <2>2. \A s : s = {} => ValuesOf(s) = {}
    BY DEF ValuesOf
  <2> QED BY <2>1, <2>2 DEF AmountStatus, RateStatus
<1>2. \A i \in Actual : i.type \in {"GROSS", "NET"} \/ i \in Unexpected
       \/ \E a \in Owners : /\ TaxStatus(a) = "CALCULATED"
                            /\ i \in Withholdings("amount")
                                 \/ (i \in Withholdings("rate") /\ AmountStatus(a) = "MATCH")
  <2> SUFFICES ASSUME NEW i \in Actual, ~(i.type \in {"GROSS", "NET"}), ~(i \in Unexpected)
               PROVE  \E a \in Owners : /\ TaxStatus(a) = "CALCULATED"
                                        /\ \/ i \in Withholdings("amount")
                                           \/ i \in Withholdings("rate") /\ AmountStatus(a) = "MATCH"
    BY Zenon
  <2>1. PICK a \in Owners : i \in UsedBy(a)
    BY DEF Unexpected
  <2> QED BY <2>1 DEF UsedBy
<1> QED BY <1>1, <1>2 DEF ConfirmationHeard

TaxEventSpec == TaxEventInit /\ [][TaxEventNext]_taxEventVars

LEMMA TaxEventTypeStep ==
  ASSUME TaxAssumption PROVE TaxEventTypeOK /\ [TaxEventNext]_taxEventVars => TaxEventTypeOK'
<1> SUFFICES ASSUME TaxEventTypeOK, [TaxEventNext]_taxEventVars PROVE TaxEventTypeOK'
  OBVIOUS
<1> USE DEF TaxEventTypeOK
<1>0. Changed => taxChanges' \in 0..MaxTaxChanges
  BY DEF Changed, TaxAssumption
<1>1. CASE MessageProcessed
  <2>1. PICK m \in TaxMessages : taxInbox' = Append(taxInbox, m)
    BY <1>1 DEF MessageProcessed
  <2>2. taxInbox' \in Seq(TaxMessages)
    BY <2>1
  <2> QED BY <1>0, <1>1, <2>2 DEF MessageProcessed
<1>2. CASE RulesEdited
  BY <1>0, <1>2 DEF RulesEdited, SymDiff
<1>3. CASE ProfilesEdited
  BY <1>0, <1>3 DEF ProfilesEdited, SymDiff
<1>4. CASE FactsMoved
  <2>1. gross' \in [Owners -> GrossAmounts] /\ payDay' \in 0..2
    BY <1>4 DEF FactsMoved
  <2> QED BY <1>0, <1>4, <2>1 DEF FactsMoved
<1>5. CASE OptionAsked
  BY <1>0, <1>5 DEF OptionAsked
<1>6. CASE UNCHANGED taxEventVars
  BY <1>6 DEF taxEventVars
<1> QED BY <1>1, <1>2, <1>3, <1>4, <1>5, <1>6 DEF TaxEventNext

\* Whatever messages, rules, profiles and facts come in whatever order, a net amount
\* is expected only where nothing contradicts it, no profile meets two rules of a
\* valid ruleset, and no confirmation goes unheard (tax_entitlement.py, tax_recon.py).
THEOREM TaxStandsOnEvidence ==
  ASSUME TaxAssumption PROVE TaxEventSpec => [](TaxEventTypeOK /\ TaxAccounted)
<1>1. TaxEventInit => TaxEventTypeOK
  BY DEF TaxEventInit, TaxEventTypeOK, TaxAssumption
<1>2. TaxEventTypeOK => TaxAccounted
  BY TaxIsBacked, ConfirmationIsHeard DEF TaxAccounted
<1> QED BY <1>1, <1>2, TaxEventTypeStep, PTL DEF TaxEventSpec
=============================================================================
