------------------------------- MODULE Kyc_proofs -------------------------------
(***************************************************************************)
(* Proofs about Kyc for any number of members, records, cards, reviewers   *)
(* and forms.                                                              *)
(***************************************************************************)
EXTENDS Kyc, TLAPS

\* The row lock: a record under review is pending, and under one review.
Locked == \A v \in Reviewer :
    pc[v] \in {"read", "commit"} =>
        /\ status[rec[v]] = "PENDING"
        /\ \A w \in Reviewer : pc[w] \in {"read", "commit"} /\ rec[w] = rec[v] => w = v

Approved(st, m, k) == \E r \in Record : Of[r] = m /\ st[r] = "VERIFIED" /\ CardOf[r] = k

\* What an open form holds was true of the member once: it is backed as well.
FormsBacked == \A f \in Form : stage[f] # "closed" /\ form[f] \notin typed =>
    /\ held[f].shown = "VERIFIED" => held[f].verified
    /\ held[f].verified => Approved(status, form[f], held[f].card)

IInv == TypeOK /\ Locked /\ FormsBacked /\ Backed /\ ApprovalLasts

-----------------------------------------------------------------------------
LEMMA BlankTyped == Blank \in Sheets /\ \A m \in Member : TypeOK => Held(m) \in Sheets
  BY DEF Blank, Sheets, Shown, Decided, Cards, Held, TypeOK

LEMMA InitIInv == Init => IInv
<1> SUFFICES ASSUME Init PROVE IInv
  OBVIOUS
<1>1. TypeOK
  BY BlankTyped DEF Init, TypeOK, Shown, Cards
<1>2. Locked /\ FormsBacked /\ Backed /\ ApprovalLasts
  BY DEF Init, Locked, FormsBacked, Backed, ApprovalLasts
<1> QED BY <1>1, <1>2 DEF IInv

\* A step that leaves the tables and the forms alone and decides nothing only has
\* to keep types and locks.
LEMMA TablesKept ==
  ASSUME IInv, UNCHANGED <<table, edit, past>>
  PROVE  (FormsBacked /\ Backed /\ ApprovalLasts)'
<1>1. UNCHANGED <<status, verified, shown, card, form, held, stage, typed, reverted, missed>>
  BY DEF table, edit, past
<1>2. \A m, k : Approved(status', m, k) = Approved(status, m, k)
  BY <1>1 DEF Approved
<1>3. FormsBacked'
  BY <1>1, <1>2 DEF IInv, FormsBacked
<1>4. Backed'
  BY <1>1 DEF IInv, Backed
<1>5. ApprovalLasts'
  BY <1>1 DEF IInv, ApprovalLasts
<1> QED BY <1>3, <1>4, <1>5

\* Steps of a review before its commit.
LEMMA ReviewStep ==
  ASSUME IInv, NEW v \in Reviewer,
         (\E r \in Record, p \in BOOLEAN : Call(v, r, p)) \/ LockRecord(v) \/ WriteMember(v) \/ Abort(v)
  PROVE  IInv'
<1> USE KycTyped
<1>1. UNCHANGED <<table, edit, past>>
  BY DEF Call, LockRecord, WriteMember, Abort
<1>2. (FormsBacked /\ Backed /\ ApprovalLasts)'
  BY <1>1, TablesKept
<1>3. UNCHANGED <<status, verified, shown, card, gone, form, held, stage, typed, reverted, missed>>
  BY <1>1 DEF table, edit, past
<1>4. CASE \E r \in Record, p \in BOOLEAN : Call(v, r, p)
  <2>1. TypeOK'
    BY <1>3, <1>4 DEF IInv, TypeOK, Call
  <2>2. Locked'
    BY <1>3, <1>4 DEF IInv, TypeOK, Locked, Call
  <2> QED BY <1>2, <2>1, <2>2 DEF IInv
<1>5. CASE LockRecord(v)
  <2>1. TypeOK'
    BY <1>3, <1>5, ZenonT(30) DEF IInv, TypeOK, LockRecord, Goto, End
  <2>2. Locked'
    BY <1>3, <1>5 DEF IInv, TypeOK, Locked, LockRecord, Goto, End, HoldsRecord
  <2> QED BY <1>2, <2>1, <2>2 DEF IInv
<1>6. CASE WriteMember(v)
  <2>1. \/ pc[v] = "read" /\ pc' = [pc EXCEPT ![v] = "commit"] /\ UNCHANGED <<rec, pass>>
        \/ End(v)
    BY <1>6 DEF WriteMember, Goto
  <2>2. TypeOK'
    BY <1>3, <1>6, <2>1, ZenonT(30) DEF IInv, TypeOK, WriteMember, End
  <2>3. Locked'
    BY <1>3, <2>1 DEF IInv, TypeOK, Locked, End
  <2> QED BY <1>2, <2>2, <2>3 DEF IInv
<1>7. CASE Abort(v)
  <2>1. TypeOK'
    BY <1>3, <1>7 DEF IInv, TypeOK, Abort, End
  <2>2. Locked'
    BY <1>3, <1>7 DEF IInv, TypeOK, Locked, Abort, End
  <2> QED BY <1>2, <2>1, <2>2 DEF IInv
<1> QED BY <1>4, <1>5, <1>6, <1>7

LEMMA CommitStep == ASSUME IInv, NEW v \in Reviewer, Commit(v) PROVE IInv'
<1> USE KycTyped
<1> DEFINE r == rec[v] m == Of[r]
           ver == verified[m] \/ pass[v]
           k == IF pass[v] THEN CardOf[r] ELSE card[m]
<1>1. /\ r \in Record /\ m \in Member /\ status[r] = "PENDING" /\ pc[v] = "commit"
      /\ ver \in BOOLEAN /\ k \in Cards /\ Outcome(v) \in Decided
  BY DEF IInv, TypeOK, Locked, Commit, Decide, Cards, Outcome, Decided
<1>2. /\ pc' = [pc EXCEPT ![v] = "idle"] /\ rec' = [rec EXCEPT ![v] = None] /\ pass' = [pass EXCEPT ![v] = FALSE]
      /\ status' = [status EXCEPT ![r] = Outcome(v)]
      /\ UNCHANGED <<gone, form, held, stage, typed>>
      /\ missed' = IF pass[v] /\ gone[m] THEN missed \cup {r} ELSE missed
      /\ reverted' = IF pass[v] /\ ~gone[m] THEN reverted \ {m} ELSE reverted
  BY DEF Commit, Decide, End, edit
<1>3. \/ gone[m] /\ UNCHANGED <<verified, shown, card>>
      \/ /\ ~gone[m]
         /\ verified' = [verified EXCEPT ![m] = ver]
         /\ shown' = [shown EXCEPT ![m] = Outcome(v)]
         /\ card' = [card EXCEPT ![m] = k]
  BY DEF Commit, Decide
<1>4. \A s \in Record : status[s] = "VERIFIED" => status'[s] = "VERIFIED"
  BY <1>1, <1>2 DEF IInv, TypeOK
<1>5. \A n, c : Approved(status, n, c) => Approved(status', n, c)
  BY <1>4 DEF Approved
<1>6. TypeOK'
  BY <1>1, <1>2, <1>3 DEF IInv, TypeOK, Shown, Decided
<1>7. Locked'
  BY <1>1, <1>2 DEF IInv, TypeOK, Locked
<1>8. FormsBacked'
  BY <1>2, <1>5 DEF IInv, FormsBacked
<1>9. Backed'
  <2> SUFFICES ASSUME NEW n \in Member, n \notin typed
               PROVE  /\ shown'[n] = "VERIFIED" => verified'[n]
                      /\ verified'[n] => Approved(status', n, card'[n])
    BY <1>2 DEF Backed, Approved
  <2>1. /\ shown[n] = "VERIFIED" => verified[n]
        /\ verified[n] => Approved(status, n, card[n])
    BY DEF IInv, Backed, Approved
  <2>2. CASE gone[m] \/ n # m
    <3>1. shown'[n] = shown[n] /\ verified'[n] = verified[n] /\ card'[n] = card[n]
      BY <1>1, <1>3, <2>2 DEF IInv, TypeOK
    <3> QED BY <1>5, <2>1, <3>1
  <2>3. CASE ~gone[m] /\ n = m /\ pass[v]
    <3>1. status'[r] = "VERIFIED" /\ verified'[n] /\ card'[n] = CardOf[r]
      BY <1>1, <1>2, <1>3, <2>3 DEF IInv, TypeOK, Outcome
    <3>2. Approved(status', n, card'[n])
      BY <1>1, <2>3, <3>1 DEF Approved
    <3> QED BY <3>1, <3>2
  <2>4. CASE ~gone[m] /\ n = m /\ ~pass[v]
    <3>1. shown'[n] = "REJECTED" /\ verified'[n] = verified[n] /\ card'[n] = card[n]
      BY <1>1, <1>3, <2>4 DEF IInv, TypeOK, Outcome
    <3> QED BY <1>5, <2>1, <3>1
  <2> QED BY <2>2, <2>3, <2>4
<1>10. ApprovalLasts'
  <2> SUFFICES ASSUME NEW s \in Record, status'[s] = "VERIFIED"
               PROVE  verified'[Of[s]] \/ Of[s] \in typed \cup reverted' \/ s \in missed'
    BY <1>2 DEF ApprovalLasts
  <2>1. Of[s] \in Member
    OBVIOUS
  <2>2. CASE s = r
    <3>1. pass[v]
      BY <1>1, <1>2, <2>2 DEF IInv, TypeOK, Outcome
    <3> QED BY <1>1, <1>2, <1>3, <2>2, <3>1 DEF IInv, TypeOK
  <2>3. CASE s # r
    <3>1. verified[Of[s]] \/ Of[s] \in typed \cup reverted \/ s \in missed
      BY <1>1, <1>2, <2>3 DEF IInv, TypeOK, ApprovalLasts
    <3>2. verified[Of[s]] => verified'[Of[s]]
      BY <1>1, <1>3, <2>1 DEF IInv, TypeOK
    <3>3. Of[s] \in reverted => Of[s] \in reverted' \/ verified'[Of[s]]
      BY <1>1, <1>2, <1>3, <2>1 DEF IInv, TypeOK
    <3> QED BY <1>2, <3>1, <3>2, <3>3
  <2> QED BY <2>2, <2>3
<1> QED BY <1>6, <1>7, <1>8, <1>9, <1>10 DEF IInv

\* Steps of a form before it is saved.
LEMMA EditStep ==
  ASSUME IInv, NEW f \in Form,
         (\E m \in Edited : Open(f, m)) \/ (\E h \in Typed : Type(f, h)) \/ CheckForm(f)
  PROVE  IInv'
<1> USE KycTyped, TypedSheets
<1>1. UNCHANGED <<status, verified, shown, card, gone, pc, rec, pass, reverted, missed>> /\ typed \subseteq typed'
  BY DEF Open, Type, CheckForm, table, review, past
<1>2. \A m, k : Approved(status', m, k) = Approved(status, m, k)
  BY <1>1 DEF Approved
<1>3. Locked' /\ Backed' /\ ApprovalLasts'
  BY <1>1 DEF IInv, Locked, Backed, ApprovalLasts
<1>4. CASE \E m \in Edited : Open(f, m)
  <2> PICK m \in Edited : Open(f, m)
    BY <1>4
  <2>0. m \in Member /\ Held(m) \in Sheets /\ typed' = typed
    BY BlankTyped DEF IInv, Open, past
  <2>1. TypeOK'
    BY <1>1, <2>0 DEF IInv, TypeOK, Open
  <2>2. m \notin typed => /\ Held(m).shown = "VERIFIED" => Held(m).verified
                          /\ Held(m).verified => Approved(status, m, Held(m).card)
    <3>1. Held(m).verified = verified[m] /\ Held(m).shown = shown[m] /\ Held(m).card = card[m]
      BY DEF Held
    <3>2. m \notin typed => /\ shown[m] = "VERIFIED" => verified[m]
                            /\ verified[m] => Approved(status, m, card[m])
      BY <2>0 DEF IInv, Backed, Approved
    <3> QED BY <3>1, <3>2
  <2>3. FormsBacked'
    <3> SUFFICES ASSUME NEW g \in Form, stage'[g] # "closed", form'[g] \notin typed'
                 PROVE  /\ held'[g].shown = "VERIFIED" => held'[g].verified
                        /\ held'[g].verified => Approved(status', form'[g], held'[g].card)
      BY DEF FormsBacked
    <3>1. CASE g = f
      <4>1. form'[g] = m /\ held'[g] = Held(m)
        BY <3>1 DEF IInv, TypeOK, Open
      <4>2. m \notin typed
        BY <2>0, <4>1
      <4>3. /\ Held(m).shown = "VERIFIED" => Held(m).verified
            /\ Held(m).verified => Approved(status, m, Held(m).card)
        BY <2>2, <4>2
      <4>4. Approved(status', m, Held(m).card) = Approved(status, m, Held(m).card)
        BY <1>2
      <4> QED BY <4>1, <4>3, <4>4, Zenon
    <3>2. CASE g # f
      <4>1. form'[g] = form[g] /\ held'[g] = held[g] /\ stage'[g] = stage[g]
        BY <3>2 DEF IInv, TypeOK, Open
      <4> QED BY <1>2, <2>0, <4>1 DEF IInv, FormsBacked
    <3> QED BY <3>1, <3>2
  <2> QED BY <1>3, <2>1, <2>3 DEF IInv
<1>5. CASE \E h \in Typed : Type(f, h)
  <2> PICK h \in Typed : Type(f, h)
    BY <1>5
  <2>1. TypeOK'
    BY <1>1 DEF IInv, TypeOK, Type
  <2>2. FormsBacked'
    BY <1>2 DEF IInv, TypeOK, FormsBacked, Type
  <2> QED BY <1>3, <2>1, <2>2 DEF IInv
<1>6. CASE CheckForm(f)
  <2>0. typed' = typed
    BY <1>6 DEF CheckForm, past
  <2>1. TypeOK'
    BY <1>1, <1>6, <2>0, BlankTyped DEF IInv, TypeOK, CheckForm, Close
  <2>2. FormsBacked'
    BY <1>2, <1>6, <2>0 DEF IInv, TypeOK, FormsBacked, CheckForm, Close
  <2> QED BY <1>3, <2>1, <2>2 DEF IInv
<1> QED BY <1>4, <1>5, <1>6

LEMMA SaveStep == ASSUME IInv, NEW f \in Form, SaveForm(f) PROVE IInv'
<1> USE KycTyped
<1> DEFINE m == form[f] h == held[f]
<1>1. /\ m \in Member /\ stage[f] = "checked"
      /\ h \in Sheets /\ h.verified \in BOOLEAN /\ h.shown \in Shown /\ h.card \in Cards
  BY DEF IInv, TypeOK, SaveForm, Save, Sheets
<1>2. /\ UNCHANGED <<status, gone, pc, rec, pass, typed, missed>>
      /\ stage' = [stage EXCEPT ![f] = "closed"] /\ form' = [form EXCEPT ![f] = None] /\ held' = [held EXCEPT ![f] = Blank]
  BY DEF SaveForm, Save, Close, review
<1>3. \/ UNCHANGED <<verified, shown, card, reverted>>
      \/ /\ verified' = [verified EXCEPT ![m] = h.verified]
         /\ shown' = [shown EXCEPT ![m] = h.shown]
         /\ card' = [card EXCEPT ![m] = h.card]
         /\ reverted' = IF verified[m] /\ ~h.verified THEN reverted \cup {m} ELSE reverted
  BY DEF SaveForm, Save
<1>4. \A n, k : Approved(status', n, k) = Approved(status, n, k)
  BY <1>2 DEF Approved
<1>5. TypeOK'
  BY <1>1, <1>2, <1>3, BlankTyped DEF IInv, TypeOK
<1>6. Locked'
  BY <1>2 DEF IInv, Locked
<1>7. FormsBacked'
  BY <1>2, <1>4 DEF IInv, TypeOK, FormsBacked
<1>8. Backed'
  <2> SUFFICES ASSUME NEW n \in Member, n \notin typed
               PROVE  /\ shown'[n] = "VERIFIED" => verified'[n]
                      /\ verified'[n] => Approved(status', n, card'[n])
    BY <1>2, <1>4 DEF Backed, Approved
  <2>1. /\ shown[n] = "VERIFIED" => verified[n]
        /\ verified[n] => Approved(status, n, card[n])
    BY DEF IInv, Backed, Approved
  <2>2. n = m => /\ h.shown = "VERIFIED" => h.verified
                 /\ h.verified => Approved(status, m, h.card)
    BY <1>1 DEF IInv, FormsBacked
  <2>3. \/ shown'[n] = shown[n] /\ verified'[n] = verified[n] /\ card'[n] = card[n]
        \/ n = m /\ shown'[n] = h.shown /\ verified'[n] = h.verified /\ card'[n] = h.card
    BY <1>1, <1>3 DEF IInv, TypeOK
  <2>4. CASE shown'[n] = shown[n] /\ verified'[n] = verified[n] /\ card'[n] = card[n]
    <3>1. Approved(status', n, card[n]) = Approved(status, n, card[n])
      BY <1>4
    <3> QED BY <2>1, <2>4, <3>1, Zenon
  <2>5. CASE n = m /\ shown'[n] = h.shown /\ verified'[n] = h.verified /\ card'[n] = h.card
    <3>1. Approved(status', m, h.card) = Approved(status, m, h.card)
      BY <1>4
    <3>2. /\ h.shown = "VERIFIED" => h.verified
          /\ h.verified => Approved(status, m, h.card)
      BY <2>2, <2>5
    <3> QED BY <2>5, <3>1, <3>2, Zenon
  <2> QED BY <2>3, <2>4, <2>5
<1>9. ApprovalLasts'
  <2> SUFFICES ASSUME NEW r \in Record, status[r] = "VERIFIED"
               PROVE  verified'[Of[r]] \/ Of[r] \in typed \cup reverted' \/ r \in missed
    BY <1>2 DEF ApprovalLasts
  <2>1. verified[Of[r]] \/ Of[r] \in typed \cup reverted \/ r \in missed
    BY DEF IInv, ApprovalLasts
  <2>2. verified[Of[r]] => verified'[Of[r]] \/ Of[r] \in reverted'
    BY <1>1, <1>3 DEF IInv, TypeOK
  <2>3. reverted \subseteq reverted'
    BY <1>3
  <2> QED BY <2>1, <2>2, <2>3
<1> QED BY <1>5, <1>6, <1>7, <1>8, <1>9 DEF IInv

\* Filing a record, deleting and restoring a member.
LEMMA OtherStep ==
  ASSUME IInv, (\E r \in Record : File(r)) \/ (\E m \in Deletable : SoftDeleteUsers(m) \/ RestoreUsers(m))
  PROVE  IInv'
<1> USE KycTyped
<1>1. UNCHANGED <<verified, shown, card, pc, rec, pass, form, held, stage, typed, reverted, missed>>
  BY DEF File, SoftDeleteUsers, RestoreUsers, review, edit, past
<1>2. \A s \in Record : \/ status'[s] = status[s]
                        \/ status[s] = "unfiled" /\ status'[s] = "PENDING"
  BY DEF IInv, TypeOK, File, SoftDeleteUsers, RestoreUsers
<1>3. TypeOK'
  <2>1. status' \in [Record -> {"unfiled"} \cup Shown] /\ gone' \in [Member -> BOOLEAN]
    <3>1. CASE \E r \in Record : File(r)
      BY <3>1 DEF IInv, TypeOK, File, Shown
    <3>2. CASE \E m \in Deletable : SoftDeleteUsers(m) \/ RestoreUsers(m)
      BY <3>2, ZenonT(30) DEF IInv, TypeOK, SoftDeleteUsers, RestoreUsers
    <3> QED BY <3>1, <3>2
  <2> QED BY <1>1, <2>1 DEF IInv, TypeOK
<1>4. \A n, k : Approved(status', n, k) = Approved(status, n, k)
  BY <1>2 DEF Approved
<1>5. Locked'
  BY <1>1, <1>2 DEF IInv, TypeOK, Locked
<1>6. FormsBacked'
  BY <1>1, <1>4 DEF IInv, FormsBacked
<1>7. Backed'
  BY <1>1, <1>2 DEF IInv, Backed
<1>8. ApprovalLasts'
  BY <1>1, <1>2 DEF IInv, ApprovalLasts
<1> QED BY <1>3, <1>5, <1>6, <1>7, <1>8 DEF IInv

THEOREM IInvHolds == Spec => []IInv
<1>1. IInv /\ [Next]_vars => IInv'
  <2> SUFFICES ASSUME IInv, [Next]_vars PROVE IInv'
    OBVIOUS
  <2>1. CASE UNCHANGED vars
    <3>1. UNCHANGED <<table, edit, past>> /\ UNCHANGED <<table, review, edit, past>>
      BY <2>1 DEF vars
    <3>2. (FormsBacked /\ Backed /\ ApprovalLasts)'
      BY <3>1, TablesKept
    <3>3. (TypeOK /\ Locked)'
      BY <3>1 DEF IInv, TypeOK, Locked, table, review, edit, past
    <3> QED BY <3>2, <3>3 DEF IInv
  <2>2. ASSUME NEW v \in Reviewer,
               (\E r \in Record, p \in BOOLEAN : Call(v, r, p)) \/ LockRecord(v) \/ WriteMember(v)
                 \/ Commit(v) \/ Abort(v)
        PROVE  IInv'
    BY <2>2, ReviewStep, CommitStep
  <2>3. ASSUME NEW f \in Form,
               (\E m \in Edited : Open(f, m)) \/ (\E h \in Typed : Type(f, h)) \/ CheckForm(f) \/ SaveForm(f)
        PROVE  IInv'
    BY <2>3, EditStep, SaveStep
  <2>4. CASE (\E r \in Record : File(r)) \/ (\E m \in Deletable : SoftDeleteUsers(m) \/ RestoreUsers(m))
    BY <2>4, OtherStep
  <2> QED BY <2>1, <2>2, <2>3, <2>4 DEF Next
<1> QED BY InitIInv, <1>1, PTL DEF Spec

-----------------------------------------------------------------------------
\* Type correctness.
THEOREM KycTypeOK == Spec => []TypeOK
  BY IInvHolds, PTL DEF IInv

\* Nobody counts as verified without an approved record with that card.
THEOREM KycBacked == Spec => []Backed
  BY IInvHolds, PTL DEF IInv

\* An approval stays in effect until an older form is saved over it.
THEOREM KycApprovalLasts == Spec => []ApprovalLasts
  BY IInvHolds, PTL DEF IInv

\* A record is decided once, whoever reviews it at the same time.
THEOREM KycDecisionFinal == Spec => DecisionFinal
<1> DEFINE Final == \A r \in Record : status[r] \in Decided => status'[r] = status[r]
<1>1. IInv /\ [Next]_vars => [Final]_vars
  <2> SUFFICES ASSUME IInv, Next, NEW r \in Record, status[r] \in Decided PROVE status'[r] = status[r]
    OBVIOUS
  <2>1. ASSUME NEW v \in Reviewer, Commit(v) PROVE status'[r] = status[r]
    BY <2>1 DEF IInv, TypeOK, Locked, Commit, Decide, Decided
  <2>2. CASE UNCHANGED status
    BY <2>2
  <2>3. ASSUME NEW s \in Record, File(s) PROVE status'[r] = status[r]
    BY <2>3 DEF IInv, TypeOK, File, Decided
  <2> QED BY <2>1, <2>2, <2>3 DEF Next, Call, LockRecord, WriteMember, Abort, Open, Type, CheckForm,
        SaveForm, Save, SoftDeleteUsers, RestoreUsers, table
<1> QED BY IInvHolds, <1>1, PTL DEF Spec, DecisionFinal

\* A deleted member's identity is left alone.
THEOREM KycDeletedKept == Spec => DeletedKept
<1> DEFINE Kept == \A m \in Member :
      gone[m] /\ gone'[m] => UNCHANGED <<verified[m], shown[m], card[m]>>
<1>1. IInv /\ [Next]_vars => [Kept]_vars
  <2> SUFFICES ASSUME IInv, Next, NEW m \in Member, gone[m], gone'[m]
               PROVE  UNCHANGED <<verified[m], shown[m], card[m]>>
    OBVIOUS
  <2>1. ASSUME NEW v \in Reviewer, Commit(v) PROVE UNCHANGED <<verified[m], shown[m], card[m]>>
    BY <2>1 DEF IInv, TypeOK, Commit, Decide
  <2>2. ASSUME NEW f \in Form, SaveForm(f) PROVE UNCHANGED <<verified[m], shown[m], card[m]>>
    BY <2>2 DEF IInv, TypeOK, SaveForm, Save
  <2>3. CASE UNCHANGED <<verified, shown, card>>
    BY <2>3
  <2> QED BY <2>1, <2>2, <2>3 DEF Next, Call, LockRecord, WriteMember, Abort, Open, Type, CheckForm,
        File, SoftDeleteUsers, RestoreUsers, table
<1> QED BY IInvHolds, <1>1, PTL DEF Spec, DeletedKept
-----------------------------------------------------------------------------
(* The unique index of the cards *)

\* No two members have one card, a deleted one included: what id_id_card promises.
CardsUnique == \A m, n \in Member : card[m] = card[n] /\ card[m] # None => m = n

\* A transaction that has written a member's row has it to itself until it
\* commits, and the card it wrote is its own and nobody else's.
Reserved == \A v \in Reviewer : pc[v] = "commit" =>
    /\ \A w \in Reviewer : HoldsMember(w, Of[rec[v]]) => w = v
    /\ HoldsCard(v, CardOf[rec[v]]) =>
         /\ ~Taken(Of[rec[v]], CardOf[rec[v]])
         /\ \A w \in Reviewer : HoldsCard(w, CardOf[rec[v]]) => w = v

Indexed == CardsUnique /\ Reserved

\* The row is written once the member and the card are free.
LEMMA WriteIndexed == ASSUME TypeOK, Indexed, NEW v \in Reviewer, WriteMember(v) PROVE Indexed'
<1> USE KycTyped
<1> DEFINE r == rec[v] m == Of[r] k == CardOf[r]
<1>1. /\ r \in Record /\ m \in Member /\ k \in Card /\ pc[v] = "read"
      /\ MemberFree(m) /\ (pass[v] /\ ~gone[m] => CardFree(k))
      /\ UNCHANGED <<card, gone>>
  BY DEF TypeOK, WriteMember, table
<1>2. CardsUnique'
  BY <1>1 DEF Indexed, CardsUnique
<1>3. \A w \in Reviewer \ {v} : pc'[w] = pc[w] /\ rec'[w] = rec[w] /\ pass'[w] = pass[w]
  BY DEF TypeOK, WriteMember, Goto, End
<1>4. CASE pass[v] /\ ~gone[m] /\ Taken(m, k)
  <2>1. pc'[v] = "idle"
    BY <1>4 DEF TypeOK, WriteMember, End
  <2>2. Reserved'
    BY <1>1, <1>3, <2>1 DEF Indexed, Reserved, HoldsMember, HoldsCard, Taken
  <2> QED BY <1>2, <2>2 DEF Indexed
<1>5. CASE ~(pass[v] /\ ~gone[m] /\ Taken(m, k))
  <2>1. pc'[v] = "commit" /\ rec' = rec /\ pass' = pass
    BY <1>5 DEF TypeOK, WriteMember, Goto
  <2>2. ASSUME NEW w \in Reviewer, pc'[w] = "commit", NEW u \in Reviewer
        PROVE  HoldsMember(u, Of[rec[w]])' => u = w
    BY <1>1, <1>3, <2>1, <2>2 DEF Indexed, Reserved, HoldsMember, MemberFree
  <2>3. ASSUME NEW w \in Reviewer, pc'[w] = "commit", HoldsCard(w, CardOf[rec[w]])'
        PROVE  /\ ~Taken(Of[rec[w]], CardOf[rec[w]])'
               /\ \A u \in Reviewer : HoldsCard(u, CardOf[rec[w]])' => u = w
    <3>1. CASE w = v
      <4>1. pass[v] /\ ~gone[m]
        BY <1>1, <2>1, <2>3, <3>1 DEF HoldsCard
      <4>2. ~Taken(m, k) /\ CardFree(k)
        BY <1>1, <1>5, <4>1
      <4> QED BY <1>1, <1>3, <2>1, <3>1, <4>2 DEF HoldsCard, Taken, CardFree
    <3>2. CASE w # v
      <4>1. pc[w] = "commit" /\ HoldsCard(w, CardOf[rec[w]])
        BY <1>1, <1>3, <2>1, <2>3, <3>2 DEF HoldsCard
      <4>2. ~(HoldsCard(v, CardOf[rec[w]])')
        BY <1>1, <2>1, <4>1 DEF HoldsCard, CardFree
      <4> QED BY <1>1, <1>3, <2>1, <4>1, <4>2 DEF Indexed, Reserved, HoldsCard, Taken
    <3> QED BY <3>1, <3>2
  <2>4. Reserved'
    BY <2>2, <2>3 DEF Reserved
  <2> QED BY <1>2, <2>4 DEF Indexed
<1> QED BY <1>4, <1>5

\* Whoever writes a card writes one that no other member has and no other
\* transaction has written.
LEMMA CommitIndexed == ASSUME TypeOK, Indexed, NEW v \in Reviewer, Commit(v) PROVE Indexed'
<1> USE KycTyped
<1> DEFINE r == rec[v] m == Of[r] k == CardOf[r] own == HoldsCard(v, k)
<1>1. /\ r \in Record /\ m \in Member /\ k \in Card /\ k # None /\ pc[v] = "commit"
      /\ own <=> pass[v] /\ ~gone[m]
      /\ UNCHANGED gone
  <2>1. pc[v] = "commit" /\ UNCHANGED gone
    BY DEF Commit, Decide
  <2>2. r \in Record /\ m \in Member /\ k \in Card /\ k # None
    BY <2>1 DEF TypeOK
  <2>3. own <=> pass[v] /\ ~gone[m]
    BY <2>1, Zenon DEF HoldsCard
  <2> QED BY <2>1, <2>2, <2>3
<1>2. \A n \in Member : card'[n] = IF n = m /\ own THEN k ELSE card[n]
  <2>1. CASE pass[v] /\ ~gone[m]
    <3>1. card' = [card EXCEPT ![m] = k]
      BY <2>1 DEF Commit, Decide
    <3> QED BY <1>1, <2>1, <3>1 DEF TypeOK
  <2>2. CASE gone[m]
    <3>1. card' = card
      BY <2>2 DEF Commit, Decide
    <3> QED BY <1>1, <2>2, <3>1
  <2>3. CASE ~pass[v] /\ ~gone[m]
    <3>1. card' = [card EXCEPT ![m] = card[m]]
      BY <2>3 DEF Commit, Decide
    <3> QED BY <1>1, <2>3, <3>1 DEF TypeOK
  <2> QED BY <2>1, <2>2, <2>3
<1>3. /\ \A w \in Reviewer : HoldsMember(w, m) => w = v
      /\ own => ~Taken(m, k) /\ \A w \in Reviewer : HoldsCard(w, k) => w = v
  BY <1>1 DEF Indexed, Reserved
<1>4. CardsUnique'
  BY <1>1, <1>2, <1>3 DEF Indexed, CardsUnique, Taken
<1>5. /\ pc'[v] = "idle"
      /\ \A w \in Reviewer \ {v} : pc'[w] = pc[w] /\ rec'[w] = rec[w] /\ pass'[w] = pass[w]
  BY DEF TypeOK, Commit, Decide, End
<1>6. ASSUME NEW w \in Reviewer, pc'[w] = "commit", NEW u \in Reviewer
      PROVE  HoldsMember(u, Of[rec[w]])' => u = w
  BY <1>5, <1>6 DEF Indexed, Reserved, HoldsMember
<1>7. ASSUME NEW w \in Reviewer, pc'[w] = "commit", HoldsCard(w, CardOf[rec[w]])'
      PROVE  /\ ~Taken(Of[rec[w]], CardOf[rec[w]])'
             /\ \A u \in Reviewer : HoldsCard(u, CardOf[rec[w]])' => u = w
  <2>1. w # v /\ pc[w] = "commit" /\ rec'[w] = rec[w] /\ HoldsCard(w, CardOf[rec[w]])
    BY <1>1, <1>5, <1>7 DEF HoldsCard
  <2>2. ~Taken(Of[rec[w]], CardOf[rec[w]]) /\ \A u \in Reviewer : HoldsCard(u, CardOf[rec[w]]) => u = w
    BY <2>1 DEF Indexed, Reserved
  <2>3. own => CardOf[rec[w]] # k
    BY <1>3, <2>1
  <2>4. ~Taken(Of[rec[w]], CardOf[rec[w]])'
    BY <1>2, <2>1, <2>2, <2>3 DEF Taken
  <2>5. \A u \in Reviewer : HoldsCard(u, CardOf[rec[w]])' => u = w
    BY <1>1, <1>5, <2>1, <2>2 DEF HoldsCard
  <2> QED BY <2>4, <2>5
<1>8. Reserved'
  BY <1>6, <1>7 DEF Reserved
<1> QED BY <1>4, <1>8 DEF Indexed

LEMMA SaveIndexed == ASSUME TypeOK, Indexed, NEW f \in Form, SaveForm(f) PROVE Indexed'
<1> USE KycTyped
<1> DEFINE m == form[f] k == held[f].card
<1>1. m \in Member /\ UNCHANGED <<gone, pc, rec, pass>>
  BY DEF TypeOK, SaveForm, Save, review
<1>2. CASE UNCHANGED card
  BY <1>1, <1>2 DEF Indexed, CardsUnique, Reserved, HoldsMember, HoldsCard, Taken
<1>3. CASE ~gone[m] /\ ~Taken(m, k) /\ CardFree(k) /\ card' = [card EXCEPT ![m] = k]
  <2>1. \A n \in Member : card'[n] = IF n = m THEN k ELSE card[n]
    BY <1>3 DEF TypeOK
  <2>2. CardsUnique'
    BY <1>1, <1>3, <2>1 DEF Indexed, CardsUnique, Taken
  <2>3. ASSUME NEW w \in Reviewer, HoldsCard(w, CardOf[rec[w]]), ~Taken(Of[rec[w]], CardOf[rec[w]])
        PROVE  ~Taken(Of[rec[w]], CardOf[rec[w]])'
    <3>1. CardOf[rec[w]] # k
      BY <1>3, <2>3 DEF CardFree
    <3> QED BY <1>1, <2>1, <2>3, <3>1 DEF Taken
  <2>4. Reserved'
    BY <1>1, <2>3 DEF Indexed, Reserved, HoldsMember, HoldsCard
  <2> QED BY <2>2, <2>4 DEF Indexed
<1> QED BY <1>2, <1>3 DEF SaveForm, Save

\* Everything else writes no card; a member whose row a transaction has written
\* is neither deleted nor restored.
LEMMA RestIndexed ==
  ASSUME TypeOK, Indexed, UNCHANGED card,
         \A w \in Reviewer : pc'[w] = "commit" =>
             pc[w] = "commit" /\ rec'[w] = rec[w] /\ pass'[w] = pass[w] /\ gone'[Of[rec[w]]] = gone[Of[rec[w]]]
  PROVE  Indexed'
<1>1. CardsUnique'
  BY DEF Indexed, CardsUnique
<1>2. ASSUME NEW w \in Reviewer, pc'[w] = "commit"
      PROVE  /\ \A u \in Reviewer : HoldsMember(u, Of[rec[w]])' => u = w
             /\ HoldsCard(w, CardOf[rec[w]])' =>
                  /\ ~Taken(Of[rec[w]], CardOf[rec[w]])'
                  /\ \A u \in Reviewer : HoldsCard(u, CardOf[rec[w]])' => u = w
  <2>1. pc[w] = "commit" /\ rec'[w] = rec[w]
    BY <1>2
  <2>2. \A u \in Reviewer : \A c : /\ HoldsMember(u, c)' => HoldsMember(u, c)
                                   /\ HoldsCard(u, c)' => HoldsCard(u, c)
    BY DEF HoldsMember, HoldsCard
  <2> QED BY <2>1, <2>2 DEF Indexed, Reserved, Taken
<1> QED BY <1>1, <1>2 DEF Indexed, Reserved

\* What a transaction has written and not committed is its own.
LEMMA KycIndexed == Spec => []Indexed
<1>1. Init => Indexed
  BY DEF Init, Indexed, CardsUnique, Reserved
<1>2. TypeOK /\ Indexed /\ [Next]_vars => Indexed'
  <2> SUFFICES ASSUME TypeOK, Indexed, [Next]_vars PROVE Indexed'
    OBVIOUS
  <2> USE KycTyped
  <2>1. CASE UNCHANGED vars
    BY <2>1, RestIndexed DEF vars, table, review
  <2>2. ASSUME NEW v \in Reviewer,
               (\E r \in Record, p \in BOOLEAN : Call(v, r, p)) \/ LockRecord(v) \/ Abort(v)
        PROVE  Indexed'
    <3>1. UNCHANGED <<card, gone>>
      BY <2>2 DEF Call, LockRecord, Abort, table
    <3>2. pc'[v] # "commit" /\ \A w \in Reviewer \ {v} : pc'[w] = pc[w] /\ rec'[w] = rec[w] /\ pass'[w] = pass[w]
      BY <2>2 DEF TypeOK, Call, LockRecord, Abort, Goto, End
    <3> QED BY <3>1, <3>2, RestIndexed
  <2>3. ASSUME NEW f \in Form,
               (\E m \in Edited : Open(f, m)) \/ (\E h \in Typed : Type(f, h)) \/ CheckForm(f)
        PROVE  Indexed'
    <3>1. UNCHANGED <<card, gone, pc, rec, pass>>
      BY <2>3 DEF Open, Type, CheckForm, table, review
    <3> QED BY <3>1, RestIndexed
  <2>4. CASE \E r \in Record : File(r)
    <3>1. UNCHANGED <<card, gone, pc, rec, pass>>
      BY <2>4 DEF File, review
    <3> QED BY <3>1, RestIndexed
  <2>5. ASSUME NEW m \in Deletable, SoftDeleteUsers(m) \/ RestoreUsers(m) PROVE Indexed'
    <3>1. UNCHANGED <<card, pc, rec, pass>> /\ MemberFree(m)
      BY <2>5 DEF SoftDeleteUsers, RestoreUsers, review
    <3>2. \A n \in Member \ {m} : gone'[n] = gone[n]
      BY <2>5 DEF TypeOK, SoftDeleteUsers, RestoreUsers
    <3>3. ASSUME NEW w \in Reviewer, pc[w] = "commit" PROVE gone'[Of[rec[w]]] = gone[Of[rec[w]]]
      <4>1. Of[rec[w]] \in Member /\ Of[rec[w]] # m
        BY <3>1, <3>3 DEF TypeOK, MemberFree, HoldsMember
      <4> QED BY <3>2, <4>1
    <3> QED BY <3>1, <3>3, RestIndexed
  <2> QED BY <2>1, <2>2, <2>3, <2>4, <2>5, WriteIndexed, CommitIndexed, SaveIndexed DEF Next
<1> QED BY <1>1, <1>2, KycTypeOK, PTL DEF Spec

\* The review of a record and the edit of a member go together, and members are
\* deleted and restored: no card ever belongs to two.
THEOREM KycCardsUnique == Spec => []CardsUnique
  BY KycIndexed, PTL DEF Indexed
-----------------------------------------------------------------------------
(* Refinement of Register *)

\* What the transaction of a review writes at its commit, the register decides at
\* once: the record is pending still, and its card is nobody else's.
LEMMA CommitDecides ==
  ASSUME IInv, Indexed, NEW v \in Reviewer, Commit(v)
  PROVE  AtOnce!Approve(rec[v]) \/ AtOnce!Reject(rec[v])
<1> USE KycTyped
<1> DEFINE r == rec[v] m == Of[r] k == CardOf[r]
<1>1. pc[v] = "commit" /\ UNCHANGED gone /\ status' = [status EXCEPT ![r] = Outcome(v)]
  BY DEF Commit, Decide
<1>2. r \in Record /\ m \in Member /\ k \in Card /\ k # None /\ pass[v] \in BOOLEAN /\ status[r] = "PENDING"
  BY <1>1 DEF IInv, TypeOK, Locked
<1>3. CASE pass[v]
  <2>1. status' = [status EXCEPT ![r] = "VERIFIED"]
    BY <1>1, <1>3 DEF Outcome
  <2>2. CASE gone[m]
    <3>1. UNCHANGED <<verified, shown, card>>
      BY <2>2 DEF Commit, Decide
    <3> QED BY <1>1, <1>2, <2>1, <2>2, <3>1 DEF AtOnce!Approve
  <2>3. CASE ~gone[m]
    <3>1. /\ verified' = [verified EXCEPT ![m] = TRUE]
          /\ shown' = [shown EXCEPT ![m] = "VERIFIED"]
          /\ card' = [card EXCEPT ![m] = k]
      BY <1>3, <2>3 DEF Commit, Decide, Outcome
    <3>2. ~Taken(m, k)
      BY <1>1, <1>2, <1>3, <2>3 DEF Indexed, Reserved, HoldsCard
    <3>3. AtOnce!FreeFor(m, k)
      BY <1>2, <3>2 DEF Taken, AtOnce!FreeFor
    <3>4. AtOnce!Writes(m, [verified |-> TRUE, shown |-> "VERIFIED", card |-> k])
      BY <3>1, <3>3 DEF AtOnce!Writes
    <3> QED BY <1>1, <1>2, <2>1, <2>3, <3>4 DEF AtOnce!Approve
  <2> QED BY <2>2, <2>3
<1>4. CASE ~pass[v]
  <2>1. status' = [status EXCEPT ![r] = "REJECTED"]
    BY <1>1, <1>4 DEF Outcome
  <2>2. CASE gone[m]
    <3>1. UNCHANGED <<verified, shown, card>>
      BY <2>2 DEF Commit, Decide
    <3> QED BY <1>1, <1>2, <2>1, <2>2, <3>1 DEF AtOnce!Reject
  <2>3. CASE ~gone[m]
    <3>1. /\ verified' = [verified EXCEPT ![m] = verified[m]]
          /\ shown' = [shown EXCEPT ![m] = "REJECTED"]
          /\ card' = [card EXCEPT ![m] = card[m]]
      BY <1>2, <1>4, <2>3 DEF Commit, Decide, Outcome, IInv, TypeOK
    <3>2. UNCHANGED <<verified, card>>
      BY <3>1 DEF IInv, TypeOK
    <3> QED BY <1>1, <1>2, <2>1, <2>3, <3>1, <3>2 DEF AtOnce!Reject
  <2> QED BY <2>2, <2>3
<1> QED BY <1>2, <1>3, <1>4

\* A form is written whole, over a member that is there, or not at all.
LEMMA SaveEdits ==
  ASSUME IInv, NEW f \in Form, SaveForm(f)
  PROVE  (\E m \in Member : \E h \in AtOnce!Sheets : AtOnce!Edit(m, h)) \/ UNCHANGED table
<1> DEFINE m == form[f] h == held[f]
<1>1. m \in Member /\ h \in AtOnce!Sheets /\ UNCHANGED <<status, gone>>
  <2>1. m \in Member /\ h \in Sheets /\ UNCHANGED <<status, gone>>
    BY DEF IInv, TypeOK, SaveForm, Save
  <2> QED BY <2>1 DEF Sheets, Shown, Decided, Cards, AtOnce!Sheets, AtOnce!Cards
<1>2. CASE gone[m] \/ Taken(m, h.card)
  BY <1>1, <1>2 DEF SaveForm, Save, table
<1>3. CASE ~gone[m] /\ ~Taken(m, h.card)
  <2>1. AtOnce!FreeFor(m, h.card)
    BY <1>3 DEF Taken, AtOnce!FreeFor
  <2>2. AtOnce!Writes(m, h)
    BY <1>3, <2>1 DEF SaveForm, Save, AtOnce!Writes
  <2> QED BY <1>1, <1>3, <2>2 DEF AtOnce!Edit
<1> QED BY <1>2, <1>3

\* Reviews, edits, deletions and restorations that run together leave the tables
\* as if each had run alone at the moment of its commit.
THEOREM KycImplementsRegister == Spec => ImplementsRegister
<1>1. Init => AtOnce!Init
  BY DEF Init, AtOnce!Init
<1>2. IInv /\ Indexed /\ [Next]_vars => [AtOnce!Next]_<<status, verified, shown, card, gone>>
  <2> SUFFICES ASSUME IInv, Indexed, [Next]_vars
               PROVE  AtOnce!Next \/ UNCHANGED table
    BY DEF table
  <2>1. CASE UNCHANGED vars
    BY <2>1 DEF vars
  <2>2. ASSUME NEW v \in Reviewer, Commit(v) PROVE AtOnce!Next
    <3>1. rec[v] \in Record
      BY <2>2 DEF IInv, TypeOK, Commit, Decide
    <3> QED BY <2>2, <3>1, CommitDecides DEF AtOnce!Next
  <2>3. ASSUME NEW f \in Form, SaveForm(f) PROVE AtOnce!Next \/ UNCHANGED table
    BY <2>3, SaveEdits DEF AtOnce!Next
  <2>4. ASSUME NEW r \in Record, File(r) PROVE AtOnce!Next
    BY <2>4 DEF File, AtOnce!File, AtOnce!Next
  <2>5. ASSUME NEW m \in Deletable, SoftDeleteUsers(m) \/ RestoreUsers(m) PROVE AtOnce!Next
    BY <2>5, KycTyped DEF SoftDeleteUsers, RestoreUsers, AtOnce!Remove, AtOnce!Return, AtOnce!Next
  <2>6. ASSUME NEW v \in Reviewer,
               (\E r \in Record, p \in BOOLEAN : Call(v, r, p)) \/ LockRecord(v) \/ WriteMember(v) \/ Abort(v)
        PROVE  UNCHANGED table
    BY <2>6 DEF Call, LockRecord, WriteMember, Abort
  <2>7. ASSUME NEW f \in Form,
               (\E m \in Edited : Open(f, m)) \/ (\E h \in Typed : Type(f, h)) \/ CheckForm(f)
        PROVE  UNCHANGED table
    BY <2>7 DEF Open, Type, CheckForm
  <2> QED BY <2>1, <2>2, <2>3, <2>4, <2>5, <2>6, <2>7 DEF Next
<1> QED BY <1>1, <1>2, IInvHolds, KycIndexed, PTL DEF Spec, ImplementsRegister, AtOnce!Spec

-----------------------------------------------------------------------------
(* Reviews and forms do not wait in a circle *)

\* Waits(v, w): the next step of review v needs a row or the card that w holds.
Waits(v, w) ==
    \/ pc[v] = "lock" /\ HoldsRecord(w, rec[v])
    \/ pc[v] = "read" /\ HoldsMember(w, Of[rec[v]])
    \/ pc[v] = "read" /\ pass[v] /\ ~gone[Of[rec[v]]] /\ HoldsCard(w, CardOf[rec[v]])
FormWaits(f, w) ==
    stage[f] = "checked" /\ (HoldsMember(w, form[f]) \/ HoldsCard(w, held[f].card))

\* How many steps a review is from its end.
StepsLeft(at) == IF at = "lock" THEN 3 ELSE IF at = "read" THEN 2 ELSE IF at = "commit" THEN 1 ELSE 0

\* What v waits for is held by one that is nearer to its end; and one that waits
\* for nobody can take its next step: nothing else is in its way.
NoCircle ==
    /\ \A v, w \in Reviewer : Waits(v, w) => StepsLeft(pc[w]) < StepsLeft(pc[v])
    /\ \A f \in Form, w \in Reviewer : FormWaits(f, w) => \A u \in Reviewer : ~Waits(w, u)
    /\ \A v \in Reviewer : pc[v] = "lock" /\ (\A w \in Reviewer : ~Waits(v, w)) =>
           \A w \in Reviewer : ~HoldsRecord(w, rec[v])
    /\ \A v \in Reviewer : pc[v] = "read" /\ (\A w \in Reviewer : ~Waits(v, w)) =>
           MemberFree(Of[rec[v]]) /\ (pass[v] /\ ~gone[Of[rec[v]]] => CardFree(CardOf[rec[v]]))
    /\ \A f \in Form : stage[f] = "checked" /\ (\A w \in Reviewer : ~FormWaits(f, w)) =>
           MemberFree(form[f]) /\ CardFree(held[f].card)

ReviewsAdvance ==
    /\ []NoCircle
    /\ [][\A v \in Reviewer : pc[v] # "idle" /\ pc'[v] # pc[v] =>
              StepsLeft(pc'[v]) < StepsLeft(pc[v])]_vars

\* The safety half of AllEnd, for any number of reviews and forms: rows are
\* locked in the order record, member, card, and a form holds nothing while it
\* waits; a review is at most three steps of its own from its end, and no step of
\* another sets it back.
THEOREM KycReviewsAdvance == Spec => ReviewsAdvance
<1>1. NoCircle
  BY DEF NoCircle, Waits, FormWaits, HoldsRecord, HoldsMember, HoldsCard, MemberFree, CardFree, StepsLeft
<1>2. TypeOK /\ [Next]_vars =>
        [\A v \in Reviewer : pc[v] # "idle" /\ pc'[v] # pc[v] =>
            StepsLeft(pc'[v]) < StepsLeft(pc[v])]_vars
  <2> SUFFICES ASSUME TypeOK, Next, NEW v \in Reviewer, pc[v] # "idle", pc'[v] # pc[v]
               PROVE  StepsLeft(pc'[v]) < StepsLeft(pc[v])
    OBVIOUS
  <2>1. ASSUME NEW w \in Reviewer,
               (\E r \in Record, p \in BOOLEAN : Call(w, r, p)) \/ LockRecord(w) \/ WriteMember(w)
                 \/ Commit(w) \/ Abort(w)
        PROVE  StepsLeft(pc'[v]) < StepsLeft(pc[v])
    <3>1. w = v
      BY <2>1 DEF TypeOK, Call, LockRecord, WriteMember, Commit, Decide, Abort, Goto, End
    <3>2. pc \in [Reviewer -> {"idle", "lock", "read", "commit"}]
      BY DEF TypeOK
    <3>3. \/ pc'[v] = "idle"
          \/ pc[v] = "lock" /\ pc'[v] = "read"
          \/ pc[v] = "read" /\ pc'[v] = "commit"
      <4>1. CASE LockRecord(v)
        <5>1. pc' = [pc EXCEPT ![v] = "read"] \/ pc' = [pc EXCEPT ![v] = "idle"]
          BY <4>1 DEF LockRecord, Goto, End
        <5> QED BY <3>2, <4>1, <5>1 DEF LockRecord
      <4>2. CASE WriteMember(v)
        <5>1. pc' = [pc EXCEPT ![v] = "commit"] \/ pc' = [pc EXCEPT ![v] = "idle"]
          BY <4>2 DEF WriteMember, Goto, End
        <5> QED BY <3>2, <4>2, <5>1 DEF WriteMember
      <4>3. CASE Commit(v) \/ Abort(v)
        <5>1. pc' = [pc EXCEPT ![v] = "idle"]
          BY <4>3 DEF Commit, Decide, Abort, End
        <5> QED BY <3>2, <5>1
      <4>4. CASE \E r \in Record, p \in BOOLEAN : Call(v, r, p)
        BY <4>4 DEF Call
      <4> QED BY <2>1, <3>1, <4>1, <4>2, <4>3, <4>4
    <3> QED BY <3>2, <3>3 DEF StepsLeft
  <2>2. CASE UNCHANGED pc
    BY <2>2
  <2> QED BY <2>1, <2>2 DEF Next, Open, Type, CheckForm, SaveForm, Save, File, SoftDeleteUsers,
       RestoreUsers, review
<1> QED BY <1>1, <1>2, KycTypeOK, PTL DEF Spec, ReviewsAdvance
=============================================================================
