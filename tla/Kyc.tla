----------------------------------- MODULE Kyc -----------------------------------
(***************************************************************************)
(* Identity checks of members.  The member application files records with  *)
(* an identity card; a reviewer decides one in a transaction that locks    *)
(* the record, writes it, and writes the outcome into the member's row.    *)
(* The edit form writes the same columns of the member back, as it read    *)
(* them when it was opened or as the administrator changed them, and       *)
(* members are deleted (flag = 1) and restored meanwhile.                  *)
(*                                                                         *)
(* What a transaction writes shows to others when it commits; until then   *)
(* it holds the rows it wrote and the card's place in the unique index.    *)
(***************************************************************************)
EXTENDS Integers, FiniteSets

CONSTANTS
    Member,     \* rows of fb_users
    Record,     \* rows of fb_identity_verify
    Of,         \* Record -> Member; a member may file several
    Card,       \* identity cards
    CardOf,     \* Record -> Card
    Reviewer,   \* requests that decide a record and may run together
    Form,       \* open edit forms
    Edited,     \* members whose form is opened
    Typed,      \* what administrators type into a form
    Deletable,  \* members that are deleted and restored
    None        \* nobody, no record, no card

ASSUME KycTyped ==
    /\ Of \in [Record -> Member] /\ CardOf \in [Record -> Card]
    /\ Edited \subseteq Member /\ Deletable \subseteq Member
    /\ None \notin Record \cup Member \cup Card

VARIABLES
    status,     \* Record -> status; "unfiled" before the member files it
    verified,   \* Member -> verified
    shown,      \* Member -> verification_status
    card,       \* Member -> id_card
    gone,       \* Member -> flag = 1
    pc,         \* Reviewer -> where the transaction is
    rec,        \* Reviewer -> the record
    pass,       \* Reviewer -> whether it passes
    form,       \* Form -> the member edited
    held,       \* Form -> what the form holds of verified, shown and card
    stage,      \* Form -> where the edit is
    typed,      \* history: members whose identity an administrator typed in
    reverted,   \* history: members a form opened before their approval wrote back
    missed      \* history: records approved while the member was deleted

table  == <<status, verified, shown, card, gone>>
review == <<pc, rec, pass>>
edit   == <<form, held, stage>>
past   == <<typed, reverted, missed>>
vars   == <<table, review, edit, past>>

Cards == Card \cup {None}
Decided == {"VERIFIED", "REJECTED"}
Shown == {"PENDING"} \cup Decided
Sheets == [verified : BOOLEAN, shown : Shown, card : Cards]

ASSUME TypedSheets == Typed \subseteq Sheets

Blank == [verified |-> FALSE, shown |-> "PENDING", card |-> None]

\* The transaction goes on, or it is over.
Goto(v, to) == pc' = [pc EXCEPT ![v] = to] /\ UNCHANGED <<rec, pass>>
End(v) ==
    /\ pc' = [pc EXCEPT ![v] = "idle"]
    /\ rec' = [rec EXCEPT ![v] = None]
    /\ pass' = [pass EXCEPT ![v] = FALSE]
Close(f) ==
    /\ stage' = [stage EXCEPT ![f] = "closed"]
    /\ form' = [form EXCEPT ![f] = None]
    /\ held' = [held EXCEPT ![f] = Blank]

-----------------------------------------------------------------------------
(* Locks and the unique index *)

\* A transaction that has read its record holds it until its end.
HoldsRecord(v, r) == pc[v] \in {"read", "commit"} /\ rec[v] = r
\* One that has written the member's row holds that.
HoldsMember(v, m) == pc[v] = "commit" /\ Of[rec[v]] = m
\* One that has written a card holds its place in id_id_card; the UPDATE of a
\* deleted member writes none.
HoldsCard(v, k) == pc[v] = "commit" /\ pass[v] /\ ~gone[Of[rec[v]]] /\ CardOf[rec[v]] = k

MemberFree(m) == \A v \in Reviewer : ~HoldsMember(v, m)
CardFree(k)   == \A v \in Reviewer : ~HoldsCard(v, k)
\* A deleted member's card stays in the index.
Taken(m, k)   == k # None /\ \E n \in Member \ {m} : card[n] = k

-----------------------------------------------------------------------------
(* VerifyKyc *)

Call(v, r, p) ==
    /\ pc[v] = "idle"
    /\ status[r] # "unfiled"
    /\ pc' = [pc EXCEPT ![v] = "lock"]
    /\ rec' = [rec EXCEPT ![v] = r]
    /\ pass' = [pass EXCEPT ![v] = p]
    /\ UNCHANGED <<table, edit, past>>

\* Mutant: the record is read without FOR UPDATE.
LockRecordNot(v) ==
    /\ pc[v] = "lock"
    /\ IF status[rec[v]] = "PENDING" THEN Goto(v, "read") ELSE End(v)
    /\ UNCHANGED <<table, edit, past>>

\* Mutant: the transaction of a record that is not pending is left open.
LockRecordOpen(v) ==
    /\ pc[v] = "lock"
    /\ \A w \in Reviewer : ~HoldsRecord(w, rec[v])
    /\ Goto(v, IF status[rec[v]] = "PENDING" THEN "read" ELSE "lock")
    /\ UNCHANGED <<table, edit, past>>

\* SELECT ... FOR UPDATE waits for the record; only a pending one is reviewed.
LockRecord(v) ==
    /\ pc[v] = "lock"
    /\ \A w \in Reviewer : ~HoldsRecord(w, rec[v])
    /\ IF status[rec[v]] = "PENDING" THEN Goto(v, "read") ELSE End(v)
    /\ UNCHANGED <<table, edit, past>>

\* UPDATE fb_users SET ... waits for the member and, if it passes, for the card;
\* another member with the card makes it fail and the transaction roll back.
WriteMember(v) ==
    LET r == rec[v] m == Of[r] k == CardOf[r]
    IN  /\ pc[v] = "read"
        /\ MemberFree(m)
        /\ pass[v] /\ ~gone[m] => CardFree(k)
        /\ IF pass[v] /\ ~gone[m] /\ Taken(m, k) THEN End(v) ELSE Goto(v, "commit")
        /\ UNCHANGED <<table, edit, past>>

Outcome(v) == IF pass[v] THEN "VERIFIED" ELSE "REJECTED"

\* Both tables at once.  WHERE flag = 0: a deleted member's row is left alone,
\* and the record is decided all the same.
Decide(v, to, ver, k) ==
    LET r == rec[v] m == Of[r]
    IN  /\ pc[v] = "commit"
        /\ End(v)
        /\ status' = [status EXCEPT ![r] = to]
        /\ IF gone[m]
             THEN UNCHANGED <<verified, shown, card>>
             ELSE /\ verified' = [verified EXCEPT ![m] = ver]
                  /\ shown' = [shown EXCEPT ![m] = to]
                  /\ card' = [card EXCEPT ![m] = k]
        /\ missed' = IF pass[v] /\ gone[m] THEN missed \cup {r} ELSE missed
        /\ reverted' = IF pass[v] /\ ~gone[m] THEN reverted \ {m} ELSE reverted
        /\ UNCHANGED <<gone, edit, typed>>

\* Mutant: a rejection takes the verification back.
CommitResetting(v) ==
    LET m == Of[rec[v]]
    IN  Decide(v, Outcome(v), pass[v], IF pass[v] THEN CardOf[rec[v]] ELSE card[m])

\* Mutant: the member keeps the card it had.
CommitWithoutCard(v) ==
    LET m == Of[rec[v]] IN Decide(v, Outcome(v), verified[m] \/ pass[v], card[m])

\* Mutant: the state is written as the request has it.
CommitAsAsked(v) ==
    LET m == Of[rec[v]]
    IN  Decide(v, IF pass[v] THEN "APPROVED" ELSE "REJECTED", verified[m] \/ pass[v],
               IF pass[v] THEN CardOf[rec[v]] ELSE card[m])

\* A rejection leaves verified and the card alone.
Commit(v) ==
    LET m == Of[rec[v]]
    IN  Decide(v, Outcome(v), verified[m] \/ pass[v], IF pass[v] THEN CardOf[rec[v]] ELSE card[m])

\* The server stops, or a statement fails: the database rolls back.
Abort(v) ==
    /\ pc[v] # "idle"
    /\ End(v)
    /\ UNCHANGED <<table, edit, past>>

-----------------------------------------------------------------------------
(* The edit form: GetUserInfo and UpdateUser *)

Held(m) == [verified |-> verified[m], shown |-> shown[m], card |-> card[m]]

Open(f, m) ==
    /\ stage[f] = "closed"
    /\ ~gone[m]
    /\ form' = [form EXCEPT ![f] = m]
    /\ held' = [held EXCEPT ![f] = Held(m)]
    /\ stage' = [stage EXCEPT ![f] = "open"]
    /\ UNCHANGED <<table, review, past>>

\* The administrator turns verified, or another card, into the form by hand.
Type(f, h) ==
    /\ stage[f] = "open"
    /\ h # held[f]
    /\ held' = [held EXCEPT ![f] = h]
    /\ typed' = typed \cup {form[f]}
    /\ UNCHANGED <<table, review, form, stage, reverted, missed>>

\* The form must have a card, and one that differs from the card the member has
\* now must be nobody else's (GetUserUniqueFields, ExistsIDCardExcept).
CheckForm(f) ==
    LET m == form[f]
    IN  /\ stage[f] = "open"
        /\ IF \/ gone[m] \/ held[f].card = None
              \/ held[f].card # card[m] /\ Taken(m, held[f].card)
             THEN Close(f)
             ELSE stage' = [stage EXCEPT ![f] = "checked"] /\ UNCHANGED <<form, held>>
        /\ UNCHANGED <<table, review, past>>

Save(f, refused) ==
    LET m == form[f] h == held[f]
    IN  /\ stage[f] = "checked"
        /\ MemberFree(m)
        /\ ~gone[m] => CardFree(h.card)
        /\ Close(f)
        /\ IF refused
             THEN UNCHANGED <<verified, shown, card, reverted>>
             ELSE /\ verified' = [verified EXCEPT ![m] = h.verified]
                  /\ shown' = [shown EXCEPT ![m] = h.shown]
                  /\ card' = [card EXCEPT ![m] = h.card]
                  /\ reverted' = IF verified[m] /\ ~h.verified THEN reverted \cup {m} ELSE reverted
        /\ UNCHANGED <<status, gone, review, typed, missed>>

\* UPDATE fb_users SET ... WHERE id = ? AND flag = 0: the whole form, or nothing
\* if the member is gone or the unique index refuses the card.
SaveForm(f) == Save(f, gone[form[f]] \/ Taken(form[f], held[f].card))

-----------------------------------------------------------------------------
(* Everybody else *)

\* The member application files a record.
File(r) ==
    /\ status[r] = "unfiled"
    /\ status' = [status EXCEPT ![r] = "PENDING"]
    /\ UNCHANGED <<verified, shown, card, gone, review, edit, past>>

\* SoftDeleteUsers and RestoreUsers wait for the rows they write.
SoftDeleteUsers(m) ==
    /\ ~gone[m] /\ MemberFree(m)
    /\ gone' = [gone EXCEPT ![m] = TRUE]
    /\ UNCHANGED <<status, verified, shown, card, review, edit, past>>

RestoreUsers(m) ==
    /\ gone[m] /\ MemberFree(m)
    /\ gone' = [gone EXCEPT ![m] = FALSE]
    /\ UNCHANGED <<status, verified, shown, card, review, edit, past>>

-----------------------------------------------------------------------------
Init ==
    /\ status = [r \in Record |-> "unfiled"]
    /\ verified = [m \in Member |-> FALSE]
    /\ shown = [m \in Member |-> "PENDING"]
    /\ card = [m \in Member |-> None]
    /\ gone = [m \in Member |-> FALSE]
    /\ pc = [v \in Reviewer |-> "idle"]
    /\ rec = [v \in Reviewer |-> None]
    /\ pass = [v \in Reviewer |-> FALSE]
    /\ form = [f \in Form |-> None]
    /\ held = [f \in Form |-> Blank]
    /\ stage = [f \in Form |-> "closed"]
    /\ typed = {} /\ reverted = {} /\ missed = {}

Next ==
    \/ \E v \in Reviewer :
        \/ \E r \in Record, p \in BOOLEAN : Call(v, r, p)
        \/ LockRecord(v) \/ WriteMember(v) \/ Commit(v) \/ Abort(v)
    \/ \E f \in Form :
        \/ \E m \in Edited : Open(f, m)
        \/ \E h \in Typed : Type(f, h)
        \/ CheckForm(f) \/ SaveForm(f)
    \/ \E r \in Record : File(r)
    \/ \E m \in Deletable : SoftDeleteUsers(m) \/ RestoreUsers(m)

Spec == Init /\ [][Next]_vars

\* InnoDB hands a lock to whoever waits for it, and the database answers.  Nobody
\* has to send a form.
FairSpec ==
    /\ Spec
    /\ \A v \in Reviewer : SF_vars(LockRecord(v)) /\ SF_vars(WriteMember(v)) /\ WF_vars(Commit(v))
    /\ \A f \in Form : SF_vars(SaveForm(f))

-----------------------------------------------------------------------------
(* Properties *)

\* Every variable keeps its type, and what is under way has its record or member.
TypeOK ==
    /\ status \in [Record -> {"unfiled"} \cup Shown]
    /\ verified \in [Member -> BOOLEAN] /\ shown \in [Member -> Shown]
    /\ card \in [Member -> Cards] /\ gone \in [Member -> BOOLEAN]
    /\ pc \in [Reviewer -> {"idle", "lock", "read", "commit"}]
    /\ rec \in [Reviewer -> Record \cup {None}] /\ pass \in [Reviewer -> BOOLEAN]
    /\ \A v \in Reviewer : pc[v] # "idle" => rec[v] \in Record
    /\ stage \in [Form -> {"closed", "open", "checked"}]
    /\ form \in [Form -> Member \cup {None}] /\ held \in [Form -> Sheets]
    /\ \A f \in Form : stage[f] # "closed" => form[f] \in Member
    /\ typed \subseteq Member /\ reverted \subseteq Member /\ missed \subseteq Record

\* "Only a PENDING record can be reviewed": of several reviewers who open one
\* record together exactly one decides it, and for good.
DecisionFinal == [][\A r \in Record : status[r] \in Decided => status'[r] = status[r]]_vars

\* A member counts as verified only with the card of a record that was approved,
\* whatever stale forms write back and however its records were decided, unless
\* an administrator typed it in.
Backed == \A m \in Member \ typed :
    /\ shown[m] = "VERIFIED" => verified[m]
    /\ verified[m] => \E r \in Record :
          Of[r] = m /\ status[r] = "VERIFIED" /\ CardOf[r] = card[m]

\* "On approval fb_users.verified = 1 follows": it stays so when another record
\* of the member is rejected, and across deletion and restoration.  What can
\* undo it is a form opened before; what can prevent it, that the member was
\* deleted at that moment.
ApprovalLasts == \A r \in Record :
    status[r] = "VERIFIED" => \/ verified[Of[r]]
                              \/ Of[r] \in typed \cup reverted
                              \/ r \in missed

\* A deleted member's identity is left as it was, though reviews and forms that
\* began before are still under way.
DeletedKept == [][\A m \in Member :
    gone[m] /\ gone'[m] => UNCHANGED <<verified[m], shown[m], card[m]>>]_vars

\* Reviews and edits that run together, wait for one another and roll back leave
\* the tables as if each of them had run at once and alone: the locks, the unique
\* index and WHERE flag = 0 suffice, and a decided record stays decided.
AtOnce == INSTANCE Register
ImplementsRegister == AtOnce!Spec

\* No review and no save waits for ever for a row or for a card.
AllEnd ==
    /\ \A v \in Reviewer : pc[v] # "idle" ~> pc[v] = "idle"
    /\ \A f \in Form : stage[f] = "checked" ~> stage[f] = "closed"
=============================================================================
