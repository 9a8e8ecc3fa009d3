--------------------------------- MODULE Register ---------------------------------
(***************************************************************************)
(* The register of members' identities as its users see it: reviews and    *)
(* edits take effect one at a time, each on the tables as they are at that *)
(* moment.  A record is decided once; what a review or an edit writes      *)
(* reaches the row of its member if the member is there, and a card that   *)
(* belongs to another member is not written at all.                        *)
(***************************************************************************)
CONSTANTS Member, Record, Of, Card, CardOf, None

VARIABLES status, verified, shown, card, gone

Cards == Card \cup {None}
Sheets == [verified : BOOLEAN, shown : {"PENDING", "VERIFIED", "REJECTED"}, card : Cards]

\* The card is free for m: no other member has it, a deleted one included.
FreeFor(m, k) == k = None \/ \A n \in Member \ {m} : card[n] # k

Writes(m, h) ==
    /\ FreeFor(m, h.card)
    /\ verified' = [verified EXCEPT ![m] = h.verified]
    /\ shown' = [shown EXCEPT ![m] = h.shown]
    /\ card' = [card EXCEPT ![m] = h.card]

File(r) ==
    /\ status[r] = "unfiled"
    /\ status' = [status EXCEPT ![r] = "PENDING"]
    /\ UNCHANGED <<verified, shown, card, gone>>

\* The member gets the card of the record, unless it is deleted.
Approve(r) ==
    /\ status[r] = "PENDING"
    /\ status' = [status EXCEPT ![r] = "VERIFIED"]
    /\ IF gone[Of[r]]
         THEN UNCHANGED <<verified, shown, card>>
         ELSE Writes(Of[r], [verified |-> TRUE, shown |-> "VERIFIED", card |-> CardOf[r]])
    /\ UNCHANGED gone

\* Only the state shown tells of a rejection: no verification is taken back.
Reject(r) ==
    /\ status[r] = "PENDING"
    /\ status' = [status EXCEPT ![r] = "REJECTED"]
    /\ shown' = IF gone[Of[r]] THEN shown ELSE [shown EXCEPT ![Of[r]] = "REJECTED"]
    /\ UNCHANGED <<verified, card, gone>>

Edit(m, h) == ~gone[m] /\ Writes(m, h) /\ UNCHANGED <<status, gone>>

Remove(m) == ~gone[m] /\ gone' = [gone EXCEPT ![m] = TRUE] /\ UNCHANGED <<status, verified, shown, card>>
Return(m) == gone[m] /\ gone' = [gone EXCEPT ![m] = FALSE] /\ UNCHANGED <<status, verified, shown, card>>

Init ==
    /\ status = [r \in Record |-> "unfiled"]
    /\ verified = [m \in Member |-> FALSE]
    /\ shown = [m \in Member |-> "PENDING"]
    /\ card = [m \in Member |-> None]
    /\ gone = [m \in Member |-> FALSE]

Next ==
    \/ \E r \in Record : File(r) \/ Approve(r) \/ Reject(r)
    \/ \E m \in Member : (\E h \in Sheets : Edit(m, h)) \/ Remove(m) \/ Return(m)

Spec == Init /\ [][Next]_<<status, verified, shown, card, gone>>
=============================================================================
