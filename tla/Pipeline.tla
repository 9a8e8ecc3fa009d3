-------------------------------- MODULE Pipeline --------------------------------
(***************************************************************************)
(* What a Stream promises its callers: an operation takes effect at once,  *)
(* on the data as they are at that moment, and gives what a plain loop     *)
(* over them would.  Only a ForEach whose context was cancelled may stop   *)
(* before the end.                                                         *)
(***************************************************************************)
EXTENDS Integers, Sequences

CONSTANTS
    Caller,     \* goroutines that use the stream
    Elem,       \* elements
    Keep,       \* what the predicate of Filter accepts
    Image,      \* the transformation of Map
    Rank,       \* what Sort compares and Distinct takes for equal
    Initial     \* data the stream may be made of

VARIABLES
    data,       \* Stream.Data
    result,     \* Caller -> what its last operation gave or visited
    cancelled   \* Caller -> whether the context of its ForEach is cancelled

\* The increasing enumerations of a set I of positions in s (there is one).
Picks(s, I) ==
    {f \in UNION {[1..n -> I] : n \in 0..Len(s)} :
        /\ \A j, k \in DOMAIN f : j < k => f[j] < f[k]
        /\ \A i \in I : \E k \in DOMAIN f : f[k] = i}
Pick(s, f) == [k \in DOMAIN f |-> s[f[k]]]

Kept(s)    == {i \in DOMAIN s : s[i] \in Keep}
Firsts(s)  == {i \in DOMAIN s : \A j \in DOMAIN s : j < i => Rank[s[j]] # Rank[s[i]]}
Orders(s)  == {f \in [DOMAIN s -> DOMAIN s] :
                  /\ \A i \in DOMAIN s : \E k \in DOMAIN f : f[k] = i
                  /\ \A j, k \in DOMAIN s : j < k => Rank[s[f[j]]] <= Rank[s[f[k]]]}
Mapped(s)  == [k \in DOMAIN s |-> Image[s[k]]]

Gives(c, r) == result' = [result EXCEPT ![c] = r]

\* The data become some of themselves, in the order f.
Replace(c, F) == \E f \in F : data' = Pick(data, f) /\ Gives(c, data') /\ UNCHANGED cancelled

Filter(c)   == Replace(c, Picks(data, Kept(data)))
Distinct(c) == Replace(c, Picks(data, Firsts(data)))
Sort(c)     == Replace(c, Orders(data))
Map(c)      == Gives(c, Mapped(data)) /\ UNCHANGED <<data, cancelled>>
ForEach(c)  == \E n \in 0..Len(data) :
    /\ n < Len(data) => cancelled[c]
    /\ Gives(c, SubSeq(data, 1, n))
    /\ UNCHANGED <<data, cancelled>>

\* A new operation has given nothing yet and its context is not cancelled; once
\* it is, it stays so.
Begin(c)  == Gives(c, <<>>) /\ cancelled' = [cancelled EXCEPT ![c] = FALSE] /\ UNCHANGED data
Cancel(c) == cancelled' = [cancelled EXCEPT ![c] = TRUE] /\ UNCHANGED <<data, result>>

Init ==
    /\ data \in Initial
    /\ result = [c \in Caller |-> <<>>]
    /\ cancelled = [c \in Caller |-> FALSE]

Next == \E c \in Caller :
    Filter(c) \/ Distinct(c) \/ Sort(c) \/ Map(c) \/ ForEach(c) \/ Begin(c) \/ Cancel(c)

Spec == Init /\ [][Next]_<<data, result, cancelled>>
=============================================================================
