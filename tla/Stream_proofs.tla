------------------------------ MODULE Stream_proofs ------------------------------
(***************************************************************************)
(* Proofs about Stream for any number of callers, any elements and data    *)
(* of any length: types, the mutex, cancellation, and that the goroutines  *)
(* implement Pipeline.                                                     *)
(***************************************************************************)
EXTENDS Stream, TLAPS

USE DEF local, Goto

\* Outside an operation nothing is left but the producer of a cancelled ForEach.
Outside(c) == pc[c] # "wait" =>
    /\ lock # c
    /\ cons[c] = "end" /\ todo[c] = {} /\ chan[c] = <<>> /\ out[c] = <<>>
    /\ prod[c] \in {"next", "send", "end"}
    /\ prod[c] # "end" => pc[c] = "idle" /\ cancelled[c]

\* Inside, the caller holds the mutex.
Inside(c) == pc[c] = "wait" => lock = c /\ op[c] \in {"Filter", "ForEach", "Map"}

\* What the producer of Filter and of ForEach has done.
Producing(c) == pc[c] = "wait" /\ op[c] \in {"Filter", "ForEach"} =>
    /\ todo[c] = {} /\ chan[c] = <<>> /\ prod[c] # "join"
    /\ prod[c] = "range" => cons[c] = "recv" /\ out[c] = <<>> /\ next[c] = 1
    /\ prod[c] # "range" => src[c] = data /\ next[c] <= Len(data) + 1
    /\ prod[c] = "send" => next[c] <= Len(data)
    /\ prod[c] = "end" => next[c] = Len(data) + 1

\* The sequence s has the members of P below n, in increasing order.
Enumerates(s, n, P) ==
    /\ Len(s) < n
    /\ \A k \in 1..Len(s) : s[k] \in P /\ s[k] < n
    /\ \A j, k \in 1..Len(s) : j < k => s[j] < s[k]
    /\ \A i \in P : i < n => \E k \in 1..Len(s) : s[k] = i

\* Filter has appended the positions it keeps among those produced.
Filtering(c) == pc[c] = "wait" /\ op[c] = "Filter" =>
    /\ cons[c] \in {"recv", "end"}
    /\ cons[c] = "end" => prod[c] = "end"
    /\ prod[c] = "send" => next[c] \in Sequential!Kept(data)
    /\ Enumerates(out[c], next[c], Sequential!Kept(data))

\* ForEach has visited the positions before the producer's, one after the other;
\* the one received last may be about to be visited, or passed over.
Traversing(c) == pc[c] = "wait" /\ op[c] = "ForEach" =>
    /\ \A k \in 1..Len(out[c]) : out[c][k] = k
    /\ cons[c] = "recv" => Len(out[c]) = next[c] - 1
    /\ cons[c] \in {"got", "act"} => Len(out[c]) = next[c] - 2
    /\ cons[c] = "end" => \/ prod[c] = "end" /\ Len(out[c]) = next[c] - 1
                          \/ cancelled[c] /\ Len(out[c]) = next[c] - 2

\* Map has every position in a goroutine, in the channel or in its place.
Mapping(c) == pc[c] = "wait" /\ op[c] = "Map" =>
    /\ src[c] = data /\ Len(out[c]) = Len(data)
    /\ prod[c] \in {"join", "end"} /\ cons[c] \in {"recv", "end"}
    /\ prod[c] = "end" => todo[c] = {}
    /\ cons[c] = "end" => prod[c] = "end" /\ chan[c] = <<>>
    /\ \A i \in 1..Len(data) : out[c][i] \in {0, i}
    /\ \A i \in 1..Len(data) :
          i \in todo[c] \/ (\E k \in 1..Len(chan[c]) : chan[c][k] = i) \/ out[c][i] = i

\* After the cancellation one action may still run.
Cancelling(c) == cancelled[c] =>
    /\ op[c] = "ForEach"
    /\ pc[c] = "wait" => Len(out[c]) <= seen[c] + (IF cons[c] = "act" THEN 0 ELSE 1)

Sound(c) ==
    /\ InSlice(c) /\ Outside(c) /\ Inside(c) /\ Producing(c) /\ Filtering(c)
    /\ Traversing(c) /\ Mapping(c) /\ Cancelling(c)

IInv == Typed /\ \A c \in Caller : Sound(c)

-----------------------------------------------------------------------------
LEMMA Empty == ASSUME NEW S PROVE <<>> \in Seq(S) /\ Len(<<>>) = 0
  OBVIOUS

LEMMA Zeros == ASSUME NEW n \in Nat, NEW S PROVE [k \in 1..n |-> 0] \in Seq(S \cup {0})
  OBVIOUS

LEMMA NothingEnumerated == ASSUME NEW P \in SUBSET (Nat \ {0}) PROVE Enumerates(<<>>, 1, P)
  BY DEF Enumerates

LEMMA AppendEnumerates ==
  ASSUME NEW P \in SUBSET (Nat \ {0}), NEW s \in Seq(Nat), NEW n \in P, Enumerates(s, n, P)
  PROVE  Enumerates(Append(s, n), n + 1, P)
<1> DEFINE t == Append(s, n)
<1>1. /\ Len(s) \in Nat /\ Len(t) = Len(s) + 1 /\ t[Len(s) + 1] = n
      /\ \A k \in 1..Len(s) : t[k] = s[k] /\ s[k] \in Nat
  OBVIOUS
<1>2. /\ Len(s) < n /\ n \in Nat
      /\ \A k \in 1..Len(s) : s[k] \in P /\ s[k] < n
      /\ \A j, k \in 1..Len(s) : j < k => s[j] < s[k]
      /\ \A i \in P : i < n => \E k \in 1..Len(s) : s[k] = i
  BY DEF Enumerates
<1> HIDE DEF t
<1>3. Len(t) < n + 1
  BY <1>1, <1>2
<1>4. \A k \in 1..Len(t) : k \in 1..Len(s) \/ k = Len(s) + 1
  BY <1>1
<1>5. \A k \in 1..Len(t) : t[k] \in P /\ t[k] < n + 1
  BY <1>1, <1>2, <1>4, SMTT(30)
<1>6. ASSUME NEW j \in 1..Len(t), NEW k \in 1..Len(t), j < k PROVE t[j] < t[k]
  <2>1. j \in 1..Len(s)
    BY <1>1, <1>6
  <2>2. CASE k \in 1..Len(s)
    BY <1>1, <1>2, <1>6, <2>1, <2>2
  <2>3. CASE k = Len(s) + 1
    BY <1>1, <1>2, <2>1, <2>3
  <2> QED BY <1>4, <2>2, <2>3
<1>7. \A i \in P : i < n + 1 => \E k \in 1..Len(t) : t[k] = i
  <2>1. TAKE i \in P
  <2>2. HAVE i < n + 1
  <2>3. CASE i = n
    BY <1>1, <2>3
  <2>4. CASE i # n
    <3>1. i < n
      BY <1>2, <2>2, <2>4
    <3>2. PICK k \in 1..Len(s) : s[k] = i
      BY <1>2, <3>1
    <3> QED BY <1>1, <3>2
  <2> QED BY <2>3, <2>4
<1>8. Enumerates(t, n + 1, P)
  BY <1>3, <1>5, <1>6, <1>7 DEF Enumerates
<1> QED BY <1>8 DEF t

LEMMA SkipEnumerates ==
  ASSUME NEW P \in SUBSET (Nat \ {0}), NEW s \in Seq(Nat), NEW n \in Nat \ P, Enumerates(s, n, P)
  PROVE  Enumerates(s, n + 1, P)
<1>1. Len(s) \in Nat /\ \A k \in 1..Len(s) : s[k] \in Nat
  OBVIOUS
<1>2. \A i \in P : i < n + 1 => i < n
  OBVIOUS
<1> QED BY <1>1, <1>2 DEF Enumerates

LEMMA KeptTyped ==
  ASSUME Typed PROVE /\ Sequential!Kept(data) \in SUBSET (Nat \ {0})
                     /\ \A i \in 1..Len(data) : i \in Sequential!Kept(data) <=> data[i] \in Keep
                     /\ Sequential!Kept(data) \subseteq 1..Len(data)
  BY DEF Typed, Sequential!Kept

LEMMA InitIInv == Init => IInv
<1> SUFFICES ASSUME Init PROVE IInv
  OBVIOUS
<1> USE ElementsTyped DEF Init
<1>1. Typed
  BY DEF Typed, Ops
<1>2. ASSUME NEW c \in Caller PROVE Sound(c)
  BY DEF Sound, InSlice, Outside, Inside, Producing, Filtering, Traversing, Mapping, Cancelling
<1> QED BY <1>1, <1>2 DEF IInv

\* A step of another caller.
Same(d) ==
    /\ pc'[d] = pc[d] /\ op'[d] = op[d] /\ src'[d] = src[d] /\ prod'[d] = prod[d] /\ next'[d] = next[d]
    /\ todo'[d] = todo[d] /\ chan'[d] = chan[d] /\ cons'[d] = cons[d] /\ out'[d] = out[d]
    /\ seen'[d] = seen[d] /\ cancelled'[d] = cancelled[d]

LEMMA OthersSound ==
  ASSUME NEW d \in Caller, Sound(d), Same(d), lock = d <=> lock' = d, lock = d => data' = data
  PROVE  Sound(d)'
<1> USE DEF Same
<1>1. Outside(d)' /\ Inside(d)' /\ Cancelling(d)'
  BY DEF Sound, Outside, Inside, Cancelling
<1>7. InSlice(d)'
  BY DEF Sound, InSlice
<1>2. pc'[d] = "wait" => lock = d /\ data' = data
  BY DEF Sound, Inside
<1>3. Producing(d)'
  BY <1>2 DEF Sound, Producing
<1>4. Filtering(d)'
  BY <1>2 DEF Sound, Filtering
<1>5. Traversing(d)'
  BY <1>2 DEF Sound, Traversing
<1>6. Mapping(d)'
  BY <1>2 DEF Sound, Mapping
<1> QED BY <1>1, <1>3, <1>4, <1>5, <1>6, <1>7 DEF Sound

-----------------------------------------------------------------------------
(* The caller.                                                             *)

LEMMA CallIInv == ASSUME IInv, NEW c \in Caller, NEW o \in Ops, Call(c, o) PROVE IInv'
<1> USE DEF Call, Sequential!Begin, Sequential!Gives
<1>1. Typed /\ Sound(c) /\ pc[c] = "idle"
  BY DEF IInv
<1>2. todo[c] = {} /\ chan[c] = <<>> /\ out[c] = <<>> /\ cons[c] = "end" /\ lock # c
  BY <1>1 DEF Sound, Outside
<1>3. Typed'
  BY <1>1, <1>2 DEF Typed
<1>4. Sound(c)'
  <2>1. /\ pc'[c] = "lock" /\ prod'[c] = "end" /\ cancelled'[c] = FALSE /\ lock' # c
        /\ cons'[c] = "end" /\ todo'[c] = {} /\ chan'[c] = <<>> /\ out'[c] = <<>> /\ src'[c] = <<>>
    BY <1>1, <1>2 DEF Typed
  <2> QED BY <2>1 DEF Sound, InSlice, Outside, Inside, Producing, Filtering, Traversing, Mapping, Cancelling
<1>5. ASSUME NEW d \in Caller, d # c PROVE Same(d)
  BY <1>1, <1>5 DEF Typed, Same
<1> QED BY <1>3, <1>4, <1>5, OthersSound DEF IInv

LEMMA LockIInv == ASSUME IInv, NEW c \in Caller, Lock(c) PROVE IInv'
<1> USE DEF Lock, Looping
<1>1. Typed /\ Sound(c) /\ pc[c] = "lock" /\ op[c] \in {"Filter", "ForEach", "Map"}
  BY DEF IInv
<1>2. data \in Seq(Elem) /\ c # None
  BY <1>1, ElementsTyped DEF Typed
<1>3. /\ pc' = [pc EXCEPT ![c] = "wait"] /\ lock' = c /\ UNCHANGED <<data, result, cancelled, op, seen>>
      /\ next' = [next EXCEPT ![c] = 1] /\ chan' = [chan EXCEPT ![c] = <<>>]
      /\ cons' = [cons EXCEPT ![c] = "recv"] /\ next'[c] = 1 /\ chan'[c] = <<>> /\ cons'[c] = "recv"
  BY <1>1 DEF Typed
<1>3a. \A d \in Caller : d # c => lock # d /\ lock' # d
  BY <1>2, <1>3, ElementsTyped
<1>4. CASE op[c] = "Map"
  <2>1. /\ src' = [src EXCEPT ![c] = data] /\ prod' = [prod EXCEPT ![c] = "join"]
        /\ todo' = [todo EXCEPT ![c] = DOMAIN data] /\ out' = [out EXCEPT ![c] = [k \in DOMAIN data |-> 0]]
    BY <1>4
  <2>2. DOMAIN data \in SUBSET Nat /\ [k \in DOMAIN data |-> 0] \in Seq(Nat)
        /\ [k \in DOMAIN data |-> 0] \in Seq(DOMAIN data \cup {0})
    BY <1>2
  <2>3. Typed'
    BY <1>1, <1>2, <1>3, <2>1, <2>2 DEF Typed
  <2>4. /\ src'[c] = data /\ prod'[c] = "join" /\ todo'[c] = 1..Len(data)
        /\ out'[c] = [k \in 1..Len(data) |-> 0] /\ pc'[c] = "wait" /\ op'[c] = "Map"
    BY <1>1, <1>2, <1>3, <1>4, <2>1 DEF Typed
  <2>5. ~cancelled'[c]
    BY <1>1, <1>3, <1>4 DEF Sound, Cancelling
  <2>6. Sound(c)'
    <3>1. InSlice(c)'
      <4>1. DOMAIN src'[c] = 1..Len(data) /\ Len(data) \in Nat
        BY <1>2, <2>4
      <4>2. chan'[c] \in Seq(DOMAIN src'[c])
        BY <1>3, Empty
      <4>3. out'[c] \in Seq(DOMAIN src'[c] \cup {0})
        <5>1. [k \in 1..Len(data) |-> 0] \in Seq(1..Len(data) \cup {0})
          BY <4>1, Zeros
        <5> QED BY <2>4, <4>1, <5>1
      <4> QED BY <2>4, <4>1, <4>2, <4>3 DEF InSlice
    <3> QED BY <1>2, <1>3, <2>4, <2>5, <3>1
        DEF Sound, Outside, Inside, Producing, Filtering, Traversing, Mapping, Cancelling
  <2>7. ASSUME NEW d \in Caller, d # c PROVE Same(d)
    BY <1>1, <1>3, <2>1, <2>7 DEF Typed, Same
  <2> QED BY <1>3, <1>3a, <2>3, <2>6, <2>7, OthersSound DEF IInv
<1>5. CASE op[c] # "Map"
  <2>1. /\ src' = [src EXCEPT ![c] = <<>>] /\ prod' = [prod EXCEPT ![c] = "range"]
        /\ todo' = [todo EXCEPT ![c] = {}] /\ out' = [out EXCEPT ![c] = <<>>]
    BY <1>5
  <2>3. Typed'
    BY <1>1, <1>2, <1>3, <2>1 DEF Typed
  <2>4. /\ prod'[c] = "range" /\ todo'[c] = {} /\ out'[c] = <<>> /\ pc'[c] = "wait"
        /\ op'[c] \in {"Filter", "ForEach"} /\ src'[c] = <<>>
    BY <1>1, <1>3, <1>5, <2>1 DEF Typed
  <2>5. seen'[c] \in Nat /\ (cancelled'[c] => op'[c] = "ForEach")
    BY <1>1, <1>3 DEF Typed, Sound, Cancelling
  <2>6. Sound(c)'
    <3>1. InSlice(c)'
      BY <1>3, <2>4, Empty DEF InSlice
    <3>2. Filtering(c)' /\ Traversing(c)' /\ Mapping(c)'
      <4>1. Enumerates(out'[c], next'[c], Sequential!Kept(data))
        BY <1>1, <1>3, <2>4, KeptTyped, NothingEnumerated
      <4> QED BY <1>2, <1>3, <2>4, <4>1, Empty DEF Filtering, Traversing, Mapping, Sequential!Kept
    <3> QED BY <1>2, <1>3, <2>4, <2>5, <3>1, <3>2 DEF Sound, Outside, Inside, Producing, Cancelling
  <2>7. ASSUME NEW d \in Caller, d # c PROVE Same(d)
    BY <1>1, <1>3, <2>1, <2>7 DEF Typed, Same
  <2> QED BY <1>3, <1>3a, <2>3, <2>6, <2>7, OthersSound DEF IInv
<1> QED BY <1>4, <1>5

\* What Return hands over is a sequence of elements.
LEMMA ResultTyped ==
  ASSUME IInv, NEW c \in Caller, pc[c] = "wait", cons[c] = "end" PROVE Result(c) \in Seq(Elem)
<1>1. Typed /\ Sound(c) /\ op[c] \in {"Filter", "ForEach", "Map"}
  BY DEF IInv, Sound, Inside
<1>2. out[c] \in Seq(Nat) /\ src[c] \in Seq(Elem) /\ DOMAIN out[c] = 1..Len(out[c]) /\ Len(out[c]) \in Nat
  BY <1>1 DEF Typed
<1>3. \A k \in 1..Len(out[c]) : out[c][k] \in DOMAIN src[c]
  <2>1. CASE op[c] = "Map"
    <3>1. /\ Len(out[c]) = Len(data) /\ src[c] = data /\ todo[c] = {} /\ Len(chan[c]) = 0
          /\ \A i \in 1..Len(data) :
                i \in todo[c] \/ (\E k \in 1..Len(chan[c]) : chan[c][k] = i) \/ out[c][i] = i
      BY <1>1, <2>1, Empty DEF Sound, Mapping
    <3>2. \A i \in 1..Len(data) : out[c][i] = i
      BY <3>1
    <3> QED BY <1>2, <3>1, <3>2
  <2>2. CASE op[c] = "Filter"
    <3>1. src[c] = data /\ \A k \in 1..Len(out[c]) : out[c][k] \in Sequential!Kept(data)
      BY <1>1, <2>2 DEF Sound, Producing, Filtering, Enumerates
    <3> QED BY <1>2, <3>1 DEF Sequential!Kept
  <2>3. CASE op[c] = "ForEach"
    <3>1. /\ \A k \in 1..Len(out[c]) : out[c][k] = k
          /\ Len(out[c]) = next[c] - 1 \/ Len(out[c]) = next[c] - 2
      BY <1>1, <2>3 DEF Sound, Traversing
    <3>2. src[c] = data /\ next[c] <= Len(data) + 1
      BY <1>1, <2>3 DEF Sound, Producing
    <3>3. next[c] \in Nat \ {0} /\ data \in Seq(Elem) /\ Len(data) \in Nat /\ DOMAIN data = 1..Len(data)
      BY <1>1 DEF Typed
    <3> QED BY <1>2, <3>1, <3>2, <3>3, SMTT(30)
  <2> QED BY <1>1, <2>1, <2>2, <2>3
<1>4. \A k \in 1..Len(out[c]) : src[c][out[c][k]] \in Elem /\ Image[src[c][out[c][k]]] \in Elem
  BY <1>2, <1>3, ElementsTyped
<1> QED BY <1>2, <1>4 DEF Result

LEMMA ReturnIInv == ASSUME IInv, NEW c \in Caller, Return(c) PROVE IInv'
<1> USE DEF Return, Sequential!Gives
<1>1. Typed /\ Sound(c) /\ pc[c] = "wait" /\ cons[c] = "end" /\ lock = c /\ op[c] \in {"Filter", "ForEach", "Map"}
  BY DEF IInv, Sound, Inside
<1>2. Result(c) \in Seq(Elem)
  BY <1>1, ResultTyped
<1>3. todo[c] = {} /\ chan[c] = <<>> /\ prod[c] \in {"next", "send", "end"} /\ (prod[c] # "end" => cancelled[c])
  BY <1>1 DEF Sound, Producing, Filtering, Traversing, Mapping, Typed
<1>4. Typed'
  BY <1>1, <1>2 DEF Typed
<1>5. /\ pc'[c] = "idle" /\ lock' # c /\ out'[c] = <<>> /\ cons'[c] = "end" /\ todo'[c] = {} /\ chan'[c] = <<>>
      /\ prod'[c] = prod[c] /\ cancelled'[c] = cancelled[c] /\ op'[c] = op[c] /\ src'[c] \in Seq(Elem)
  BY <1>1, <1>3, <1>4, ElementsTyped DEF Typed
<1>6. Sound(c)'
  <2>1. InSlice(c)'
    BY <1>5, Empty DEF InSlice
  <2> QED BY <1>1, <1>3, <1>5, <2>1
      DEF Sound, Outside, Inside, Producing, Filtering, Traversing, Mapping, Cancelling
<1>7. ASSUME NEW d \in Caller, d # c PROVE Same(d) /\ lock # d /\ lock' # d
  BY <1>1, <1>7, ElementsTyped DEF Typed, Same
<1> QED BY <1>4, <1>6, <1>7, OthersSound DEF IInv

\* A choice of positions of the data gives a sequence of elements.
LEMMA PickTyped ==
  ASSUME NEW s \in Seq(Elem), NEW f, NEW n \in Nat, f \in [1..n -> DOMAIN s]
  PROVE  Sequential!Pick(s, f) \in Seq(Elem)
  BY DEF Sequential!Pick

LEMMA ReplaceTyped ==
  ASSUME Typed, NEW c \in Caller, Sequential!Distinct(c) \/ Sequential!Sort(c)
  PROVE  /\ data' \in Seq(Elem) /\ result' = [result EXCEPT ![c] = data'] /\ UNCHANGED cancelled
<1> USE DEF Sequential!Gives, Sequential!Replace
<1>1. data \in Seq(Elem) /\ DOMAIN data = 1..Len(data) /\ Len(data) \in Nat
  BY DEF Typed
<1>2. CASE Sequential!Distinct(c)
  <2>1. PICK f \in Sequential!Picks(data, Sequential!Firsts(data)) :
           data' = Sequential!Pick(data, f) /\ result' = [result EXCEPT ![c] = data'] /\ UNCHANGED cancelled
    BY <1>2 DEF Sequential!Distinct
  <2>2. Sequential!Firsts(data) \subseteq DOMAIN data
    BY DEF Sequential!Firsts
  <2>3. PICK n \in 0..Len(data) : f \in [1..n -> Sequential!Firsts(data)]
    BY <2>1 DEF Sequential!Picks
  <2>4. f \in [1..n -> DOMAIN data]
    BY <2>2, <2>3
  <2> QED BY <1>1, <2>1, <2>3, <2>4, PickTyped
<1>3. CASE Sequential!Sort(c)
  <2>1. PICK f \in Sequential!Orders(data) :
           data' = Sequential!Pick(data, f) /\ result' = [result EXCEPT ![c] = data'] /\ UNCHANGED cancelled
    BY <1>3 DEF Sequential!Sort
  <2> QED BY <1>1, <2>1, PickTyped DEF Sequential!Orders
<1> QED BY <1>2, <1>3

LEMMA RearrangeIInv == ASSUME IInv, NEW c \in Caller, Rearrange(c) PROVE IInv'
<1> USE DEF Rearrange
<1>1. Typed /\ Sound(c) /\ pc[c] = "lock" /\ lock = None
  BY DEF IInv
<1>2. data' \in Seq(Elem) /\ result' = [result EXCEPT ![c] = data'] /\ UNCHANGED cancelled
  BY <1>1, ReplaceTyped
<1>3. Typed'
  BY <1>1, <1>2 DEF Typed
<1>4. /\ pc'[c] = "idle" /\ UNCHANGED <<lock, op, src, prod, next, todo, chan, cons, out, seen, cancelled>>
  BY <1>1, <1>2 DEF Typed
<1>5. Sound(c)'
  BY <1>1, <1>4 DEF Sound, InSlice, Outside, Inside, Producing, Filtering, Traversing, Mapping, Cancelling
<1>6. ASSUME NEW d \in Caller, d # c PROVE Same(d) /\ lock # d /\ lock' # d
  BY <1>1, <1>4, <1>6, ElementsTyped DEF Typed, Same
<1> QED BY <1>3, <1>5, <1>6, OthersSound DEF IInv

LEMMA CancelIInv == ASSUME IInv, NEW c \in Caller, CancelContext(c) PROVE IInv'
<1> USE DEF CancelContext, Sequential!Cancel
<1>1. Typed /\ Sound(c) /\ op[c] = "ForEach" /\ pc[c] # "idle" /\ ~cancelled[c]
  BY DEF IInv
<1>2. /\ cancelled' = [cancelled EXCEPT ![c] = TRUE] /\ seen' = [seen EXCEPT ![c] = IF pc[c] = "wait" THEN Len(out[c]) ELSE 0]
      /\ UNCHANGED <<data, result, lock, op, pc, src, prod, next, todo, chan, cons, out>>
      /\ Len(out[c]) \in Nat
  BY <1>1 DEF Typed
<1>3. Typed'
  <2>1. seen' \in [Caller -> Nat] /\ cancelled' \in [Caller -> BOOLEAN]
    BY <1>1, <1>2 DEF Typed
  <2> QED BY <1>1, <1>2, <2>1 DEF Typed
<1>4. cancelled'[c] /\ (pc[c] = "wait" => seen'[c] = Len(out[c]))
  BY <1>1, <1>2 DEF Typed
<1>5. Sound(c)'
  <2>1. InSlice(c)' /\ Outside(c)' /\ Inside(c)' /\ Producing(c)'
    BY <1>1, <1>2, <1>4 DEF Sound, InSlice, Outside, Inside, Producing
  <2>2. Filtering(c)' /\ Traversing(c)' /\ Mapping(c)' /\ Cancelling(c)'
    BY <1>1, <1>2, <1>4 DEF Sound, Filtering, Traversing, Mapping, Cancelling
  <2> QED BY <2>1, <2>2 DEF Sound
<1>6. ASSUME NEW d \in Caller, d # c PROVE Same(d)
  BY <1>1, <1>2, <1>6 DEF Typed, Same
<1> QED BY <1>2, <1>3, <1>5, <1>6, OthersSound DEF IInv

-----------------------------------------------------------------------------
(* The goroutines.                                                         *)

LEMMA GoroutineIInv ==
  ASSUME IInv, NEW c \in Caller, UNCHANGED <<data, lock>>, Typed', Sound(c)',
         \A d \in Caller : d # c => Same(d)
  PROVE  IInv'
  BY OthersSound DEF IInv

LEMMA RangeIInv == ASSUME IInv, NEW c \in Caller, Range(c) PROVE IInv'
<1> USE DEF Range
<1>1. Typed /\ Sound(c) /\ prod[c] = "range"
  BY DEF IInv
<1>2. pc[c] = "wait" /\ op[c] \in {"Filter", "ForEach"} /\ todo[c] = {} /\ chan[c] = <<>>
      /\ out[c] = <<>> /\ cons[c] = "recv" /\ next[c] = 1
  BY <1>1 DEF Sound, Outside, Inside, Mapping, Producing
<1>3. src'[c] = data /\ prod'[c] = "next" /\ data \in Seq(Elem) /\ Len(data) \in Nat
  BY <1>1 DEF Typed
<1>4. Typed'
  BY <1>1 DEF Typed
<1>5. Sound(c)'
  <2>1. InSlice(c)'
    BY <1>2, <1>3, Empty DEF InSlice
  <2>2. Producing(c)' /\ Traversing(c)' /\ Mapping(c)'
    BY <1>2, <1>3, Empty DEF Producing, Traversing, Mapping
  <2>4. Filtering(c)'
    <3>1. op[c] = "Filter" => Enumerates(out[c], next[c], Sequential!Kept(data))
      BY <1>1, <1>2 DEF Sound, Filtering
    <3> QED BY <1>2, <1>3, <3>1 DEF Filtering, Sequential!Kept
  <2>3. Outside(c)' /\ Inside(c)' /\ Cancelling(c)'
    BY <1>1, <1>2 DEF Sound, Outside, Inside, Cancelling
  <2> QED BY <2>1, <2>2, <2>3, <2>4 DEF Sound
<1>6. \A d \in Caller : d # c => Same(d)
  BY <1>1 DEF Typed, Same
<1> QED BY <1>4, <1>5, <1>6, GoroutineIInv

LEMMA AdvanceIInv == ASSUME IInv, NEW c \in Caller, Advance(c) PROVE IInv'
<1> USE DEF Advance
<1>0. Typed /\ Sound(c) /\ prod[c] = "next"
  BY DEF IInv
<1>1. Typed /\ Sound(c) /\ prod[c] = "next" /\ src[c] \in Seq(Elem) /\ Len(src[c]) \in Nat /\ next[c] \in Nat \ {0}
  <2>1. src[c] \in Seq(Elem) /\ next[c] \in Nat \ {0}
    BY <1>0 DEF Typed
  <2> QED BY <1>0, <2>1
<1>2. Typed'
  <2>1. next' = next \/ next' = [next EXCEPT ![c] = next[c] + 1]
    BY <1>1
  <2>2. next' \in [Caller -> Nat \ {0}]
    <3>1. next \in [Caller -> Nat \ {0}]
      BY <1>1 DEF Typed
    <3>2. next[c] + 1 \in Nat \ {0}
      BY <1>1
    <3> QED BY <2>1, <3>1, <3>2
  <2>3. prod' = prod \/ prod' = [prod EXCEPT ![c] = "send"] \/ prod' = [prod EXCEPT ![c] = "end"]
    BY <1>1
  <2>4. prod' \in [Caller -> {"range", "next", "send", "join", "end"}]
    <3>1. prod \in [Caller -> {"range", "next", "send", "join", "end"}]
      BY <1>1 DEF Typed
    <3> QED BY <2>3, <3>1
  <2> QED BY <1>1, <2>2, <2>4 DEF Typed
<1>3. /\ UNCHANGED <<data, lock, pc, op, src, todo, chan, cons, out, seen, cancelled>>
      /\ \/ next[c] > Len(src[c]) /\ prod'[c] = "end" /\ next'[c] = next[c]
         \/ /\ next[c] <= Len(src[c]) /\ op[c] = "Filter" /\ src[c][next[c]] \notin Keep
            /\ prod'[c] = "next" /\ next'[c] = next[c] + 1
         \/ /\ next[c] <= Len(src[c]) /\ (op[c] = "Filter" => src[c][next[c]] \in Keep)
            /\ prod'[c] = "send" /\ next'[c] = next[c]
  BY <1>1 DEF Typed
<1>4. pc[c] = "wait" => op[c] \in {"Filter", "ForEach"} /\ src[c] = data /\ next[c] <= Len(data) + 1
  BY <1>1 DEF Sound, Inside, Mapping, Producing
<1>5. Sound(c)'
  <2>1. InSlice(c)' /\ Outside(c)' /\ Inside(c)' /\ Cancelling(c)'
    BY <1>1, <1>3 DEF Sound, InSlice, Outside, Inside, Cancelling
  <2>2. Producing(c)'
    BY <1>1, <1>3, <1>4 DEF Sound, Producing
  <2>3. Filtering(c)'
    <3> DEFINE P == Sequential!Kept(data)
    <3>1. CASE pc[c] = "wait" /\ op[c] = "Filter"
      <4>1. /\ cons[c] \in {"recv", "end"} /\ (cons[c] = "end" => prod[c] = "end")
            /\ Enumerates(out[c], next[c], P) /\ out[c] \in Seq(Nat)
        BY <1>1, <3>1 DEF Sound, Filtering, Typed
      <4>2. P \in SUBSET (Nat \ {0}) /\ \A i \in 1..Len(data) : i \in P <=> data[i] \in Keep
        BY <1>1, KeptTyped
      <4> HIDE DEF P
      <4>3. next'[c] = next[c] \/ (next'[c] = next[c] + 1 /\ next[c] \notin P)
        BY <1>1, <1>3, <1>4, <3>1, <4>2
      <4>4. Enumerates(out[c], next'[c], P)
        BY <1>1, <4>1, <4>2, <4>3, SkipEnumerates
      <4>5. prod'[c] = "send" => next'[c] \in P
        BY <1>1, <1>3, <1>4, <3>1, <4>2
      <4> QED BY <1>1, <1>3, <4>1, <4>4, <4>5 DEF Filtering, P, Sequential!Kept
    <3> QED BY <1>3, <3>1 DEF Filtering
  <2>4. Traversing(c)' /\ Mapping(c)'
    BY <1>1, <1>3, <1>4 DEF Sound, Traversing, Mapping
  <2> QED BY <2>1, <2>2, <2>3, <2>4 DEF Sound
<1>6. \A d \in Caller : d # c => Same(d)
  BY <1>1 DEF Typed, Same
<1> QED BY <1>2, <1>3, <1>5, <1>6, GoroutineIInv

LEMMA SendIInv == ASSUME IInv, NEW c \in Caller, Send(c) PROVE IInv'
<1> USE DEF Send
<1>0. Typed /\ Sound(c) /\ prod[c] = "send" /\ cons[c] = "recv"
  BY DEF IInv
<1>1. /\ Typed /\ Sound(c) /\ prod[c] = "send" /\ cons[c] = "recv"
      /\ next[c] \in Nat \ {0} /\ out[c] \in Seq(Nat) /\ Len(out[c]) \in Nat
  <2>1. next[c] \in Nat \ {0} /\ out[c] \in Seq(Nat)
    BY <1>0 DEF Typed
  <2> QED BY <1>0, <2>1
<1>2. /\ pc[c] = "wait" /\ op[c] \in {"Filter", "ForEach"} /\ todo[c] = {} /\ chan[c] = <<>>
      /\ src[c] = data /\ next[c] <= Len(data) /\ data \in Seq(Elem) /\ Len(data) \in Nat
  BY <1>1 DEF Sound, Outside, Inside, Mapping, Producing, Typed
<1>3. Typed'
  <2>0. /\ next' = [next EXCEPT ![c] = next[c] + 1] /\ next \in [Caller -> Nat \ {0}]
        /\ prod' = [prod EXCEPT ![c] = "next"] /\ prod \in [Caller -> {"range", "next", "send", "join", "end"}]
    BY <1>1 DEF Typed
  <2>1. next' \in [Caller -> Nat \ {0}] /\ prod' \in [Caller -> {"range", "next", "send", "join", "end"}]
    <3>1. next[c] + 1 \in Nat \ {0}
      BY <1>1
    <3> QED BY <2>0, <3>1
  <2>2. Append(out[c], next[c]) \in Seq(Nat)
    BY <1>1
  <2>3. out' \in [Caller -> Seq(Nat)] /\ cons' \in [Caller -> {"recv", "got", "act", "end"}]
    BY <1>1, <2>2 DEF Typed
  <2> QED BY <1>1, <2>1, <2>3 DEF Typed
<1>4. /\ UNCHANGED <<data, lock, pc, op, src, todo, chan, seen, cancelled>>
      /\ prod'[c] = "next" /\ next'[c] = next[c] + 1
      /\ op[c] = "Filter" => out'[c] = Append(out[c], next[c]) /\ cons'[c] = "recv"
      /\ op[c] # "Filter" => cons'[c] = "got" /\ out'[c] = out[c]
  BY <1>1 DEF Typed
<1>5. /\ DOMAIN src[c] = 1..Len(data) /\ out[c] \in Seq(DOMAIN src[c] \cup {0})
      /\ chan[c] \in Seq(DOMAIN src[c]) /\ todo[c] \subseteq DOMAIN src[c]
  BY <1>1, <1>2 DEF Sound, InSlice
<1>6. Sound(c)'
  <2>1. InSlice(c)'
    <3>1. next[c] \in DOMAIN src[c] \cup {0}
      BY <1>1, <1>2, <1>5
    <3>2. out'[c] \in Seq(DOMAIN src[c] \cup {0})
      <4>1. Append(out[c], next[c]) \in Seq(DOMAIN src[c] \cup {0})
        BY <1>5, <3>1
      <4> QED BY <1>2, <1>4, <1>5, <4>1
    <3> QED BY <1>4, <1>5, <3>2 DEF InSlice
  <2>2. Outside(c)' /\ Inside(c)' /\ Producing(c)' /\ Mapping(c)'
    BY <1>1, <1>2, <1>4 DEF Sound, Outside, Inside, Producing, Mapping
  <2>3. Filtering(c)'
    <3>1. CASE op[c] = "Filter"
      <4>1. next[c] \in Sequential!Kept(data) /\ Enumerates(out[c], next[c], Sequential!Kept(data))
        BY <1>1, <1>2, <3>1 DEF Sound, Filtering
      <4>2. Enumerates(out'[c], next'[c], Sequential!Kept(data))
        <5>1. Enumerates(Append(out[c], next[c]), next[c] + 1, Sequential!Kept(data))
          BY <1>1, <4>1, KeptTyped, AppendEnumerates
        <5> QED BY <1>4, <3>1, <5>1
      <4> QED BY <1>2, <1>4, <3>1, <4>2 DEF Filtering, Sequential!Kept
    <3> QED BY <1>4, <3>1 DEF Filtering
  <2>4. Traversing(c)'
    <3>1. op[c] = "ForEach" => /\ \A k \in 1..Len(out[c]) : out[c][k] = k
                               /\ Len(out[c]) = next[c] - 1
      BY <1>1, <1>2 DEF Sound, Traversing
    <3>2. op[c] = "ForEach" => Len(out'[c]) = next'[c] - 2
      BY <1>1, <1>4, <3>1
    <3> QED BY <1>2, <1>4, <3>1, <3>2 DEF Traversing
  <2>5. Cancelling(c)'
    BY <1>1, <1>2, <1>4 DEF Sound, Cancelling, Typed
  <2> QED BY <2>1, <2>2, <2>3, <2>4, <2>5 DEF Sound
<1>7. \A d \in Caller : d # c => Same(d)
  BY <1>1 DEF Typed, Same
<1> QED BY <1>3, <1>4, <1>6, <1>7, GoroutineIInv

LEMMA SelectIInv == ASSUME IInv, NEW c \in Caller, Select(c) PROVE IInv'
<1> USE DEF Select
<1>1. Typed /\ Sound(c) /\ cons[c] = "got"
  BY DEF IInv
<1>2. pc[c] = "wait" /\ op[c] = "ForEach"
  BY <1>1 DEF Sound, Outside, Inside, Filtering, Mapping
<1>3. Typed'
  BY <1>1 DEF Typed
<1>4. /\ UNCHANGED <<data, lock, pc, op, src, prod, next, todo, chan, out, seen, cancelled>>
      /\ cons'[c] = IF cancelled[c] THEN "end" ELSE "act"
  BY <1>1 DEF Typed
<1>5. Sound(c)'
  BY <1>1, <1>2, <1>4
     DEF Sound, InSlice, Outside, Inside, Producing, Filtering, Traversing, Mapping, Cancelling
<1>6. \A d \in Caller : d # c => Same(d)
  BY <1>1 DEF Typed, Same
<1> QED BY <1>3, <1>4, <1>5, <1>6, GoroutineIInv

LEMMA ActIInv == ASSUME IInv, NEW c \in Caller, Act(c) PROVE IInv'
<1> USE DEF Act
<1>0. Typed /\ Sound(c) /\ cons[c] = "act"
  BY DEF IInv
<1>1. /\ Typed /\ Sound(c) /\ cons[c] = "act" /\ next[c] \in Nat \ {0} /\ out[c] \in Seq(Nat)
      /\ Len(out[c]) \in Nat /\ seen[c] \in Nat
  <2>1. next[c] \in Nat \ {0} /\ out[c] \in Seq(Nat) /\ seen[c] \in Nat
    BY <1>0 DEF Typed
  <2> QED BY <1>0, <2>1
<1>2. /\ pc[c] = "wait" /\ op[c] = "ForEach" /\ prod[c] # "range" /\ src[c] = data
      /\ next[c] <= Len(data) + 1 /\ Len(out[c]) = next[c] - 2 /\ data \in Seq(Elem) /\ Len(data) \in Nat
  BY <1>1 DEF Sound, Outside, Inside, Producing, Filtering, Traversing, Mapping, Typed
<1>3. Typed'
  <2>1. next[c] - 1 \in Nat
    BY <1>1
  <2>2. Append(out[c], next[c] - 1) \in Seq(Nat)
    BY <1>1, <2>1
  <2>3. out' \in [Caller -> Seq(Nat)] /\ cons' \in [Caller -> {"recv", "got", "act", "end"}]
    BY <1>1, <2>2 DEF Typed
  <2> QED BY <1>1, <2>3 DEF Typed
<1>4. /\ UNCHANGED <<data, lock, pc, op, src, prod, next, todo, chan, seen, cancelled>>
      /\ cons'[c] = "recv" /\ out'[c] = Append(out[c], next[c] - 1)
      /\ next[c] - 1 \in 1..Len(data)
  BY <1>1, <1>2 DEF Typed
<1>5. /\ DOMAIN src[c] = 1..Len(data) /\ out[c] \in Seq(DOMAIN src[c] \cup {0})
      /\ chan[c] \in Seq(DOMAIN src[c]) /\ todo[c] \subseteq DOMAIN src[c]
  BY <1>1, <1>2 DEF Sound, InSlice
<1>6. Sound(c)'
  <2>1. InSlice(c)'
    <3>1. out'[c] \in Seq(DOMAIN src[c] \cup {0})
      BY <1>4, <1>5
    <3> QED BY <1>4, <1>5, <3>1 DEF InSlice
  <2>2. Outside(c)' /\ Inside(c)' /\ Producing(c)' /\ Mapping(c)' /\ Filtering(c)'
    BY <1>1, <1>2, <1>4 DEF Sound, Outside, Inside, Producing, Mapping, Filtering
  <2>3. Traversing(c)'
    <3>1. \A k \in 1..Len(out[c]) : out[c][k] = k
      BY <1>1, <1>2 DEF Sound, Traversing
    <3>2. Len(out'[c]) = next'[c] - 1
      BY <1>1, <1>2, <1>4
    <3>3. \A k \in 1..Len(out'[c]) : out'[c][k] = k
      BY <1>1, <1>2, <1>4, <3>1
    <3> QED BY <1>4, <3>2, <3>3 DEF Traversing
  <2>4. Cancelling(c)'
    <3>1. Len(out'[c]) = Len(out[c]) + 1
      BY <1>1, <1>4
    <3>2. cancelled[c] => Len(out[c]) <= seen[c]
      BY <1>1, <1>2 DEF Sound, Cancelling
    <3> QED BY <1>1, <1>2, <1>4, <3>1, <3>2 DEF Cancelling
  <2> QED BY <2>1, <2>2, <2>3, <2>4 DEF Sound
<1>7. \A d \in Caller : d # c => Same(d)
  BY <1>1 DEF Typed, Same
<1> QED BY <1>3, <1>4, <1>6, <1>7, GoroutineIInv

LEMMA AppendTyped == ASSUME NEW S, NEW s \in Seq(S), NEW x \in S PROVE Append(s, x) \in Seq(S)
  OBVIOUS

LEMMA WorkIInv == ASSUME IInv, NEW c \in Caller, NEW i \in todo[c], Work(c, i) PROVE IInv'
<1> USE DEF Work
<1>1. Typed /\ Sound(c) /\ i \in Nat /\ chan[c] \in Seq(Nat) /\ Len(chan[c]) \in Nat
  <2>1. Typed /\ Sound(c)
    BY DEF IInv
  <2>2. todo[c] \in SUBSET Nat /\ chan[c] \in Seq(Nat)
    BY <2>1 DEF Typed
  <2> QED BY <2>1, <2>2
<1>2. /\ pc[c] = "wait" /\ op[c] = "Map" /\ src[c] = data /\ prod[c] = "join" /\ cons[c] = "recv"
      /\ \A k \in 1..Len(data) :
            k \in todo[c] \/ (\E j \in 1..Len(chan[c]) : chan[c][j] = k) \/ out[c][k] = k
  BY <1>1 DEF Sound, Outside, Inside, Producing, Mapping
<1>3. Append(chan[c], i) \in Seq(Nat)
  BY <1>1
<1>4. Typed'
  <2>1. chan' \in [Caller -> Seq(Nat)] /\ todo' \in [Caller -> SUBSET Nat]
    BY <1>1, <1>3 DEF Typed
  <2> QED BY <1>1, <2>1 DEF Typed
<1>5. /\ UNCHANGED <<data, result, cancelled, lock, op, pc, src, prod, next, cons, out, seen>>
      /\ todo'[c] = todo[c] \ {i} /\ chan'[c] = Append(chan[c], i)
  BY <1>1 DEF Typed
<1>6. Sound(c)'
  <2>1. InSlice(c)'
    <3>1. chan[c] \in Seq(DOMAIN src[c]) /\ todo[c] \subseteq DOMAIN src[c] /\ out[c] \in Seq(DOMAIN src[c] \cup {0})
      BY <1>1 DEF Sound, InSlice
    <3>2. i \in DOMAIN src[c]
      BY <3>1
    <3>3. Append(chan[c], i) \in Seq(DOMAIN src[c])
      BY <3>1, <3>2, AppendTyped
    <3> QED BY <1>5, <3>1, <3>3 DEF InSlice
  <2>2. \A k \in 1..Len(data) :
           k \in todo'[c] \/ (\E j \in 1..Len(chan'[c]) : chan'[c][j] = k) \/ out[c][k] = k
    <3>1. /\ Len(chan'[c]) = Len(chan[c]) + 1 /\ chan'[c][Len(chan[c]) + 1] = i
          /\ \A j \in 1..Len(chan[c]) : chan'[c][j] = chan[c][j] /\ j \in 1..Len(chan'[c])
      BY <1>1, <1>5
    <3>2. Len(chan[c]) + 1 \in 1..Len(chan'[c])
      BY <1>1, <3>1
    <3> QED BY <1>2, <1>5, <3>1, <3>2
  <2>3. Mapping(c)'
    BY <1>1, <1>2, <1>5, <2>2 DEF Sound, Mapping
  <2> QED BY <1>1, <1>2, <1>5, <2>1, <2>3
      DEF Sound, Outside, Inside, Producing, Filtering, Traversing, Cancelling
<1>7. \A d \in Caller : d # c => Same(d)
  BY <1>1 DEF Typed, Same
<1> QED BY <1>4, <1>5, <1>6, <1>7, GoroutineIInv

LEMMA JoinIInv == ASSUME IInv, NEW c \in Caller, Join(c) PROVE IInv'
<1> USE DEF Join
<1>1. Typed /\ Sound(c)
  BY DEF IInv
<1>2. pc[c] = "wait" /\ op[c] = "Map"
  BY <1>1 DEF Sound, Outside, Inside, Producing
<1>3. Typed'
  BY <1>1 DEF Typed
<1>4. /\ UNCHANGED <<data, result, cancelled, lock, op, pc, src, next, todo, chan, cons, out, seen>>
      /\ prod'[c] = "end"
  BY <1>1 DEF Typed
<1>5. Sound(c)'
  BY <1>1, <1>2, <1>4
     DEF Sound, InSlice, Outside, Inside, Producing, Filtering, Traversing, Mapping, Cancelling
<1>6. \A d \in Caller : d # c => Same(d)
  BY <1>1 DEF Typed, Same
<1> QED BY <1>3, <1>4, <1>5, <1>6, GoroutineIInv

LEMMA HeadTail ==
  ASSUME NEW S, NEW s \in Seq(S), s # <<>>
  PROVE  /\ Len(s) \in Nat \ {0} /\ Head(s) = s[1] /\ Head(s) \in S
         /\ Tail(s) \in Seq(S) /\ Len(Tail(s)) = Len(s) - 1
         /\ \A j \in 1..(Len(s) - 1) : Tail(s)[j] = s[j + 1]
  OBVIOUS

LEMMA ReceiveIInv == ASSUME IInv, NEW c \in Caller, Receive(c) PROVE IInv'
<1> USE DEF Receive
<1> DEFINE i == Head(chan[c])
<1>1. /\ Typed /\ Sound(c) /\ cons[c] = "recv" /\ chan[c] # <<>> /\ out[c] \in Seq(Nat)
      /\ chan[c] \in Seq(DOMAIN src[c]) /\ todo[c] \subseteq DOMAIN src[c] /\ out[c] \in Seq(DOMAIN src[c] \cup {0})
  BY DEF IInv, Typed, Sound, InSlice
<1>2. /\ pc[c] = "wait" /\ op[c] = "Map" /\ src[c] = data /\ Len(out[c]) = Len(data)
      /\ data \in Seq(Elem) /\ DOMAIN src[c] = 1..Len(data) /\ Len(data) \in Nat
      /\ \A k \in 1..Len(data) : out[c][k] \in {0, k}
      /\ \A k \in 1..Len(data) :
            k \in todo[c] \/ (\E j \in 1..Len(chan[c]) : chan[c][j] = k) \/ out[c][k] = k
  BY <1>1 DEF Sound, Outside, Inside, Producing, Mapping, Typed
<1>3. /\ i \in 1..Len(data) /\ i = chan[c][1] /\ Tail(chan[c]) \in Seq(DOMAIN src[c])
      /\ Len(chan[c]) \in Nat \ {0} /\ Len(Tail(chan[c])) = Len(chan[c]) - 1
      /\ \A j \in 1..(Len(chan[c]) - 1) : Tail(chan[c])[j] = chan[c][j + 1]
  <2>1. /\ Len(chan[c]) \in Nat \ {0} /\ Head(chan[c]) = chan[c][1] /\ Head(chan[c]) \in DOMAIN src[c]
        /\ Tail(chan[c]) \in Seq(DOMAIN src[c]) /\ Len(Tail(chan[c])) = Len(chan[c]) - 1
        /\ \A j \in 1..(Len(chan[c]) - 1) : Tail(chan[c])[j] = chan[c][j + 1]
    BY <1>1, HeadTail
  <2> QED BY <1>2, <2>1
<1> HIDE DEF i
<1>4. /\ UNCHANGED <<data, result, cancelled, lock, op, pc, src, prod, next, todo, cons, seen>>
      /\ out'[c] = [out[c] EXCEPT ![i] = i] /\ chan'[c] = Tail(chan[c])
      /\ out' = [out EXCEPT ![c] = [out[c] EXCEPT ![i] = i]] /\ chan' = [chan EXCEPT ![c] = Tail(chan[c])]
  BY <1>1 DEF Typed, i
<1>5. /\ DOMAIN out[c] = 1..Len(data)
      /\ [out[c] EXCEPT ![i] = i] \in Seq(DOMAIN src[c] \cup {0}) /\ Len([out[c] EXCEPT ![i] = i]) = Len(data)
      /\ [out[c] EXCEPT ![i] = i] \in Seq(Nat)
  BY <1>1, <1>2, <1>3
<1>6. Typed'
  <2>1. out' \in [Caller -> Seq(Nat)]
    BY <1>1, <1>4, <1>5 DEF Typed
  <2>2. chan[c] \in Seq(Nat)
    BY <1>1 DEF Typed
  <2>3. Tail(chan[c]) \in Seq(Nat)
    BY <1>1, <2>2, HeadTail
  <2>4. chan' \in [Caller -> Seq(Nat)]
    BY <1>1, <1>4, <2>3 DEF Typed
  <2> QED BY <1>1, <1>4, <2>1, <2>4 DEF Typed
<1>7. Sound(c)'
  <2>1. InSlice(c)'
    BY <1>1, <1>3, <1>4, <1>5 DEF InSlice
  <2>2. \A k \in 1..Len(data) : out'[c][k] = IF k = i THEN i ELSE out[c][k]
    BY <1>3, <1>4, <1>5
  <2>3. ASSUME NEW k \in 1..Len(data)
        PROVE  k \in todo[c] \/ (\E j \in 1..Len(chan'[c]) : chan'[c][j] = k) \/ out'[c][k] = k
    <3>1. CASE k = i \/ k \in todo[c] \/ out[c][k] = k
      BY <2>2, <3>1
    <3>2. CASE k # i /\ \E j \in 1..Len(chan[c]) : chan[c][j] = k
      <4>1. PICK j \in 1..Len(chan[c]) : chan[c][j] = k
        BY <3>2
      <4>2. j # 1
        BY <1>3, <3>2, <4>1
      <4>3. j - 1 \in 1..(Len(chan[c]) - 1) /\ (j - 1) + 1 = j
        BY <1>3, <4>2
      <4> QED BY <1>3, <1>4, <4>1, <4>3
    <3> QED BY <1>2, <3>1, <3>2
  <2>4. Mapping(c)'
    <3>1. \A k \in 1..Len(data) : out'[c][k] \in {0, k}
      BY <1>2, <2>2
    <3>2. cons[c] # "end"
      BY <1>1
    <3>3. prod[c] \in {"join", "end"} /\ (prod[c] = "end" => todo[c] = {})
      BY <1>1, <1>2 DEF Sound, Mapping
    <3> QED BY <1>1, <1>2, <1>4, <1>5, <2>3, <3>1, <3>2, <3>3 DEF Mapping
  <2>5. Outside(c)' /\ Inside(c)' /\ Cancelling(c)'
    BY <1>1, <1>2, <1>4 DEF Sound, Outside, Inside, Cancelling
  <2> QED BY <1>2, <1>4, <2>1, <2>4, <2>5 DEF Sound, Producing, Filtering, Traversing
<1>8. \A d \in Caller : d # c => Same(d)
  BY <1>1, <1>4 DEF Typed, Same
<1> QED BY <1>4, <1>6, <1>7, <1>8, GoroutineIInv

LEMMA DrainedIInv == ASSUME IInv, NEW c \in Caller, Drained(c) PROVE IInv'
<1> USE DEF Drained
<1>1. Typed /\ Sound(c) /\ cons[c] = "recv" /\ prod[c] = "end" /\ chan[c] = <<>>
  BY DEF IInv
<1>2. pc[c] = "wait"
  BY <1>1 DEF Sound, Outside
<1>3. Typed'
  BY <1>1 DEF Typed
<1>4. /\ UNCHANGED <<data, result, cancelled, lock, op, pc, src, prod, next, todo, chan, out, seen>>
      /\ cons'[c] = "end"
  BY <1>1 DEF Typed
<1>5. Sound(c)'
  <2>1. InSlice(c)' /\ Outside(c)' /\ Inside(c)' /\ Producing(c)' /\ Cancelling(c)'
    BY <1>1, <1>2, <1>4 DEF Sound, InSlice, Outside, Inside, Producing, Cancelling
  <2>2. Filtering(c)' /\ Traversing(c)' /\ Mapping(c)'
    BY <1>1, <1>2, <1>4 DEF Sound, Filtering, Traversing, Mapping
  <2> QED BY <2>1, <2>2 DEF Sound
<1>6. \A d \in Caller : d # c => Same(d)
  BY <1>1 DEF Typed, Same
<1> QED BY <1>3, <1>4, <1>5, <1>6, GoroutineIInv

-----------------------------------------------------------------------------
(* All together.                                                           *)

LEMMA NextIInv == IInv /\ [Next]_vars => IInv'
<1> SUFFICES ASSUME IInv, [Next]_vars PROVE IInv'
  OBVIOUS
<1>1. ASSUME NEW c \in Caller, NEW o \in Ops, Call(c, o) PROVE IInv'
  BY <1>1, CallIInv
<1>2. ASSUME NEW c \in Caller, Lock(c) \/ Rearrange(c) \/ Return(c) \/ CancelContext(c) PROVE IInv'
  BY <1>2, LockIInv, RearrangeIInv, ReturnIInv, CancelIInv
<1>3. ASSUME NEW c \in Caller, Produce(c) PROVE IInv'
  BY <1>3, RangeIInv, AdvanceIInv, JoinIInv DEF Produce
<1>4. ASSUME NEW c \in Caller, Consume(c) PROVE IInv'
  BY <1>4, SendIInv, SelectIInv, ActIInv, ReceiveIInv, DrainedIInv DEF Consume
<1>5. ASSUME NEW c \in Caller, Transform(c) PROVE IInv'
  BY <1>5, WorkIInv DEF Transform
<1>6. CASE UNCHANGED vars
  <2>1. Typed'
    BY <1>6 DEF vars, IInv, Typed
  <2>2. \A d \in Caller : Same(d) /\ UNCHANGED <<lock, data>>
    BY <1>6 DEF vars, Same
  <2> QED BY <2>1, <2>2, OthersSound DEF IInv
<1> QED BY <1>1, <1>2, <1>3, <1>4, <1>5, <1>6 DEF Next

LEMMA SpecIInv == Spec => []IInv
  BY InitIInv, NextIInv, PTL DEF Spec

(* The variables stay of their types, and no goroutine holds a position    *)
(* outside the slice it ranges over.                                       *)
THEOREM StreamTypeOK == Spec => []TypeOK
<1>1. IInv => TypeOK
  BY DEF IInv, Sound, TypeOK
<1> QED BY <1>1, SpecIInv, PTL

(* Goroutines read the stream's slice and hand elements on only while the  *)
(* operation that started them holds the mutex.                            *)
THEOREM StreamReadsUnderLock == Spec => []ReadsUnderLock
<1>1. IInv => ReadsUnderLock
  BY DEF IInv, Sound, Outside, Inside, ReadsUnderLock
<1> QED BY <1>1, SpecIInv, PTL

(* After the context of a ForEach is cancelled, at most one more element   *)
(* is visited.                                                             *)
THEOREM StreamCancelStops == Spec => []CancelStops
<1>1. ASSUME IInv, NEW c \in Caller, cancelled[c], pc[c] = "wait" PROVE Len(out[c]) <= seen[c] + 1
  BY <1>1 DEF IInv, Sound, Cancelling, Typed
<1>2. IInv => CancelStops
  BY <1>1 DEF CancelStops
<1> QED BY <1>2, SpecIInv, PTL

(* Only a cancelled ForEach leaves a goroutine behind.                     *)
THEOREM StreamNothingLeftBehind == Spec => []NothingLeftBehind
<1>1. IInv => NothingLeftBehind
  BY DEF IInv, Sound, Outside, NothingLeftBehind
<1> QED BY <1>1, SpecIInv, PTL

-----------------------------------------------------------------------------
(* The refinement: what an operation returns is what a loop would give.    *)

LEMMA ReturnRefines == ASSUME IInv, NEW c \in Caller, Return(c) PROVE Sequential!Next
<1>1. /\ Typed /\ Sound(c) /\ pc[c] = "wait" /\ cons[c] = "end" /\ op[c] \in {"Filter", "ForEach", "Map"}
      /\ data \in Seq(Elem) /\ Len(data) \in Nat /\ DOMAIN data = 1..Len(data)
      /\ out[c] \in Seq(Nat) /\ Len(out[c]) \in Nat /\ DOMAIN out[c] = 1..Len(out[c])
  BY DEF Return, IInv, Sound, Inside, Typed
<1>2. result' = [result EXCEPT ![c] = Result(c)] /\ UNCHANGED cancelled
      /\ data' = IF op[c] = "Filter" THEN Result(c) ELSE data
  BY DEF Return, Sequential!Gives
<1>3. CASE op[c] = "Filter"
  <2>1. prod[c] = "end" /\ src[c] = data /\ next[c] = Len(data) + 1
    BY <1>1, <1>3 DEF Sound, Producing, Filtering
  <2>2. Enumerates(out[c], Len(data) + 1, Sequential!Kept(data))
    BY <1>1, <1>3, <2>1 DEF Sound, Filtering
  <2>3. /\ Len(out[c]) \in 0..Len(data)
        /\ out[c] \in [1..Len(out[c]) -> Sequential!Kept(data)]
    BY <1>1, <2>2 DEF Enumerates
  <2>4. /\ \A j, k \in DOMAIN out[c] : j < k => out[c][j] < out[c][k]
        /\ \A i \in Sequential!Kept(data) : \E k \in DOMAIN out[c] : out[c][k] = i
    <3>1. DOMAIN out[c] = 1..Len(out[c])
      BY <1>1
    <3>2. \A i \in Sequential!Kept(data) : i < Len(data) + 1
      BY <1>1 DEF Sequential!Kept
    <3> QED BY <2>2, <3>1, <3>2 DEF Enumerates
  <2>5. out[c] \in Sequential!Picks(data, Sequential!Kept(data))
    BY <2>3, <2>4 DEF Sequential!Picks
  <2>6. Result(c) = Sequential!Pick(data, out[c])
    BY <1>3, <2>1 DEF Result, Sequential!Pick
  <2>7. Sequential!Filter(c)
    BY <1>2, <1>3, <2>5, <2>6 DEF Sequential!Filter, Sequential!Replace, Sequential!Gives
  <2> QED BY <2>7 DEF Sequential!Next
<1>4. CASE op[c] = "Map"
  <2>1. src[c] = data /\ todo[c] = {} /\ Len(chan[c]) = 0 /\ Len(out[c]) = Len(data)
        /\ \A i \in 1..Len(data) :
              i \in todo[c] \/ (\E k \in 1..Len(chan[c]) : chan[c][k] = i) \/ out[c][i] = i
    BY <1>1, <1>4, Empty DEF Sound, Mapping
  <2>2. \A i \in 1..Len(data) : out[c][i] = i
    BY <2>1
  <2>3. Result(c) = Sequential!Mapped(data)
    BY <1>1, <1>4, <2>1, <2>2 DEF Result, Sequential!Mapped
  <2>4. Sequential!Map(c)
    BY <1>2, <1>4, <2>3 DEF Sequential!Map, Sequential!Gives
  <2> QED BY <2>4 DEF Sequential!Next
<1>5. CASE op[c] = "ForEach"
  <2>1. /\ \A k \in 1..Len(out[c]) : out[c][k] = k
        /\ \/ prod[c] = "end" /\ Len(out[c]) = next[c] - 1
           \/ cancelled[c] /\ Len(out[c]) = next[c] - 2
        /\ prod[c] # "range" /\ src[c] = data /\ next[c] <= Len(data) + 1
        /\ prod[c] = "end" => next[c] = Len(data) + 1
    BY <1>1, <1>5 DEF Sound, Producing, Traversing
  <2>2. Len(out[c]) \in 0..Len(data) /\ (Len(out[c]) < Len(data) => cancelled[c])
    BY <1>1, <2>1 DEF Typed
  <2>3. Result(c) = [k \in 1..Len(out[c]) |-> data[k]]
    BY <1>1, <1>5, <2>1 DEF Result
  <2>4. SubSeq(data, 1, Len(out[c])) = [k \in 1..Len(out[c]) |-> data[k]]
    BY <1>1, <2>2
  <2>5. Sequential!ForEach(c)
    BY <1>2, <1>5, <2>2, <2>3, <2>4 DEF Sequential!ForEach, Sequential!Gives
  <2> QED BY <2>5 DEF Sequential!Next
<1> QED BY <1>1, <1>3, <1>4, <1>5

LEMMA StepRefines ==
  IInv /\ [Next]_vars => [Sequential!Next]_<<data, result, cancelled>>
<1> SUFFICES ASSUME IInv, [Next]_vars
             PROVE  Sequential!Next \/ UNCHANGED <<data, result, cancelled>>
  OBVIOUS
<1>1. ASSUME NEW c \in Caller, NEW o \in Ops, Call(c, o) PROVE Sequential!Next
  BY <1>1 DEF Call, Sequential!Next
<1>2. ASSUME NEW c \in Caller, Rearrange(c) PROVE Sequential!Next
  BY <1>2 DEF Rearrange, Sequential!Next
<1>3. ASSUME NEW c \in Caller, CancelContext(c) PROVE Sequential!Next
  BY <1>3 DEF CancelContext, Sequential!Next
<1>4. ASSUME NEW c \in Caller, Lock(c) \/ Produce(c) \/ Consume(c) \/ Transform(c)
      PROVE  UNCHANGED <<data, result, cancelled>>
  BY <1>4 DEF Lock, Produce, Consume, Transform, Range, Advance, Join, Send, Select, Act, Receive, Drained, Work
<1>5. CASE UNCHANGED vars
  BY <1>5 DEF vars
<1> QED BY <1>1, <1>2, <1>3, <1>4, <1>5, ReturnRefines DEF Next

LEMMA InitRefines == Init => Sequential!Init
  BY DEF Init, Sequential!Init

(* The goroutines and channels implement the loops of Pipeline: what an    *)
(* operation gives is what a loop over the data gives, whoever else uses   *)
(* the stream, and only a cancelled ForEach stops early.                   *)
THEOREM StreamImplementsPipeline == Spec => ImplementsPipeline
<1>1. Spec => [][Sequential!Next]_<<data, result, cancelled>>
  BY SpecIInv, StepRefines, PTL DEF Spec
<1> QED BY <1>1, InitRefines, PTL DEF Spec, ImplementsPipeline, Sequential!Spec

-----------------------------------------------------------------------------
(* Every operation runs to its end: what CallsReturn says without time.    *)

Finite == INSTANCE FiniteSetTheorems

\* Left(c): how many steps the goroutines of c's operation may still take.
ProducerLeft(c) == CASE prod[c] = "range" -> 3 [] prod[c] = "next" -> 2
                     [] prod[c] = "send" -> 1 [] OTHER -> 0
ConsumerLeft(c) == CASE cons[c] = "got" -> 3 [] cons[c] = "act" -> 2
                     [] cons[c] = "recv" -> 1 [] OTHER -> 0
Left(c) ==
    IF op[c] = "Map"
      THEN 2 * Finite!Cardinality(todo[c]) + Len(chan[c])
               + (IF prod[c] = "end" THEN 0 ELSE 1) + (IF cons[c] = "end" THEN 0 ELSE 1)
      ELSE 4 * (Len(data) + 1 - next[c]) + ProducerLeft(c) + ConsumerLeft(c)

LEMMA TodoFinite ==
  ASSUME IInv, NEW c \in Caller, pc[c] = "wait"
  PROVE  Finite!IsFiniteSet(todo[c]) /\ Finite!Cardinality(todo[c]) \in Nat
<1>1. todo[c] \in SUBSET (1..Len(src[c])) /\ Len(src[c]) \in Int
  <2>1. src[c] \in Seq(Elem) /\ todo[c] \subseteq DOMAIN src[c]
    BY DEF IInv, Typed, Sound, InSlice
  <2> QED BY <2>1
<1>2. Finite!IsFiniteSet(1..Len(src[c]))
  BY <1>1, Finite!FS_Interval
<1>3. Finite!IsFiniteSet(todo[c])
  BY <1>1, <1>2, Finite!FS_Subset
<1> QED BY <1>3, Finite!FS_CardinalityType

LEMMA LeftTyped ==
  ASSUME IInv, NEW c \in Caller, pc[c] = "wait" PROVE Left(c) \in Nat
<1>1. /\ op[c] \in {"Filter", "ForEach", "Map"} /\ Len(data) \in Nat /\ Len(chan[c]) \in Nat
      /\ next[c] \in Nat \ {0}
  BY DEF IInv, Typed, Sound, Inside
<1>2. CASE op[c] = "Map"
  BY <1>1, <1>2, TodoFinite DEF Left
<1>3. CASE op[c] # "Map"
  <2>1. next[c] <= Len(data) + 1
    <3>1. prod[c] = "range" => next[c] = 1
      BY <1>1, <1>3 DEF IInv, Sound, Producing
    <3> QED BY <1>1, <1>3, <3>1 DEF IInv, Sound, Producing
  <2>2. ProducerLeft(c) \in Nat /\ ConsumerLeft(c) \in Nat
    BY DEF ProducerLeft, ConsumerLeft
  <2> QED BY <1>1, <1>3, <2>1, <2>2 DEF Left
<1> QED BY <1>2, <1>3

\* The goroutines of an operation that is under way.
Goroutines(c) == Produce(c) \/ Consume(c) \/ Transform(c)

\* A loop: one position, or one station of one of its two sides.
LEMMA LoopDescends ==
  ASSUME IInv, NEW c \in Caller, pc[c] = "wait", op[c] \in {"Filter", "ForEach"}, Goroutines(c)
  PROVE  Left(c)' < Left(c)
<1>1. /\ Len(data) \in Nat /\ next[c] \in Nat \ {0} /\ todo[c] = {} /\ chan[c] = <<>> /\ prod[c] # "join"
      /\ prod[c] \in {"range", "next", "send", "end"} /\ cons[c] \in {"recv", "got", "act", "end"}
  BY DEF IInv, Typed, Sound, Producing
<1>2. data' = data /\ op' = op
  BY DEF Goroutines, Produce, Consume, Transform, Range, Advance, Join, Send, Select, Act, Receive,
     Drained, Work
<1>3. ~Join(c) /\ ~Transform(c) /\ ~Receive(c)
  BY <1>1 DEF Join, Transform, Receive
<1>4. /\ Left(c) = 4 * (Len(data) + 1 - next[c]) + ProducerLeft(c) + ConsumerLeft(c)
      /\ Left(c)' = 4 * (Len(data) + 1 - next'[c]) + ProducerLeft(c)' + ConsumerLeft(c)'
  BY <1>2 DEF Left
<1> USE DEF ProducerLeft, ConsumerLeft
<1>5. CASE Range(c)
  <2>1. prod[c] = "range" /\ prod'[c] = "next" /\ next' = next /\ cons' = cons
    BY <1>5 DEF Range, IInv, Typed
  <2> QED BY <1>1, <1>4, <2>1
<1>6. CASE Advance(c)
  <2>1. /\ prod[c] = "next" /\ cons' = cons
        /\ \/ prod'[c] = "end" /\ next' = next
           \/ prod'[c] = "next" /\ next'[c] = next[c] + 1
           \/ prod'[c] = "send" /\ next' = next
    <3>1. /\ prod \in [Caller -> {"range", "next", "send", "join", "end"}]
          /\ next \in [Caller -> Nat \ {0}]
      BY DEF IInv, Typed
    <3> QED BY <1>6, <3>1 DEF Advance
  <2>2. ConsumerLeft(c)' = ConsumerLeft(c) /\ ConsumerLeft(c) \in Nat /\ ProducerLeft(c) = 2
    BY <1>1, <2>1
  <2>3. CASE next' = next
    <3>1. ProducerLeft(c)' \in {0, 1}
      BY <2>1, <2>3, <1>1
    <3> HIDE DEF ProducerLeft, ConsumerLeft
    <3> QED BY <1>1, <1>4, <2>2, <2>3, <3>1
  <2>4. CASE prod'[c] = "next" /\ next'[c] = next[c] + 1
    <3>1. ProducerLeft(c)' = 2
      BY <2>4
    <3>2. 4 * (Len(data) + 1 - next'[c]) = 4 * (Len(data) + 1 - next[c]) - 4
      BY <1>1, <2>4
    <3>3. 4 * (Len(data) + 1 - next[c]) \in Int
      BY <1>1
    <3> HIDE DEF ProducerLeft, ConsumerLeft
    <3> QED BY <1>4, <2>2, <3>1, <3>2, <3>3
  <2> QED BY <2>1, <2>3, <2>4
<1>7. CASE Send(c)
  <2>1. /\ prod[c] = "send" /\ prod'[c] = "next" /\ next'[c] = next[c] + 1
        /\ cons[c] = "recv" /\ cons'[c] \in {"recv", "got"}
    <3>1. /\ prod \in [Caller -> {"range", "next", "send", "join", "end"}]
          /\ next \in [Caller -> Nat \ {0}] /\ cons \in [Caller -> {"recv", "got", "act", "end"}]
      BY DEF IInv, Typed
    <3> QED BY <1>7, <3>1 DEF Send
  <2>2. /\ ProducerLeft(c) = 1 /\ ProducerLeft(c)' = 2
        /\ ConsumerLeft(c) \in Nat /\ ConsumerLeft(c)' <= ConsumerLeft(c) + 2 /\ ConsumerLeft(c)' \in Nat
    BY <2>1
  <2>3. 4 * (Len(data) + 1 - next'[c]) = 4 * (Len(data) + 1 - next[c]) - 4
    BY <1>1, <2>1
  <2>4. 4 * (Len(data) + 1 - next[c]) \in Int
    BY <1>1
  <2> HIDE DEF ProducerLeft, ConsumerLeft
  <2> QED BY <1>4, <2>2, <2>3, <2>4
<1>8. CASE Select(c) \/ Act(c) \/ Drained(c)
  <2>1. /\ prod' = prod /\ next' = next
        /\ \/ cons[c] = "got" /\ cons'[c] \in {"act", "end"}
           \/ cons[c] = "act" /\ cons'[c] = "recv"
           \/ cons[c] = "recv" /\ cons'[c] = "end"
    <3>1. cons \in [Caller -> {"recv", "got", "act", "end"}]
      BY DEF IInv, Typed
    <3> QED BY <1>8, <3>1 DEF Select, Act, Drained
  <2> QED BY <1>1, <1>4, <2>1, SMTT(30)
<1> QED BY <1>3, <1>5, <1>6, <1>7, <1>8 DEF Goroutines, Produce, Consume

\* Map: an element moves from its goroutine to the channel to its place.
LEMMA MapDescends ==
  ASSUME IInv, NEW c \in Caller, pc[c] = "wait", op[c] = "Map", Goroutines(c)
  PROVE  Left(c)' < Left(c)
<1>1. /\ prod[c] \in {"join", "end"} /\ cons[c] \in {"recv", "end"}
      /\ chan[c] \in Seq(Nat) /\ Len(chan[c]) \in Nat /\ Finite!Cardinality(todo[c]) \in Nat
  BY TodoFinite DEF IInv, Typed, Sound, Mapping
<1>2. op' = op
  BY DEF Goroutines, Produce, Consume, Transform, Range, Advance, Join, Send, Select, Act, Receive,
     Drained, Work
<1>3. ~Range(c) /\ ~Advance(c) /\ ~Send(c) /\ ~Select(c) /\ ~Act(c)
  BY <1>1 DEF Range, Advance, Send, Select, Act
<1>4. CASE Transform(c)
  <2>1. PICK i \in todo[c] : Work(c, i)
    BY <1>4 DEF Transform
  <2>2. /\ todo'[c] = todo[c] \ {i} /\ Len(chan'[c]) = Len(chan[c]) + 1
        /\ prod' = prod /\ cons' = cons
    <3>1. todo \in [Caller -> SUBSET Nat] /\ chan \in [Caller -> Seq(Nat)]
      BY DEF IInv, Typed
    <3>2. todo'[c] = todo[c] \ {i} /\ chan'[c] = Append(chan[c], i) /\ prod' = prod /\ cons' = cons
      BY <2>1, <3>1 DEF Work
    <3>3. i \in Nat
      BY <3>1
    <3> QED BY <1>1, <3>2, <3>3
  <2>3. Finite!Cardinality(todo'[c]) = Finite!Cardinality(todo[c]) - 1
    BY <2>2, TodoFinite, Finite!FS_RemoveElement, ZenonT(30)
  <2> QED BY <1>1, <1>2, <2>2, <2>3 DEF Left
<1>5. CASE Receive(c)
  <2>1. /\ todo' = todo /\ prod' = prod /\ cons' = cons /\ Len(chan'[c]) = Len(chan[c]) - 1
    <3>1. chan \in [Caller -> Seq(Nat)]
      BY DEF IInv, Typed
    <3>2. chan[c] # <<>> /\ chan'[c] = Tail(chan[c]) /\ todo' = todo /\ prod' = prod /\ cons' = cons
      BY <1>5, <3>1 DEF Receive
    <3> QED BY <1>1, <3>2, HeadTail
  <2> QED BY <1>1, <1>2, <2>1, SMTT(30) DEF Left
<1>6. CASE Join(c) \/ Drained(c)
  <2>1. /\ todo' = todo /\ chan' = chan
        /\ \/ prod[c] = "join" /\ prod'[c] = "end" /\ cons' = cons
           \/ cons[c] = "recv" /\ cons'[c] = "end" /\ prod' = prod
    BY <1>6 DEF Join, Drained, IInv, Typed
  <2> QED BY <1>1, <1>2, <2>1 DEF Left
<1> QED BY <1>3, <1>4, <1>5, <1>6 DEF Goroutines, Produce, Consume

LEMMA Descends ==
  ASSUME IInv, NEW c \in Caller, pc[c] = "wait", Goroutines(c) PROVE Left(c)' < Left(c)
  BY LoopDescends, MapDescends DEF IInv, Sound, Inside

\* The mutex keeps the data of a running operation away from everybody else.
LEMMA OthersLeave ==
  ASSUME IInv, NEW c \in Caller, NEW d \in Caller, d # c, pc[d] = "wait",
         \/ \E o \in Ops : Call(c, o)
         \/ Lock(c) \/ Rearrange(c) \/ Return(c) \/ CancelContext(c) \/ Goroutines(c)
  PROVE  Left(d)' = Left(d)
<1>1. lock = d /\ d # None
  BY ElementsTyped DEF IInv, Sound, Inside
<1>2. ~Lock(c) /\ ~Rearrange(c)
  BY <1>1 DEF Lock, Rearrange
<1>3. ~Return(c)
  BY <1>1 DEF Return, IInv, Sound, Inside
<1> SUFFICES /\ data' = data /\ op'[d] = op[d] /\ prod'[d] = prod[d] /\ next'[d] = next[d]
             /\ todo'[d] = todo[d] /\ chan'[d] = chan[d] /\ cons'[d] = cons[d]
  BY DEF Left, ProducerLeft, ConsumerLeft
<1> USE DEF IInv, Typed
<1>4. ASSUME NEW o \in Ops, Call(c, o)
      PROVE  /\ data' = data /\ op'[d] = op[d] /\ prod'[d] = prod[d] /\ next'[d] = next[d]
             /\ todo'[d] = todo[d] /\ chan'[d] = chan[d] /\ cons'[d] = cons[d]
  BY <1>4 DEF Call, Sequential!Begin
<1>5. CASE CancelContext(c)
  BY <1>5 DEF CancelContext, Sequential!Cancel
<1>6. CASE Produce(c)
  BY <1>6 DEF Produce, Range, Advance, Join
<1>7. CASE Consume(c)
  BY <1>7 DEF Consume, Send, Select, Act, Receive, Drained
<1>8. CASE Transform(c)
  BY <1>8 DEF Transform, Work
<1> QED BY <1>2, <1>3, <1>4, <1>5, <1>6, <1>7, <1>8 DEF Goroutines

\* The caller's own steps but the one that begins the operation.
LEMMA CallerLeaves ==
  ASSUME IInv, NEW c \in Caller, pc[c] = "wait", pc'[c] = "wait",
         \/ \E o \in Ops : Call(c, o)
         \/ Lock(c) \/ Rearrange(c) \/ Return(c) \/ CancelContext(c)
  PROVE  Left(c)' = Left(c)
<1>1. CancelContext(c)
  BY DEF Call, Lock, Rearrange, Return, IInv, Typed
<1> QED BY <1>1 DEF CancelContext, Sequential!Cancel, Left, ProducerLeft, ConsumerLeft

LEMMA LockLeft ==
  ASSUME IInv, NEW c \in Caller, Lock(c) PROVE Left(c)' <= 4 * Len(data) + 4
<1>1. Typed /\ Len(data) \in Nat /\ DOMAIN data = 1..Len(data)
  BY DEF IInv, Typed
<1>2. /\ data' = data /\ op' = op /\ next'[c] = 1 /\ chan'[c] = <<>> /\ cons'[c] = "recv"
      /\ prod'[c] = IF op[c] = "Map" THEN "join" ELSE "range"
      /\ todo'[c] = IF op[c] = "Map" THEN DOMAIN data ELSE {}
  BY <1>1 DEF Lock, Typed
<1>3. Finite!Cardinality(1..Len(data)) = Len(data)
  <2>1. 1 \in Int /\ Len(data) \in Int /\ (1 > Len(data) <=> Len(data) = 0) /\ Len(data) - 1 + 1 = Len(data)
    BY <1>1
  <2>2. Finite!Cardinality(1..Len(data)) = IF 1 > Len(data) THEN 0 ELSE Len(data) - 1 + 1
    BY <2>1, Finite!FS_Interval
  <2> QED BY <2>1, <2>2
<1>4. CASE op[c] = "Map"
  BY <1>1, <1>2, <1>3, <1>4 DEF Left
<1>5. CASE op[c] # "Map"
  BY <1>1, <1>2, <1>5 DEF Left, ProducerLeft, ConsumerLeft
<1> QED BY <1>4, <1>5

\* CanGoOn(c): the guard of one of the goroutines of c, or of Return, holds.
CanGoOn(c) ==
    \/ prod[c] \in {"range", "next"} \/ (prod[c] = "send" /\ cons[c] = "recv")
    \/ todo[c] # {} \/ (prod[c] = "join" /\ todo[c] = {})
    \/ cons[c] \in {"got", "act", "end"}
    \/ cons[c] = "recv" /\ (chan[c] # <<>> \/ prod[c] = "end")

StepsCounted ==
    /\ [](\A c \in Caller : pc[c] = "wait" => Left(c) \in Nat /\ CanGoOn(c))
    /\ [][\A c \in Caller :
           /\ Lock(c) => Left(c)' <= 4 * Len(data) + 4
           /\ pc[c] = "wait" /\ Goroutines(c) => Left(c)' < Left(c)
           /\ pc[c] = "wait" /\ pc'[c] = "wait" => Left(c)' = Left(c) \/ Left(c)' < Left(c)]_vars

(* While an operation holds the mutex, one of its goroutines or the caller *)
(* can take a step, cancelled or not, and on n elements the goroutines     *)
(* take at most 4 n + 4: Left counts down with each of their steps, and    *)
(* neither a cancellation nor the operations of others put it up.  This is *)
(* CallsReturn but for the fairness of the scheduler and of the mutex.     *)
THEOREM StreamStepsCounted == Spec => StepsCounted
<1>1. IInv => \A c \in Caller : pc[c] = "wait" => Left(c) \in Nat /\ CanGoOn(c)
  BY LeftTyped DEF IInv, Typed, CanGoOn
<1>2. IInv /\ [Next]_vars => [\A c \in Caller :
           /\ Lock(c) => Left(c)' <= 4 * Len(data) + 4
           /\ pc[c] = "wait" /\ Goroutines(c) => Left(c)' < Left(c)
           /\ pc[c] = "wait" /\ pc'[c] = "wait" => Left(c)' = Left(c) \/ Left(c)' < Left(c)]_vars
  <2> SUFFICES ASSUME IInv, Next, NEW c \in Caller
               PROVE  /\ Lock(c) => Left(c)' <= 4 * Len(data) + 4
                      /\ pc[c] = "wait" /\ Goroutines(c) => Left(c)' < Left(c)
                      /\ pc[c] = "wait" /\ pc'[c] = "wait" =>
                             Left(c)' = Left(c) \/ Left(c)' < Left(c)
    OBVIOUS
  <2>1. PICK d \in Caller :
           \/ \E o \in Ops : Call(d, o)
           \/ Lock(d) \/ Rearrange(d) \/ Return(d) \/ CancelContext(d) \/ Goroutines(d)
    BY DEF Next, Goroutines
  <2>2. pc[c] = "wait" /\ pc'[c] = "wait" => Left(c)' = Left(c) \/ Left(c)' < Left(c)
    BY <2>1, OthersLeave, CallerLeaves, Descends
  <2> QED BY <2>2, LockLeft, Descends
<1> QED BY <1>1, <1>2, SpecIInv, PTL DEF Spec, StepsCounted
=============================================================================
