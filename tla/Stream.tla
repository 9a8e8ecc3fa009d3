--------------------------------- MODULE Stream ---------------------------------
(***************************************************************************)
(* The operations of a Stream as goroutines and channels.  A mutex lets    *)
(* one operation run at a time.  Filter and ForEach start a producer that  *)
(* sends elements over an unbuffered channel and closes it, and a consumer *)
(* they wait for; Map starts one goroutine per element, which send over a  *)
(* buffered channel, and one that closes it, and consumes itself.  ForEach *)
(* stops when its context is cancelled, and its producer is then left      *)
(* behind in the middle of a send.                                         *)
(*                                                                         *)
(* Elements are counted by their positions.  A step of a goroutine ends    *)
(* with its next access to something shared.                               *)
(***************************************************************************)
EXTENDS Integers, Sequences

CONSTANTS
    Caller,     \* goroutines that use the stream
    Elem,       \* elements
    Keep,       \* what the predicate of Filter accepts
    Image,      \* the transformation of Map
    Rank,       \* what Sort compares and Distinct takes for equal
    Initial,    \* data the stream may be made of
    None        \* nobody holds the mutex

ASSUME ElementsTyped ==
    /\ Keep \subseteq Elem /\ Image \in [Elem -> Elem] /\ Rank \in [Elem -> Nat]
    /\ Initial \subseteq Seq(Elem)
    /\ None \notin Caller

VARIABLES
    data,       \* Stream.Data
    result,     \* Caller -> what its last operation gave or visited
    cancelled,  \* Caller -> whether the context of its ForEach is cancelled
    lock,       \* who holds Stream.mu
    op,         \* Caller -> the operation called last
    pc,         \* Caller -> where the operation is
    src,        \* Caller -> the slice its goroutines range over
    prod,       \* Caller -> where the producer is, or the goroutine that closes the channel
    next,       \* Caller -> position of the producer
    todo,       \* Caller -> positions whose goroutine has not sent yet (Map)
    chan,       \* Caller -> the buffered channel (Map)
    cons,       \* Caller -> where the consumer is
    out,        \* Caller -> positions consumed; 0: not yet (Map)
    seen        \* history: Caller -> how many elements were visited when the context was cancelled

local == <<op, pc, src, prod, next, todo, chan, cons, out, seen>>
vars == <<data, result, cancelled, lock, local>>

Sequential == INSTANCE Pipeline

Ops == {"Filter", "ForEach", "Map", "Distinct", "Sort"}
Looping == {"Filter", "ForEach"}

Result(c) == [k \in DOMAIN out[c] |->
    IF op[c] = "Map" THEN Image[src[c][out[c][k]]] ELSE src[c][out[c][k]]]

Goto(var, c, to) == [var EXCEPT ![c] = to]

-----------------------------------------------------------------------------
(* The caller *)

\* A producer that an earlier ForEach left behind is not looked at any longer.
Call(c, o) ==
    /\ pc[c] = "idle"
    /\ pc' = Goto(pc, c, "lock")
    /\ op' = Goto(op, c, o)
    /\ prod' = Goto(prod, c, "end")
    /\ src' = [src EXCEPT ![c] = <<>>]
    /\ next' = [next EXCEPT ![c] = 1]
    /\ Sequential!Begin(c)
    /\ UNCHANGED <<lock, todo, chan, cons, out, seen>>

\* fs.mu.Lock(), and the goroutines start.  Map reads the data itself.
Lock(c) ==
    LET map == op[c] = "Map"
    IN  /\ pc[c] = "lock" /\ op[c] \in Looping \cup {"Map"}
        /\ lock = None
        /\ lock' = c
        /\ pc' = Goto(pc, c, "wait")
        /\ src' = [src EXCEPT ![c] = IF map THEN data ELSE <<>>]
        /\ prod' = Goto(prod, c, IF map THEN "join" ELSE "range")
        /\ next' = [next EXCEPT ![c] = 1]
        /\ todo' = [todo EXCEPT ![c] = IF map THEN DOMAIN data ELSE {}]
        /\ chan' = [chan EXCEPT ![c] = <<>>]
        /\ cons' = Goto(cons, c, "recv")
        /\ out' = [out EXCEPT ![c] = IF map THEN [k \in DOMAIN data |-> 0] ELSE <<>>]
        /\ UNCHANGED <<data, result, cancelled, op, seen>>

\* Mutant: the operation does not wait for its consumer.
ReturnAtOnce(c) ==
    /\ pc[c] = "wait"
    /\ pc' = Goto(pc, c, "idle")
    /\ lock' = None
    /\ Sequential!Gives(c, Result(c))
    /\ UNCHANGED <<data, cancelled, op, src, prod, next, todo, chan, cons, out, seen>>

\* wg.Wait() has returned, or Map has found the channel closed.  What is left of
\* the operation is the producer, if it has not ended.
Return(c) ==
    /\ pc[c] = "wait"
    /\ cons[c] = "end"
    /\ pc' = Goto(pc, c, "idle")
    /\ lock' = None
    /\ data' = IF op[c] = "Filter" THEN Result(c) ELSE data
    /\ Sequential!Gives(c, Result(c))
    /\ out' = [out EXCEPT ![c] = <<>>]
    /\ seen' = [seen EXCEPT ![c] = 0]
    /\ src' = [src EXCEPT ![c] = IF prod[c] = "end" THEN <<>> ELSE @]
    /\ next' = [next EXCEPT ![c] = IF prod[c] = "end" THEN 1 ELSE @]
    /\ UNCHANGED <<cancelled, op, prod, todo, chan, cons>>

\* Distinct and Sort hold the mutex from their first access to the last.
Rearrange(c) ==
    /\ pc[c] = "lock"
    /\ lock = None
    /\ \/ op[c] = "Distinct" /\ Sequential!Distinct(c)
       \/ op[c] = "Sort" /\ Sequential!Sort(c)
    /\ pc' = Goto(pc, c, "idle")
    /\ UNCHANGED <<lock, op, src, prod, next, todo, chan, cons, out, seen>>

\* The context is cancelled, by the action or by anybody else.
CancelContext(c) ==
    /\ pc[c] # "idle" /\ op[c] = "ForEach"
    /\ ~cancelled[c]
    /\ Sequential!Cancel(c)
    /\ seen' = [seen EXCEPT ![c] = IF pc[c] = "wait" THEN Len(out[c]) ELSE 0]
    /\ UNCHANGED <<lock, op, pc, src, prod, next, todo, chan, cons, out>>

-----------------------------------------------------------------------------
(* The goroutines *)

\* The producer evaluates fs.Data, once.
Range(c) ==
    /\ prod[c] = "range"
    /\ src' = [src EXCEPT ![c] = data]
    /\ prod' = Goto(prod, c, "next")
    /\ UNCHANGED <<data, result, cancelled, lock, op, pc, next, todo, chan, cons, out, seen>>

\* Mutant: the loop runs once too often.
AdvanceTooFar(c) ==
    LET i == next[c]
    IN  /\ prod[c] = "next"
        /\ prod' = Goto(prod, c, IF i > Len(src[c]) + 1 THEN "end" ELSE "send")
        /\ UNCHANGED <<data, result, cancelled, lock, op, pc, src, next, todo, chan, cons, out, seen>>

\* Mutant: the producer closes its channel when the consumer has ended.
AdvanceOpen(c) ==
    LET i == next[c]
    IN  /\ prod[c] = "next"
        /\ prod' = Goto(prod, c, IF i <= Len(src[c]) THEN "send" ELSE IF cons[c] = "end" THEN "end" ELSE "next")
        /\ UNCHANGED <<data, result, cancelled, lock, op, pc, src, next, todo, chan, cons, out, seen>>

\* The producer looks at an element, which Filter may pass over, and sends it;
\* after the last one it closes the channel.
Advance(c) ==
    LET i == next[c]
    IN  /\ prod[c] = "next"
        /\ IF i > Len(src[c])
             THEN prod' = Goto(prod, c, "end") /\ UNCHANGED next
             ELSE IF op[c] = "Filter" /\ src[c][i] \notin Keep
               THEN next' = [next EXCEPT ![c] = i + 1] /\ UNCHANGED prod
               ELSE prod' = Goto(prod, c, "send") /\ UNCHANGED next
        /\ UNCHANGED <<data, result, cancelled, lock, op, pc, src, todo, chan, cons, out, seen>>

\* Both sides of the unbuffered channel; Filter appends at once.
Send(c) ==
    /\ prod[c] = "send" /\ cons[c] = "recv"
    /\ prod' = Goto(prod, c, "next")
    /\ next' = [next EXCEPT ![c] = @ + 1]
    /\ IF op[c] = "Filter"
         THEN out' = [out EXCEPT ![c] = Append(@, next[c])] /\ UNCHANGED cons
         ELSE cons' = Goto(cons, c, "got") /\ UNCHANGED out
    /\ UNCHANGED <<data, result, cancelled, lock, op, pc, src, todo, chan, seen>>

\* Mutant: nobody asks whether the context is cancelled.
SelectNot(c) ==
    /\ cons[c] = "got"
    /\ cons' = Goto(cons, c, "act")
    /\ UNCHANGED <<data, result, cancelled, lock, op, pc, src, prod, next, todo, chan, out, seen>>

\* select: the consumer of ForEach ends if the context is cancelled.
Select(c) ==
    /\ cons[c] = "got"
    /\ cons' = Goto(cons, c, IF cancelled[c] THEN "end" ELSE "act")
    /\ UNCHANGED <<data, result, cancelled, lock, op, pc, src, prod, next, todo, chan, out, seen>>

\* action(v) on the element received, the one before the producer's.
Act(c) ==
    /\ cons[c] = "act"
    /\ out' = [out EXCEPT ![c] = Append(@, next[c] - 1)]
    /\ cons' = Goto(cons, c, "recv")
    /\ UNCHANGED <<data, result, cancelled, lock, op, pc, src, prod, next, todo, chan, seen>>

\* A goroutine of Map transforms its element and sends it; the channel has room.
Work(c, i) ==
    /\ i \in todo[c]
    /\ todo' = [todo EXCEPT ![c] = @ \ {i}]
    /\ chan' = [chan EXCEPT ![c] = Append(@, i)]
    /\ UNCHANGED <<data, result, cancelled, lock, op, pc, src, prod, next, cons, out, seen>>

\* When all have, another goroutine closes the channel.
Join(c) ==
    /\ prod[c] = "join" /\ todo[c] = {}
    /\ prod' = Goto(prod, c, "end")
    /\ UNCHANGED <<data, result, cancelled, lock, op, pc, src, next, todo, chan, cons, out, seen>>

\* Mutant: Map places what it receives in the order of arrival.
ReceiveInTurn(c) ==
    /\ cons[c] = "recv" /\ chan[c] # <<>>
    /\ out' = [out EXCEPT ![c][CHOOSE k \in DOMAIN out[c] : out[c][k] = 0 /\ \A j \in 1..k-1 : out[c][j] # 0]
                            = Head(chan[c])]
    /\ chan' = [chan EXCEPT ![c] = Tail(@)]
    /\ UNCHANGED <<data, result, cancelled, lock, op, pc, src, prod, next, todo, cons, seen>>

\* Map places what it receives by its position.
Receive(c) ==
    /\ cons[c] = "recv" /\ chan[c] # <<>>
    /\ out' = [out EXCEPT ![c][Head(chan[c])] = Head(chan[c])]
    /\ chan' = [chan EXCEPT ![c] = Tail(@)]
    /\ UNCHANGED <<data, result, cancelled, lock, op, pc, src, prod, next, todo, cons, seen>>

\* Mutant: the consumer waits for the context and the channel together.
DrainedOrCancelled(c) ==
    /\ cons[c] = "recv"
    /\ cancelled[c] \/ (prod[c] = "end" /\ chan[c] = <<>>)
    /\ cons' = Goto(cons, c, "end")
    /\ UNCHANGED <<data, result, cancelled, lock, op, pc, src, prod, next, todo, chan, out, seen>>

\* The channel is closed and empty.
Drained(c) ==
    /\ cons[c] = "recv" /\ prod[c] = "end" /\ chan[c] = <<>>
    /\ cons' = Goto(cons, c, "end")
    /\ UNCHANGED <<data, result, cancelled, lock, op, pc, src, prod, next, todo, chan, out, seen>>

-----------------------------------------------------------------------------
Init ==
    /\ data \in Initial
    /\ result = [c \in Caller |-> <<>>]
    /\ cancelled = [c \in Caller |-> FALSE]
    /\ lock = None
    /\ op = [c \in Caller |-> "Filter"]
    /\ pc = [c \in Caller |-> "idle"]
    /\ src = [c \in Caller |-> <<>>]
    /\ prod = [c \in Caller |-> "end"]
    /\ next = [c \in Caller |-> 1]
    /\ todo = [c \in Caller |-> {}]
    /\ chan = [c \in Caller |-> <<>>]
    /\ cons = [c \in Caller |-> "end"]
    /\ out = [c \in Caller |-> <<>>]
    /\ seen = [c \in Caller |-> 0]

Produce(c) == Range(c) \/ Advance(c) \/ Join(c)
Consume(c) == Send(c) \/ Select(c) \/ Act(c) \/ Receive(c) \/ Drained(c)
Transform(c) == \E i \in todo[c] : Work(c, i)

Next == \E c \in Caller :
    \/ \E o \in Ops : Call(c, o)
    \/ Lock(c) \/ Rearrange(c) \/ Return(c) \/ CancelContext(c)
    \/ Produce(c) \/ Consume(c) \/ Transform(c)

Spec == Init /\ [][Next]_vars

\* Every goroutine runs on, the actions return, and sync.Mutex is handed to a
\* goroutine that waits for long.
FairSpec == Spec /\ \A c \in Caller :
    /\ SF_vars(Lock(c) \/ Rearrange(c))
    /\ WF_vars(Return(c)) /\ WF_vars(Produce(c)) /\ WF_vars(Consume(c)) /\ WF_vars(Transform(c))

-----------------------------------------------------------------------------
(* Properties *)

Typed ==
    /\ data \in Seq(Elem) /\ result \in [Caller -> Seq(Elem)]
    /\ cancelled \in [Caller -> BOOLEAN]
    /\ lock \in Caller \cup {None}
    /\ op \in [Caller -> Ops]
    /\ pc \in [Caller -> {"idle", "lock", "wait"}]
    /\ src \in [Caller -> Seq(Elem)]
    /\ prod \in [Caller -> {"range", "next", "send", "join", "end"}]
    /\ cons \in [Caller -> {"recv", "got", "act", "end"}]
    /\ next \in [Caller -> Nat \ {0}] /\ seen \in [Caller -> Nat]
    /\ todo \in [Caller -> SUBSET Nat] /\ chan \in [Caller -> Seq(Nat)] /\ out \in [Caller -> Seq(Nat)]

\* Positions lie in the slice ranged over.
InSlice(c) ==
    /\ todo[c] \subseteq DOMAIN src[c]
    /\ chan[c] \in Seq(DOMAIN src[c])
    /\ out[c] \in Seq(DOMAIN src[c] \cup {0})

\* Every variable keeps its type, and positions lie in the data.
TypeOK == Typed /\ \A c \in Caller : InSlice(c)

\* The slice is read from the stream, and elements are handed to the action,
\* only while the operation holds the mutex, though the goroutines that do so do
\* not hold it: the producer that a cancelled ForEach leaves behind has read the
\* slice before and delivers nothing.
ReadsUnderLock == \A c \in Caller :
    prod[c] = "range" \/ cons[c] # "end" \/ todo[c] # {} => lock = c

\* The comment on ForEach: cancelling the context ends the traversal.  At most
\* the element whose action was about to run is still visited.
CancelStops == \A c \in Caller :
    cancelled[c] /\ pc[c] = "wait" => Len(out[c]) <= seen[c] + 1

\* An operation whose context was not cancelled leaves no goroutine behind and
\* nothing in a channel.
NothingLeftBehind == \A c \in Caller :
    pc[c] = "idle" /\ ~cancelled[c] => prod[c] = "end" /\ todo[c] = {} /\ chan[c] = <<>>

\* What the goroutines hand from one to the other is what a loop over the data
\* gives: the right elements, in order, each of Map at its place, and Filter
\* changes the data at once.
ImplementsPipeline == Sequential!Spec

\* Every operation ends: nobody waits for ever for the mutex, on a channel or in
\* a WaitGroup, cancelled or not.
CallsReturn == \A c \in Caller : pc[c] # "idle" ~> pc[c] = "idle"
=============================================================================
