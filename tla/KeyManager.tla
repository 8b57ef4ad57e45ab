----------------------------- MODULE KeyManager -----------------------------
(***************************************************************************)
(* Package key: KeyManager, a struct of one slice of labels, and the       *)
(* functions that derive keys and new managers from it.                    *)
(*                                                                         *)
(* A KeyManager is passed by value, and the value is a slice header: the   *)
(* labels live in a backing array that several managers can share.  The    *)
(* module therefore models memory.  heap is the set of backing arrays, a   *)
(* slice is an array, a length and (the size of the array) a capacity, and *)
(* append either writes behind the length of its first argument, when the  *)
(* capacity allows it, or copies into a new and larger array.              *)
(*                                                                         *)
(* The callers are goroutines that share the managers made so far.  An     *)
(* append in place writes one element per step, so the writes of two       *)
(* goroutines interleave; a read of a whole slice is one step.             *)
(***************************************************************************)
EXTENDS Integers, Sequences, FiniteSets

CONSTANTS
    Label,          \* the strings used as labels
    Empty,          \* the empty string, the zero value of an array element
    Delimiter,      \* the delimiters passed to Key
    Parts,          \* the argument lists callers pass as parts ...string
    Thread,         \* the goroutines that use the managers
    MaxManagers     \* bound on the number of KeyManager values made

ASSUME /\ Empty \notin Label
       /\ Parts \subseteq Seq(Label)
       /\ MaxManagers \in Nat \ {0}

VARIABLES
    heap,           \* heap[a]: backing array a, a sequence of cap(a) strings
    mgr,            \* mgr[k]: the field Prefixes of the k-th KeyManager made
    born,           \* history: the labels of manager k when it was returned
    tight,          \* history: the managers made by NewManager(...) and With(k, ...)
    pc,             \* pc[t]: where goroutine t is in its call
    call            \* call[t]: the arguments, locals and result of that call,
                    \* and (history) whether another goroutine wrote into it

vars == <<heap, mgr, born, tight, pc, call>>

String == Label \cup {Empty}

-----------------------------------------------------------------------------
(* Slices *)

\* The nil slice.
Nil == [arr |-> 0, len |-> 0]

\* cap(s)
Cap(s) == IF s.arr = 0 THEN 0 ELSE Len(heap[s.arr])

\* The elements of slice s: s[0], ..., s[len(s)-1].
Elems(s) == [i \in 1..s.len |-> heap[s.arr][i]]

\* xs in an array of c elements, the rest zero.
Pad(xs, c) == xs \o [i \in 1..(c - Len(xs)) |-> Empty]

\* The capacity append chooses for a new array when `needed` elements do
\* not fit in `cap`: what is needed if that is more than twice the old
\* capacity, else twice the old capacity.  (The rule of the Go runtime for
\* arrays of fewer than 256 elements; sizes of strings need no rounding.)
Grow(cap, needed) == IF needed > 2 * cap THEN needed ELSE 2 * cap

\* A slice local to a call: a slice of a shared array (arr # 0), or of an
\* array no one else has seen yet, own.
NoTmp == [arr |-> 0, len |-> 0, own |-> <<>>]

TmpElems(tmp) ==
    IF tmp.arr = 0 THEN SubSeq(tmp.own, 1, tmp.len) ELSE Elems(tmp)

-----------------------------------------------------------------------------
(* KeyManager *)

NoCall ==
    [op |-> "none", k |-> 0, parts |-> <<>>, delim |-> Empty, seen |-> <<>>,
     tmp |-> NoTmp, j |-> 0, key |-> <<>>, raced |-> FALSE]

\* The managers being made by calls that have not returned yet.
Pending ==
    Cardinality({t \in Thread : call[t].op \in {"With", "FuncWith"}})

\* The calls that return a new KeyManager are bounded.
MayMake == Len(mgr) + Pending < MaxManagers

\* Spread returns the slice itself.
Spread(k) == mgr[k]

\* SpreadInterface copies the labels of k into a new slice.
SpreadInterface(k) == Elems(Spread(k))

\* The caller receives a KeyManager whose Prefixes is s: it joins the
\* managers that goroutines may use, with the labels it holds now.
Return(s, elems) ==
    /\ mgr' = Append(mgr, s)
    /\ born' = Append(born, elems)

\* The caller receives a KeyManager whose Prefixes is a slice of len
\* elements of a new array.
ReturnNew(array, len) ==
    /\ heap' = Append(heap, array)
    /\ Return([arr |-> Len(heap) + 1, len |-> len], SubSeq(array, 1, len))

\* NewManager(p1, ..., pn): Prefixes is the slice the compiler builds for
\* the arguments, an array of exactly n elements (nil if there are none).
NewManager(t, p) ==
    /\ pc[t] = "idle"
    /\ MayMake
    /\ \/ /\ p = <<>>
          /\ Return(Nil, <<>>)
          /\ UNCHANGED heap
       \/ /\ p # <<>>
          /\ ReturnNew(p, Len(p))
    /\ tight' = tight \cup {Len(mgr) + 1}
    /\ UNCHANGED <<pc, call>>

\* NewManager(k.Spread()...): Prefixes is the slice passed, not a copy.
NewManagerSpread(t, k) ==
    /\ pc[t] = "idle"
    /\ MayMake
    /\ Return(Spread(k), SpreadInterface(k))
    /\ UNCHANGED <<heap, tight, pc, call>>

\* append(k.Prefixes, parts...) when the capacity suffices: the result is
\* a longer slice of the same array, and the parts are still to be written.
AppendInPlace(t, op, k, p, d) ==
    /\ Spread(k).len + Len(p) <= Cap(Spread(k))
    /\ call' = [call EXCEPT ![t] =
                  [op |-> op, k |-> k, parts |-> p, delim |-> d,
                   seen |-> SpreadInterface(k),
                   tmp |-> [arr |-> Spread(k).arr,
                            len |-> Spread(k).len + Len(p), own |-> <<>>],
                   j |-> 1, key |-> <<>>, raced |-> FALSE]]
    /\ pc' = [pc EXCEPT ![t] = IF p = <<>> THEN "built" ELSE "copy"]

\* append(k.Prefixes, parts...) when it does not: a new array, with the
\* labels of k and the parts copied into it.
AppendGrow(t, op, k, p, d) ==
    /\ Spread(k).len + Len(p) > Cap(Spread(k))
    /\ call' = [call EXCEPT ![t] =
                  [op |-> op, k |-> k, parts |-> p, delim |-> d,
                   seen |-> SpreadInterface(k),
                   tmp |-> [arr |-> 0, len |-> Spread(k).len + Len(p),
                            own |-> Pad(SpreadInterface(k) \o p,
                                        Grow(Cap(Spread(k)),
                                             Spread(k).len + Len(p)))],
                   j |-> 1, key |-> <<>>, raced |-> FALSE]]
    /\ pc' = [pc EXCEPT ![t] = "built"]

\* A call whose first statement of effect is append(k.Prefixes, parts...).
Begin(t, op, k, p, d) ==
    /\ pc[t] = "idle"
    /\ AppendInPlace(t, op, k, p, d) \/ AppendGrow(t, op, k, p, d)
    /\ UNCHANGED <<heap, mgr, born, tight>>

\* History: the calls of other goroutines whose slice holds element i of
\* array arr, which t is about to write.
Racing(t, arr, i) ==
    {u \in Thread \ {t} :
        pc[u] # "idle" /\ call[u].tmp.arr = arr /\ i <= call[u].tmp.len}

\* The calls after t has written element i of array arr: its own is one
\* part further, those it raced with are marked.
Written(t, arr, i) ==
    [u \in Thread |->
        IF u = t THEN [call[t] EXCEPT !.j = @ + 1]
        ELSE IF u \in Racing(t, arr, i) THEN [call[u] EXCEPT !.raced = TRUE]
        ELSE call[u]]

\* Faulty variant of CopyElem: the parts are written from the last label
\* of the receiver on, not behind it.
CopyElemOffByOne(t) ==
    /\ pc[t] = "copy"
    /\ LET c == call[t]
           base == c.tmp.len - Len(c.parts) - 1
       IN  /\ heap' = [heap EXCEPT ![c.tmp.arr][base + c.j] = c.parts[c.j]]
           /\ call' = Written(t, c.tmp.arr, base + c.j)
           /\ pc' = [pc EXCEPT ![t] =
                       IF c.j = Len(c.parts) THEN "built" ELSE "copy"]
    /\ UNCHANGED <<mgr, born, tight>>

\* append in place writes the next of the parts behind the labels of the
\* receiver.
CopyElem(t) ==
    /\ pc[t] = "copy"
    /\ LET c == call[t]
           base == c.tmp.len - Len(c.parts)
       IN  /\ heap' = [heap EXCEPT ![c.tmp.arr][base + c.j] = c.parts[c.j]]
           /\ call' = Written(t, c.tmp.arr, base + c.j)
           /\ pc' = [pc EXCEPT ![t] =
                       IF c.j = Len(c.parts) THEN "built" ELSE "copy"]
    /\ UNCHANGED <<mgr, born, tight>>

\* The call of t is over.
Finish(t) ==
    /\ pc' = [pc EXCEPT ![t] = "idle"]
    /\ call' = [call EXCEPT ![t] = NoCall]

\* k.With(parts...), up to the append.
With(t, k, p) == MayMake /\ Begin(t, "With", k, p, Empty)

\* Faulty variant of WithReturn: a new array is not kept, the manager
\* returned has the length of the result and no array.
WithReturnDropsArray(t) ==
    /\ pc[t] = "built"
    /\ call[t].op = "With"
    /\ Return([arr |-> call[t].tmp.arr, len |-> call[t].tmp.len],
              TmpElems(call[t].tmp))
    /\ Finish(t)
    /\ UNCHANGED <<heap, tight>>

\* k.With(parts...) returns newKeyManager, whose Prefixes is the result of
\* the append.
WithReturn(t) ==
    /\ pc[t] = "built"
    /\ call[t].op = "With"
    /\ \/ /\ call[t].tmp.arr # 0
          /\ Return([arr |-> call[t].tmp.arr, len |-> call[t].tmp.len],
                    TmpElems(call[t].tmp))
          /\ UNCHANGED heap
       \/ /\ call[t].tmp.arr = 0
          /\ ReturnNew(call[t].tmp.own, call[t].tmp.len)
    /\ Finish(t)
    /\ UNCHANGED tight

\* With(k, parts...), up to `parts = append(k.Spread(), parts...)`.
FuncWith(t, k, p) == MayMake /\ Begin(t, "FuncWith", k, p, Empty)

\* Faulty variant of FuncWithReturn: the result of the first append is
\* returned as it is, as the method With does.
FuncWithReturnsAppend(t) ==
    /\ pc[t] = "built"
    /\ call[t].op = "FuncWith"
    /\ \/ /\ call[t].tmp.arr # 0
          /\ Return([arr |-> call[t].tmp.arr, len |-> call[t].tmp.len],
                    TmpElems(call[t].tmp))
          /\ UNCHANGED heap
       \/ /\ call[t].tmp.arr = 0
          /\ ReturnNew(call[t].tmp.own, call[t].tmp.len)
    /\ tight' = tight \cup {Len(mgr) + 1}
    /\ Finish(t)

\* With(k, parts...) returns km.With(parts...) for the empty manager km:
\* append(nil, parts...) copies the result of the first append into an
\* array of exactly its length.
FuncWithReturn(t) ==
    /\ pc[t] = "built"
    /\ call[t].op = "FuncWith"
    /\ \/ /\ call[t].tmp.len = 0
          /\ Return(Nil, <<>>)
          /\ UNCHANGED heap
       \/ /\ call[t].tmp.len > 0
          /\ ReturnNew(Pad(TmpElems(call[t].tmp), Grow(0, call[t].tmp.len)),
                       call[t].tmp.len)
    /\ tight' = tight \cup {Len(mgr) + 1}
    /\ Finish(t)

\* k.Key(delimiter, parts...), up to `parts = append(k.Prefixes, parts...)`.
Key(t, k, p, d) == Begin(t, "Key", k, p, d)

\* strings.Join: the elements with the separator between them.
Join(elems, sep) ==
    [i \in 1..(2 * Len(elems) - 1) |->
        IF i % 2 = 1 THEN elems[(i + 1) \div 2] ELSE sep]

\* Faulty variant of KeyJoin: the labels of the receiver are joined, the
\* parts are left out.
KeyJoinPrefixes(t) ==
    /\ pc[t] = "built"
    /\ call[t].op = "Key"
    /\ call' = [call EXCEPT ![t].key =
                  Join(SpreadInterface(call[t].k), call[t].delim)]
    /\ pc' = [pc EXCEPT ![t] = "joined"]
    /\ UNCHANGED <<heap, mgr, born, tight>>

\* strings.Join(parts, delimiter) reads the result of the append.
KeyJoin(t) ==
    /\ pc[t] = "built"
    /\ call[t].op = "Key"
    /\ call' = [call EXCEPT ![t].key =
                  Join(TmpElems(call[t].tmp), call[t].delim)]
    /\ pc' = [pc EXCEPT ![t] = "joined"]
    /\ UNCHANGED <<heap, mgr, born, tight>>

\* k.Key returns the string.
KeyReturn(t) ==
    /\ pc[t] = "joined"
    /\ Finish(t)
    /\ UNCHANGED <<heap, mgr, born, tight>>

\* append(km.Prefixes, x) for a slice km of an array of its own.
AppendOwn(km, x) ==
    IF km.len < Len(km.own)
    THEN [km EXCEPT !.len = @ + 1, !.own[km.len + 1] = x]
    ELSE [km EXCEPT !.len = @ + 1,
                    !.own = Pad(SubSeq(km.own, 1, km.len) \o <<x>>,
                                Grow(Len(km.own), km.len + 1))]

\* Faulty variant of KeepOddLoop: the values at the even indices are kept.
RECURSIVE KeepEvenLoop(_, _, _)
KeepEvenLoop(spreader, i, km) ==
    IF i >= Len(spreader) THEN km
    ELSE KeepEvenLoop(spreader, i + 1,
                      IF i % 2 = 0 THEN AppendOwn(km, spreader[i + 1]) ELSE km)

\* The loop of KeepOdd from index i (counted from zero, as the code does)
\* on: `if i%2 == 1 { km.Prefixes = append(km.Prefixes, spreader[i]) }`.
RECURSIVE KeepOddLoop(_, _, _)
KeepOddLoop(spreader, i, km) ==
    IF i >= Len(spreader) THEN km
    ELSE KeepOddLoop(spreader, i + 1,
                     IF i % 2 = 1 THEN AppendOwn(km, spreader[i + 1]) ELSE km)

\* KeepOdd(k) returns a manager of what the loop has appended.
KeepOdd(t, k) ==
    /\ pc[t] = "idle"
    /\ MayMake
    /\ LET km == KeepOddLoop(SpreadInterface(k), 0, NoTmp)
       IN  \/ /\ km.own = <<>>
              /\ Return(Nil, <<>>)
              /\ UNCHANGED heap
           \/ /\ km.own # <<>>
              /\ ReturnNew(km.own, km.len)
    /\ UNCHANGED <<tight, pc, call>>

-----------------------------------------------------------------------------

Init ==
    /\ heap = <<>>
    /\ mgr = <<>>
    /\ born = <<>>
    /\ tight = {}
    /\ pc = [t \in Thread |-> "idle"]
    /\ call = [t \in Thread |-> NoCall]

Next ==
    \E t \in Thread :
        \/ \E p \in Parts : NewManager(t, p)
        \/ \E k \in DOMAIN mgr : NewManagerSpread(t, k)
        \/ \E k \in DOMAIN mgr, p \in Parts : With(t, k, p)
        \/ \E k \in DOMAIN mgr, p \in Parts : FuncWith(t, k, p)
        \/ \E k \in DOMAIN mgr, p \in Parts, d \in Delimiter : Key(t, k, p, d)
        \/ \E k \in DOMAIN mgr : KeepOdd(t, k)
        \/ CopyElem(t)
        \/ WithReturn(t)
        \/ FuncWithReturn(t)
        \/ KeyJoin(t)
        \/ KeyReturn(t)

Spec == Init /\ [][Next]_vars

-----------------------------------------------------------------------------
(* Properties *)

\* The type invariant, with the shape of the memory: every manager is a
\* slice of an existing array and no longer than it.
TypeOK ==
    /\ heap \in Seq(Seq(String))
    /\ mgr \in Seq([arr : 0..Len(heap), len : Nat])
    /\ Len(mgr) <= MaxManagers
    /\ \A k \in DOMAIN mgr : mgr[k].len <= Cap(mgr[k])
    /\ born \in Seq(Seq(String)) /\ Len(born) = Len(mgr)
    /\ tight \subseteq DOMAIN mgr
    /\ pc \in [Thread -> {"idle", "copy", "built", "joined"}]
    /\ \A t \in Thread :
          /\ call[t].op \in {"none", "With", "FuncWith", "Key"}
          /\ (call[t].op = "none") <=> (pc[t] = "idle")
          /\ call[t].k \in 0..Len(mgr)
          /\ call[t].parts \in Parts \cup {<<>>}
          /\ call[t].delim \in Delimiter \cup {Empty}
          /\ call[t].seen \in Seq(String)
          /\ call[t].tmp.arr \in 0..Len(heap)
          /\ call[t].tmp.own \in Seq(String)
          /\ call[t].tmp.len <= (IF call[t].tmp.arr = 0
                                 THEN Len(call[t].tmp.own)
                                 ELSE Cap(call[t].tmp))
          /\ call[t].j \in 0..(Len(call[t].parts) + 1)
          /\ call[t].key \in Seq(String \cup Delimiter)
          /\ call[t].raced \in BOOLEAN

\* The labels of the manager made last.
Newest == SpreadInterface(Len(mgr))

\* The values of spreader at the odd indices, counted from zero.
OddValues(spreader) == [i \in 1..(Len(spreader) \div 2) |-> spreader[2 * i]]

\* KeyManager is immutable: the labels of a manager are for ever those it
\* had when it was returned.  (Package comment: "KeyManager is immutable,
\* hence safe for concurrent access"; With: "KeyManager is immutable. With
\* Creates a new instance.")
Immutable ==
    \A k \in DOMAIN mgr : SpreadInterface(k) = born[k]

\* The managers made by NewManager from a list of arguments and by the
\* function With own an array that is full: no append on them or on any
\* other manager writes into it, and their labels never change, whatever
\* the goroutines that share them do.
TightManagersImmutable ==
    \A k \in tight : SpreadInterface(k) = born[k]

\* A step of a call on manager k changes neither the labels of k nor those
\* of a manager that is no longer than k: append writes behind the length
\* of its first argument only.  What a call can change are the managers
\* derived from k earlier, never k or what k was derived from.
ReceiverUntouched ==
    [][\A t \in Thread :
          (pc[t] # "idle" /\ <<pc[t], call[t].j>>' # <<pc[t], call[t].j>>)
             => \A m \in DOMAIN mgr :
                   mgr[m].len <= mgr[call[t].k].len
                      => SpreadInterface(m)' = SpreadInterface(m)]_vars

\* The step in which the call of t reads the result of its append gives
\* the labels the receiver had when the call began followed by the parts:
\* as the labels of the new manager, or joined by the delimiter.
GivesReceiverPlusParts(t) ==
    LET expected == call[t].seen \o call[t].parts
    IN  IF call[t].op = "Key"
        THEN call'[t].key = Join(expected, call[t].delim)
        ELSE Newest' = expected

\* With, the function With and Key return the labels of the receiver
\* followed by the parts.  (With: "With Creates a new instance"; Key: the
\* parts are appended to the prefixes and joined.)
ResultIsReceiverPlusParts ==
    [][\A t \in Thread :
          (pc[t] = "built" /\ pc'[t] # "built") => GivesReceiverPlusParts(t)]_vars

\* They do so whenever no other goroutine has written, while the call
\* ran, into the part of the array that the append of the call used:
\* appends of the same goroutine before and after it, on the receiver, on
\* its siblings or on what was derived from it, do not spoil the result,
\* and neither do appends of other goroutines elsewhere in the array.
UndisturbedResultIsReceiverPlusParts ==
    [][\A t \in Thread :
          (pc[t] = "built" /\ pc'[t] # "built" /\ ~call[t].raced)
             => GivesReceiverPlusParts(t)]_vars

\* KeepOdd returns a manager of the values of its argument, the labels at
\* the odd indices, in order.
KeepOddKeepsValues ==
    [][\A t \in Thread, k \in DOMAIN mgr :
          KeepOdd(t, k) => Newest' = OddValues(SpreadInterface(k))]_vars

=============================================================================
