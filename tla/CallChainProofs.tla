--------------------------- MODULE CallChainProofs ---------------------------
(***************************************************************************)
(* Theorems about CallChain, for any tasks, namespaces and depths and any  *)
(* number of calls.                                                        *)
(*                                                                         *)
(* ChainIsCallPath compares two things that each change in several places: *)
(* the context variables of a task, and the path of calls, which is        *)
(* recursive.  The proof goes through a third, ChainOf: what a call was    *)
(* sent with.  That context variables equal the ChainOf of the code that   *)
(* runs is an inductive invariant; that ChainOf equals Path is induction   *)
(* over the calls, by the least call at which they would differ.           *)
(***************************************************************************)
EXTENDS CallChain, TLAPS, WellFoundedInduction

\* The chain the code of a call was given; 0 is the code no atask called.
ChainOf(id) == IF id = 0 THEN <<>> ELSE calls[id].chain

\* The atask whose code coroutine i of a task is, and that of the innermost.
CodeAt(t, i) == IF i = 0 THEN 0 ELSE stack[t][i].call
Innermost(t) == CodeAt(t, Len(stack[t]))

Frames == [call : {0} \cup Ids, handler : BOOLEAN, curToken : Seq(Ids), entryToken : {0} \cup Ids]

\* What is recorded of a call fits together.
CallOK(id) ==
    /\ calls[id].by \in 0..id - 1
    /\ calls[id].chain \in Seq(1..id)
    /\ calls[id].chain = IF calls[id].raw THEN <<>> ELSE Append(ChainOf(calls[id].by), id)
    /\ calls[id].isRoot <=> calls[id].by = 0
    /\ calls[id].ns \in Namespaces
    /\ Len(calls[id].chain) <= Depth[calls[id].ns]
    /\ calls[id].frames \subseteq IF calls[id].spawned THEN {Code(calls[id].by), Machinery(0)}
                                 ELSE {Code(calls[id].by)}
CallsOK == (\E S : calls \in Seq(S)) /\ \A id \in Ids : CallOK(id)

\* A trace, once attached, is the chain of the code that raised.
HasTrace(e) == e # None => e.hops = ChainOf(e.origin)

TaskTypes(t) ==
    /\ stack[t] \in Seq(Frames)
    /\ cur[t] \in Seq(Ids)
    /\ entry[t] \in {0} \cup Ids
    /\ waiting[t] \in {0} \cup Ids
    /\ exc[t] \in {None} \cup Exceptions

\* Each handler's tokens are the context of the coroutine below it.
Tokens(t) == \A i \in 1..Len(stack[t]) :
    /\ stack[t][i].curToken = ChainOf(CodeAt(t, i - 1))
    /\ stack[t][i].entryToken = CodeAt(t, i - 1)
    /\ i > 1 => stack[t][i].handler
    /\ stack[t][i].handler => stack[t][i].call \in Ids

\* The context variables are those of the code that runs; only code raises and waits.
TaskOK(t) ==
    /\ TaskTypes(t)
    /\ Tokens(t)
    /\ cur[t] = ChainOf(Innermost(t))
    /\ entry[t] = Innermost(t)
    /\ waiting[t] # 0 => exc[t] = None
    /\ Idle(t) => waiting[t] = 0 /\ exc[t] = None
    /\ HasTrace(exc[t]) \/ (exc[t].hops = None /\ exc[t].origin = Innermost(t))

RepliesOK == \A r \in replies : /\ r.call \in Ids
                                /\ r.exc \in {None} \cup Exceptions
                                /\ HasTrace(r.exc)

Functional == /\ stack = [t \in Tasks |-> stack[t]]
              /\ cur = [t \in Tasks |-> cur[t]]
              /\ entry = [t \in Tasks |-> entry[t]]
              /\ waiting = [t \in Tasks |-> waiting[t]]
              /\ exc = [t \in Tasks |-> exc[t]]

IInv == Functional /\ CallsOK /\ RepliesOK /\ \A t \in Tasks : TaskOK(t)
-----------------------------------------------------------------------------
(* What every step has in common: calls are only added, and one task moves. *)

Grown == /\ Len(calls) \in Nat /\ Len(calls)' \in Nat /\ Len(calls) <= Len(calls)'
         /\ \A id \in {0} \cup Ids : ChainOf(id)' = ChainOf(id)

Undisturbed(t) == /\ stack'[t] = stack[t] /\ cur'[t] = cur[t] /\ entry'[t] = entry[t]
                  /\ waiting'[t] = waiting[t] /\ exc'[t] = exc[t]
Alone(t) == Functional' /\ \A u \in Tasks \ {t} : Undisturbed(u)

\* Appending to a sequence, and sequences of one element.
LEMMA Appended == ASSUME NEW S, NEW q \in Seq(S), NEW x \in S
                  PROVE  /\ Append(q, x) \in Seq(S) /\ Len(q) \in Nat
                         /\ Len(Append(q, x)) = Len(q) + 1
                         /\ \A i \in 1..Len(q) : Append(q, x)[i] = q[i]
                         /\ Append(q, x)[Len(q) + 1] = x
OBVIOUS
LEMMA Singleton == ASSUME NEW S, NEW x \in S
                   PROVE  <<x>> \in Seq(S) /\ Len(<<x>>) = 1 /\ <<x>>[1] = x
OBVIOUS

\* What a sequence is over may grow.
LEMMA SeqMonotone == ASSUME NEW S, NEW T, S \subseteq T PROVE Seq(S) \subseteq Seq(T)
OBVIOUS

\* So do the types, with the calls.
LEMMA TypesGrow == ASSUME Grown PROVE /\ Ids \subseteq Ids' /\ Seq(Ids) \subseteq Seq(Ids)'
                                      /\ Frames \subseteq Frames'
                                      /\ Exceptions \subseteq Exceptions'
                                      /\ Seq(Frames) \subseteq Seq(Frames)'
<1>1. Ids \subseteq Ids'
  BY DEF Grown, Ids
<1>2. Seq(Ids) \subseteq Seq(Ids)'
  BY <1>1, SeqMonotone
<1>3. Frames \subseteq Frames'
  BY <1>1, <1>2 DEF Frames
<1>4. Exceptions \subseteq Exceptions'
  BY <1>1, <1>2 DEF Exceptions
<1>5. Seq(Frames) \subseteq Seq(Frames)'
  BY <1>3, SeqMonotone
<1>6. QED BY <1>1, <1>2, <1>3, <1>4, <1>5

\* A step that makes no call.
LEMMA StaysWhenCallsDo == ASSUME IInv, calls' = calls PROVE Grown /\ CallsOK'
<1>1. Len(calls) \in Nat
  BY DEF IInv, CallsOK
<1>2. Grown
  BY <1>1 DEF Grown, ChainOf, Ids
<1>3. CallsOK'
  BY DEF IInv, CallsOK, CallOK, ChainOf, Ids
<1>4. QED BY <1>2, <1>3

\* Chains are made of calls, and so is the code on a stack.
LEMMA ChainsTyped == ASSUME IInv, NEW id \in {0} \cup Ids PROVE ChainOf(id) \in Seq(Ids)
<1>1. CASE id = 0
  BY <1>1 DEF ChainOf
<1>2. CASE id # 0
  <2>1. calls[id].chain \in Seq(1..id) /\ 1..id \subseteq Ids
    BY <1>2 DEF IInv, CallsOK, CallOK, Ids
  <2>2. QED BY <1>2, <2>1, SeqMonotone DEF ChainOf
<1>3. QED BY <1>1, <1>2

LEMMA CodeTyped == ASSUME NEW t, TaskTypes(t), NEW i \in 0..Len(stack[t])
                   PROVE  CodeAt(t, i) \in {0} \cup Ids
<1>1. CASE i = 0
  BY <1>1 DEF CodeAt
<1>2. CASE i # 0
  <2>1. stack[t][i] \in Frames
    BY <1>2 DEF TaskTypes
  <2>2. QED BY <1>2, <2>1 DEF CodeAt, Frames
<1>3. QED BY <1>1, <1>2

\* A trace stays right when calls are added.
LEMMA TraceStays == ASSUME Grown, NEW e \in {None} \cup Exceptions, HasTrace(e)
                    PROVE  HasTrace(e)' /\ e \in ({None} \cup Exceptions)'
<1>1. e \in ({None} \cup Exceptions)'
  BY TypesGrow
<1>2. CASE e = None
  BY <1>1, <1>2 DEF HasTrace
<1>3. CASE e # None
  <2>1. e.origin \in {0} \cup Ids
    BY <1>3 DEF Exceptions
  <2>2. ChainOf(e.origin)' = ChainOf(e.origin)
    BY <2>1 DEF Grown
  <2>3. QED BY <1>1, <2>2 DEF HasTrace
<1>4. QED BY <1>2, <1>3

\* What the context of a task needs, when only calls and its waiting or raising change.
SameContext(t) == stack'[t] = stack[t] /\ cur'[t] = cur[t] /\ entry'[t] = entry[t]

LEMMA ContextStays ==
  ASSUME Grown, NEW t \in Tasks, TaskOK(t), SameContext(t)
  PROVE  /\ stack'[t] \in Seq(Frames') /\ cur'[t] \in Seq(Ids') /\ entry'[t] \in {0} \cup Ids'
         /\ Tokens(t)' /\ Innermost(t)' = Innermost(t) /\ Innermost(t) \in {0} \cup Ids
         /\ cur'[t] = ChainOf(Innermost(t))' /\ entry'[t] = Innermost(t)'
         /\ Idle(t)' <=> Idle(t)
<1>1. stack'[t] \in Seq(Frames') /\ cur'[t] \in Seq(Ids') /\ entry'[t] \in {0} \cup Ids'
  BY TypesGrow DEF TaskOK, TaskTypes, SameContext
<1>2. \A i \in 0..Len(stack[t]) : CodeAt(t, i) \in {0} \cup Ids /\ CodeAt(t, i)' = CodeAt(t, i)
  BY CodeTyped DEF CodeAt, SameContext, TaskOK
<1>3. /\ Len(stack[t]) \in Nat /\ stack'[t] = stack[t]
      /\ \A i \in 1..Len(stack[t]) : i - 1 \in 0..Len(stack[t])
  BY DEF TaskOK, TaskTypes, SameContext
<1>4. Tokens(t)'
  BY <1>2, <1>3, TypesGrow DEF TaskOK, Tokens, Grown
<1>5. Innermost(t)' = Innermost(t) /\ Innermost(t) \in {0} \cup Ids
  BY <1>2, <1>3 DEF Innermost
<1>6. cur'[t] = ChainOf(Innermost(t))' /\ entry'[t] = Innermost(t)'
  BY <1>5 DEF TaskOK, SameContext, Grown
<1>7. QED BY <1>1, <1>3, <1>4, <1>5, <1>6 DEF Idle

\* A task that does not move.
LEMMA TaskStays == ASSUME Grown, NEW t \in Tasks, TaskOK(t), Undisturbed(t) PROVE TaskOK(t)'
<1>1. SameContext(t)
  BY DEF SameContext, Undisturbed
<1>2. TaskTypes(t)'
  BY <1>1, ContextStays, TypesGrow DEF TaskOK, TaskTypes, Undisturbed
<1>3. /\ waiting'[t] # 0 => exc'[t] = None
      /\ Idle(t)' => waiting'[t] = 0 /\ exc'[t] = None
  BY DEF TaskOK, Undisturbed, Idle
<1>4. HasTrace(exc[t])' \/ (exc[t].hops = None /\ exc[t].origin = Innermost(t))'
  BY <1>1, ContextStays, TraceStays DEF TaskOK, TaskTypes, Undisturbed, HasTrace
<1>5. QED BY <1>1, <1>2, <1>3, <1>4, ContextStays DEF TaskOK

\* Replies that were published before.
LEMMA RepliesStay == ASSUME Grown, RepliesOK, replies' = replies PROVE RepliesOK'
BY TraceStays, TypesGrow DEF RepliesOK

\* It is enough to look at the task that moves.
LEMMA OneTask == ASSUME IInv, Grown, CallsOK', RepliesOK', NEW t \in Tasks, Alone(t), TaskOK(t)'
                 PROVE  IInv'
<1>1. ASSUME NEW u \in Tasks PROVE TaskOK(u)'
  <2>1. CASE u = t
    BY <2>1
  <2>2. CASE u # t
    BY <2>2, TaskStays DEF Alone, IInv
  <2>3. QED BY <2>1, <2>2
<1>2. QED BY <1>1 DEF IInv, Alone
-----------------------------------------------------------------------------
(* The ways in which a task moves. *)

\* A task enters the handler of a call, in the context it has.
LEMMA Entered ==
  ASSUME IInv, Grown, NEW t \in Tasks, NEW id \in Ids', Enter(t, id, ChainOf(id)'),
         waiting[t] = 0, exc[t] = None, UNCHANGED <<waiting, exc>>, ChainOf(id)' \in Seq(Ids)'
  PROVE  Alone(t) /\ TaskOK(t)'
<1> DEFINE f == Frame(id, TRUE, t)
<1>0. PICK n : n = Len(stack[t])
  OBVIOUS
<1>1. /\ stack[t] \in Seq(Frames) /\ cur[t] \in Seq(Ids) /\ entry[t] \in {0} \cup Ids
      /\ cur[t] = ChainOf(Innermost(t)) /\ entry[t] = Innermost(t) /\ Tokens(t)
  BY DEF IInv, TaskOK, TaskTypes
<1>2. f \in Frames' /\ stack[t] \in Seq(Frames')
  BY <1>1, TypesGrow DEF Frame, Frames
<1>3. /\ stack'[t] = Append(stack[t], f) /\ cur'[t] = ChainOf(id)' /\ entry'[t] = id
      /\ Alone(t)
  BY DEF Enter, Alone, Functional, Undisturbed, IInv
<1>4. /\ stack'[t] \in Seq(Frames') /\ Len(stack'[t]) = n + 1 /\ n \in Nat
      /\ \A i \in 1..n : stack'[t][i] = stack[t][i]
      /\ stack'[t][n + 1] = f
  <2> HIDE DEF f
  <2>1. QED BY <1>0, <1>2, <1>3, Appended
<1> HIDE DEF f
<1>5. /\ \A i \in 0..n : CodeAt(t, i)' = CodeAt(t, i) /\ CodeAt(t, i) \in {0} \cup Ids
      /\ CodeAt(t, n + 1)' = f.call
  <2>1. n + 1 # 0 /\ \A i \in 0..n : i = 0 \/ i \in 1..n
    BY <1>4
  <2>2. CodeAt(t, n + 1)' = f.call /\ \A i \in 0..n : CodeAt(t, i)' = CodeAt(t, i)
    BY <1>4, <2>1 DEF CodeAt
  <2>3. QED BY <1>0, <2>2, CodeTyped DEF IInv, TaskOK
<1>6. f.call = id /\ f.handler = TRUE /\ f.curToken = cur[t] /\ f.entryToken = entry[t]
  BY DEF f, Frame
<1>7. Tokens(t)'
  <2>1. ASSUME NEW i \in 1..n
        PROVE  /\ stack'[t][i].curToken = ChainOf(CodeAt(t, i - 1))'
               /\ stack'[t][i].entryToken = CodeAt(t, i - 1)'
               /\ i > 1 => stack'[t][i].handler
               /\ stack'[t][i].handler => stack'[t][i].call \in Ids'
    <3>1. i - 1 \in 0..n /\ i \in 1..Len(stack[t])
      BY <1>0, <1>4
    <3>2. /\ ChainOf(CodeAt(t, i - 1))' = ChainOf(CodeAt(t, i - 1))
          /\ CodeAt(t, i - 1)' = CodeAt(t, i - 1)
      BY <1>5, <3>1 DEF Grown
    <3>3. /\ stack[t][i].curToken = ChainOf(CodeAt(t, i - 1))
          /\ stack[t][i].entryToken = CodeAt(t, i - 1)
          /\ i > 1 => stack[t][i].handler
          /\ stack[t][i].handler => stack[t][i].call \in Ids
      BY <1>1, <3>1 DEF Tokens
    <3>4. stack'[t][i] = stack[t][i] /\ Ids \subseteq Ids'
      BY <1>4, TypesGrow
    <3>5. QED BY <3>2, <3>3, <3>4
  <2>2. /\ f.curToken = ChainOf(CodeAt(t, n))' /\ f.entryToken = CodeAt(t, n)'
        /\ f.handler /\ f.call \in Ids'
    <3>1. n \in 0..n /\ Innermost(t) = CodeAt(t, n)
      BY <1>0, <1>4 DEF Innermost
    <3>2. CodeAt(t, n)' = CodeAt(t, n) /\ CodeAt(t, n) \in {0} \cup Ids
      BY <1>5, <3>1
    <3>3. ChainOf(CodeAt(t, n))' = ChainOf(CodeAt(t, n))
      BY <3>2 DEF Grown
    <3>4. QED BY <1>1, <1>6, <3>1, <3>2, <3>3
  <2>3. \A i \in 1..n + 1 : i \in 1..n \/ (i = n + 1 /\ i - 1 = n)
    BY <1>4
  <2>4. QED BY <1>4, <2>1, <2>2, <2>3 DEF Tokens
<1>8. Innermost(t)' = id
  <2>1. Innermost(t)' = CodeAt(t, n + 1)'
    BY <1>4 DEF Innermost
  <2>2. QED BY <1>5, <1>6, <2>1
<1>9. TaskTypes(t)'
  BY <1>3, <1>4, TypesGrow DEF TaskTypes, Frames
<1>10. ~Idle(t)'
  BY <1>4 DEF Idle
<1>11. QED BY <1>3, <1>7, <1>8, <1>9, <1>10 DEF TaskOK, HasTrace

\* A task goes back to what its first k coroutines were doing.
LEMMA WentBack ==
  ASSUME IInv, NEW t \in Tasks, NEW k \in 0..Len(stack[t]) - 1,
         stack' = [stack EXCEPT ![t] = SubSeq(stack[t], 1, k)],
         cur' = [cur EXCEPT ![t] = stack[t][k + 1].curToken],
         entry' = [entry EXCEPT ![t] = stack[t][k + 1].entryToken],
         Functional', waiting'[t] = 0, exc'[t] \in {None} \cup Exceptions,
         k = 0 => exc'[t] = None,
         HasTrace(exc'[t]) \/ (exc'[t].hops = None /\ exc'[t].origin = CodeAt(t, k)),
         \A u \in Tasks \ {t} : waiting'[u] = waiting[u] /\ exc'[u] = exc[u],
         calls' = calls
  PROVE  Alone(t) /\ TaskOK(t)'
<1>1. /\ stack[t] \in Seq(Frames) /\ Tokens(t) /\ k \in Nat /\ k + 1 \in 1..Len(stack[t])
      /\ Len(stack[t]) \in Nat
  BY DEF IInv, TaskOK, TaskTypes
<1>2. /\ stack'[t] = SubSeq(stack[t], 1, k) /\ cur'[t] = stack[t][k + 1].curToken
      /\ entry'[t] = stack[t][k + 1].entryToken /\ Alone(t)
  BY DEF Alone, Functional, Undisturbed, IInv
<1>3. /\ stack'[t] \in Seq(Frames) /\ Len(stack'[t]) = k
      /\ \A i \in 1..k : stack'[t][i] = stack[t][i]
  BY <1>1, <1>2
<1>4. /\ Frames' = Frames /\ Ids' = Ids /\ Exceptions' = Exceptions
      /\ \A id : ChainOf(id)' = ChainOf(id)
  BY DEF Frames, Ids, Exceptions, ChainOf
<1>5. \A i \in 0..k : CodeAt(t, i)' = CodeAt(t, i)
  BY <1>3 DEF CodeAt
<1>6. stack[t][k + 1] \in Frames
  BY <1>1
<1>7. /\ stack[t][k + 1].curToken = ChainOf(CodeAt(t, k))
      /\ stack[t][k + 1].entryToken = CodeAt(t, k)
  BY <1>1 DEF Tokens
<1>8. Innermost(t)' = CodeAt(t, k)
  BY <1>3, <1>5 DEF Innermost
<1>9. TaskTypes(t)'
  BY <1>2, <1>3, <1>4, <1>6 DEF TaskTypes, Frames
<1>10. Tokens(t)'
  <2>1. \A i \in 1..k : i \in 1..Len(stack[t]) /\ i - 1 \in 0..k
    BY <1>1
  <2>2. QED BY <1>1, <1>3, <1>4, <1>5, <2>1 DEF Tokens
<1>11. Idle(t)' => exc'[t] = None
  BY <1>3 DEF Idle
<1>12. HasTrace(exc[t])' \/ (exc[t].hops = None /\ exc[t].origin = Innermost(t))'
  BY <1>4, <1>8 DEF HasTrace
<1>13. QED BY <1>2, <1>4, <1>7, <1>8, <1>9, <1>10, <1>11, <1>12 DEF TaskOK

\* A task starts code of an atask, or of none, in a context that is the atask's.
LEMMA Started ==
  ASSUME IInv, NEW t \in Tasks, NEW id \in {0} \cup Ids, Idle(t), calls' = calls,
         stack' = [stack EXCEPT ![t] = <<Frame(id, FALSE, t)>>],
         cur' = [cur EXCEPT ![t] = ChainOf(id)], entry' = [entry EXCEPT ![t] = id],
         UNCHANGED <<waiting, exc>>
  PROVE  Alone(t) /\ TaskOK(t)'
<1> DEFINE f == Frame(id, FALSE, t)
<1>1. /\ stack[t] = <<>> /\ cur[t] = <<>> /\ entry[t] = 0 /\ waiting[t] = 0 /\ exc[t] = None
      /\ 0 \in {0} \cup Ids /\ <<>> \in Seq(Ids)
  BY DEF IInv, TaskOK, Idle, Innermost, CodeAt, ChainOf
<1>2. f \in Frames /\ f.call = id /\ f.curToken = <<>> /\ f.entryToken = 0 /\ f.handler = FALSE
  BY <1>1 DEF Frame, Frames
<1>3. /\ stack'[t] = <<f>> /\ cur'[t] = ChainOf(id) /\ entry'[t] = id /\ Alone(t)
      /\ waiting'[t] = 0 /\ exc'[t] = None
  BY <1>1 DEF Alone, Functional, Undisturbed, IInv
<1> HIDE DEF f
<1>4. Frames' = Frames /\ Ids' = Ids /\ Exceptions' = Exceptions /\ \A j : ChainOf(j)' = ChainOf(j)
  BY DEF Frames, Ids, Exceptions, ChainOf
<1>5. /\ Len(stack'[t]) = 1 /\ stack'[t][1] = f /\ stack'[t] \in Seq(Frames)
      /\ 1..1 = {1} /\ stack'[t] # <<>>
  <2> DEFINE q == <<f>>
  <2>1. q \in Seq(Frames) /\ Len(q) = 1 /\ q[1] = f
    BY <1>2, Singleton
  <2>2. stack'[t] = q
    BY <1>3
  <2> HIDE DEF q
  <2>3. 1..1 = {1} /\ q # <<>>
    BY <2>1
  <2>4. QED BY <2>1, <2>2, <2>3
<1>6. CodeAt(t, 0)' = 0 /\ Innermost(t)' = id
  <2>1. CodeAt(t, 1)' = stack'[t][1].call /\ CodeAt(t, 0)' = 0
    BY DEF CodeAt
  <2>2. QED BY <1>2, <1>5, <2>1 DEF Innermost
<1>7. ChainOf(id) \in Seq(Ids)
  BY ChainsTyped
<1>8. TaskTypes(t)'
  BY <1>3, <1>4, <1>5, <1>7 DEF TaskTypes
<1>9. Tokens(t)'
  <2>1. \A i \in 1..Len(stack'[t]) : i = 1 /\ i - 1 = 0 /\ ~(i > 1)
    <3>1. Len(stack'[t]) = 1
      BY <1>5
    <3>2. QED BY <3>1
  <2>2. CodeAt(t, 0)' = 0 /\ ChainOf(CodeAt(t, 0))' = <<>>
    BY <1>6 DEF ChainOf
  <2>3. ASSUME NEW i \in 1..Len(stack'[t])
        PROVE  /\ stack'[t][i].curToken = ChainOf(CodeAt(t, i - 1))'
               /\ stack'[t][i].entryToken = CodeAt(t, i - 1)'
               /\ i > 1 => stack'[t][i].handler
               /\ stack'[t][i].handler => stack'[t][i].call \in Ids'
    <3>1. i = 1 /\ i - 1 = 0 /\ ~(i > 1)
      BY <2>1
    <3>2. stack'[t][i] = f
      BY <1>5, <3>1
    <3>3. CodeAt(t, i - 1)' = 0 /\ ChainOf(CodeAt(t, i - 1))' = <<>>
      BY <2>2, <3>1
    <3>4. QED BY <1>2, <3>1, <3>2, <3>3
  <2>4. QED BY <2>3 DEF Tokens
<1>10. QED BY <1>3, <1>4, <1>5, <1>6, <1>8, <1>9 DEF TaskOK, HasTrace, Idle

\* A task begins or ceases to wait or to raise, in the code it is in.
LEMMA Marked ==
  ASSUME IInv, Grown, NEW t \in Tasks, UNCHANGED <<stack, cur, entry>>, Functional',
         \A u \in Tasks \ {t} : waiting'[u] = waiting[u] /\ exc'[u] = exc[u],
         waiting'[t] \in {0} \cup Ids', exc'[t] \in ({None} \cup Exceptions)',
         waiting'[t] # 0 => exc'[t] = None,
         Idle(t) => waiting'[t] = 0 /\ exc'[t] = None,
         HasTrace(exc[t])' \/ (exc'[t].hops = None /\ exc'[t].origin = Innermost(t))
  PROVE  Alone(t) /\ TaskOK(t)'
<1>1. TaskOK(t) /\ SameContext(t)
  BY DEF IInv, SameContext
<1>2. Alone(t)
  BY DEF Alone, Undisturbed
<1>3. TaskTypes(t)'
  BY <1>1, ContextStays DEF TaskTypes
<1>4. QED BY <1>1, <1>2, <1>3, ContextStays DEF TaskOK

\* A task ends, or is cancelled with all it runs.
LEMMA ClearPreserves == ASSUME IInv, NEW t \in Tasks, Clear(t) PROVE IInv'
<1>1. Grown /\ CallsOK' /\ RepliesOK'
  BY StaysWhenCallsDo, RepliesStay DEF Clear, IInv
<1>2. /\ stack'[t] = <<>> /\ cur'[t] = <<>> /\ entry'[t] = 0 /\ waiting'[t] = 0
      /\ exc'[t] = None /\ Alone(t)
  BY DEF Clear, Alone, Functional, Undisturbed, IInv
<1>3. Len(stack'[t]) = 0
  BY <1>2
<1>4. Innermost(t)' = 0
  BY <1>3 DEF Innermost, CodeAt
<1>5. TaskTypes(t)'
  BY <1>2 DEF TaskTypes
<1>6. Tokens(t)'
  BY <1>3 DEF Tokens
<1>7. TaskOK(t)'
  BY <1>2, <1>4, <1>5, <1>6 DEF TaskOK, HasTrace, ChainOf
<1>8. QED BY <1>1, <1>2, <1>7, OneTask

\* A running task has code on its stack.
LEMMA TopIsInnermost == ASSUME IInv, NEW t \in Tasks, ~Idle(t)
    PROVE /\ Len(stack[t]) \in Nat \ {0} /\ Top(t) \in Frames /\ Top(t).call = Innermost(t)
          /\ Innermost(t) \in {0} \cup Ids /\ stack[t] \in Seq(Frames)
          /\ Top(t).handler => Innermost(t) \in Ids
<1>1. stack[t] \in Seq(Frames) /\ stack[t] # <<>> /\ Tokens(t)
  BY DEF IInv, TaskOK, TaskTypes, Idle
<1>2. Len(stack[t]) \in Nat \ {0} /\ Len(stack[t]) \in 1..Len(stack[t])
  BY <1>1
<1>3. Top(t) \in Frames
  BY <1>1, <1>2 DEF Top
<1>4. Top(t).call = Innermost(t)
  BY <1>2 DEF Top, Innermost, CodeAt
<1>5. Top(t).handler => Innermost(t) \in Ids
  BY <1>1, <1>2, <1>4 DEF Tokens, Top
<1>6. QED BY <1>1, <1>2, <1>3, <1>4, <1>5 DEF Frames

\* A coroutine that no atask called starts.
LEMMA StartRootPreserves == ASSUME IInv, NEW t \in Tasks, StartRoot(t) PROVE IInv'
<1>1. Grown /\ CallsOK' /\ RepliesOK'
  BY StaysWhenCallsDo, RepliesStay DEF StartRoot, IInv
<1>2. cur[t] = ChainOf(0) /\ entry[t] = 0
  BY DEF StartRoot, IInv, TaskOK, Idle, Innermost, CodeAt
<1>3. cur' = [cur EXCEPT ![t] = ChainOf(0)] /\ entry' = [entry EXCEPT ![t] = 0]
  BY <1>2 DEF StartRoot, IInv, Functional
<1>4. Alone(t) /\ TaskOK(t)'
  BY <1>3, Started DEF StartRoot
<1>5. QED BY <1>1, <1>4, OneTask

\* A task is spawned, with the context of the one that spawns it.
LEMMA SpawnPreserves == ASSUME IInv, NEW t \in Tasks, NEW u \in Tasks, Spawn(t, u) PROVE IInv'
<1>1. Grown /\ CallsOK' /\ RepliesOK'
  BY StaysWhenCallsDo, RepliesStay DEF Spawn, IInv
<1>2. PICK id \in {0} \cup Ids : id = Innermost(t) /\ id = Top(t).call
  BY TopIsInnermost DEF Spawn, Runs, Idle
<1>3. cur[t] = ChainOf(id) /\ entry[t] = id
  BY <1>2 DEF IInv, TaskOK
<1>4. Alone(u) /\ TaskOK(u)'
  BY <1>2, <1>3, Started DEF Spawn
<1>5. QED BY <1>1, <1>4, OneTask

\* A message is received in an empty task.
LEMMA ReceivePreserves == ASSUME IInv, NEW t \in Tasks, NEW id \in Ids, Receive(t, id) PROVE IInv'
<1>1. Grown /\ CallsOK' /\ RepliesOK'
  BY StaysWhenCallsDo, RepliesStay DEF Receive, Enter, IInv
<1>2. calls' = calls
  BY DEF Receive
<1>3. Ids' = Ids /\ ChainOf(id)' = calls[id].chain /\ ChainOf(id)' = ChainOf(id)
  BY <1>2 DEF ChainOf, Ids
<1>4. ChainOf(id)' \in Seq(Ids)'
  BY <1>3, ChainsTyped
<1>5. waiting[t] = 0 /\ exc[t] = None
  BY DEF Receive, IInv, TaskOK
<1>6. Alone(t) /\ TaskOK(t)'
  BY <1>1, <1>3, <1>4, <1>5, Entered DEF Receive
<1>7. QED BY <1>1, <1>6, OneTask

\* A new exception has no trace, and is of the code that raised it.
LEMMA NewExceptions == ASSUME NEW id \in {0} \cup Ids
    PROVE NewException(id) \in Exceptions /\ NewException(id).hops = None
          /\ NewException(id).origin = id
BY DEF NewException, Exceptions

\* User code raises, or gives up waiting.
LEMMA RaisePreserves == ASSUME IInv, NEW t \in Tasks, Raise(t) \/ GiveUp(t) PROVE IInv'
<1>1. Grown /\ CallsOK' /\ RepliesOK' /\ calls' = calls
  BY StaysWhenCallsDo, RepliesStay DEF Raise, GiveUp, IInv
<1>2. ~Idle(t)
  BY DEF Raise, GiveUp, Runs, Idle, IInv, TaskOK
<1>3. PICK e \in Exceptions : e = NewException(Top(t).call)
  BY <1>2, TopIsInnermost, NewExceptions
<1>4. e.hops = None /\ e.origin = Innermost(t)
  BY <1>2, <1>3, TopIsInnermost, NewExceptions
<1>5. exc' = [exc EXCEPT ![t] = e] /\ waiting' = [waiting EXCEPT ![t] = 0]
  BY <1>3 DEF Raise, GiveUp, Runs, IInv, Functional
<1>6. exc'[t] = e /\ waiting'[t] = 0 /\ Functional' /\ UNCHANGED <<stack, cur, entry>>
      /\ \A u \in Tasks \ {t} : waiting'[u] = waiting[u] /\ exc'[u] = exc[u]
  BY <1>5 DEF Raise, GiveUp, IInv, Functional
<1>7. e \in ({None} \cup Exceptions)'
  BY <1>1 DEF Exceptions, Ids
<1>8. Alone(t) /\ TaskOK(t)'
  BY <1>1, <1>2, <1>4, <1>6, <1>7, Marked
<1>9. QED BY <1>1, <1>8, OneTask

\* User code handles an exception, or gets its reply.
LEMMA ResumePreserves == ASSUME IInv, NEW t \in Tasks, Handle(t) \/ Resume(t) PROVE IInv'
<1>1. Grown /\ CallsOK' /\ RepliesOK' /\ calls' = calls
  BY StaysWhenCallsDo, RepliesStay DEF Handle, Resume, IInv
<1>2. ~Idle(t)
  BY DEF Handle, Resume, Idle, IInv, TaskOK, RepliesOK, Ids
<1>3. PICK e : e \in {None} \cup Exceptions /\ HasTrace(e) /\ exc' = [exc EXCEPT ![t] = e]
  BY DEF Handle, Resume, IInv, RepliesOK, HasTrace
<1>4. waiting' = [waiting EXCEPT ![t] = 0]
  BY DEF Handle, Resume, IInv, Functional, TaskOK
<1>5. exc'[t] = e /\ waiting'[t] = 0 /\ Functional' /\ UNCHANGED <<stack, cur, entry>>
      /\ \A u \in Tasks \ {t} : waiting'[u] = waiting[u] /\ exc'[u] = exc[u]
  BY <1>3, <1>4 DEF Handle, Resume, IInv, Functional
<1>6. e \in ({None} \cup Exceptions)' /\ HasTrace(e)'
  BY <1>1, <1>3, TraceStays
<1>7. HasTrace(exc[t])'
  BY <1>5, <1>6 DEF HasTrace
<1>8. Alone(t) /\ TaskOK(t)'
  BY <1>1, <1>2, <1>5, <1>6, <1>7, Marked
<1>9. QED BY <1>1, <1>8, OneTask

\* What _call_coro lets out of a handler: nothing, or an exception with a trace.
LEMMA Attached == ASSUME IInv, NEW t \in Tasks, exc[t] # None
    PROVE /\ Attach(exc[t], cur[t]) \in {None} \cup Exceptions
          /\ HasTrace(Attach(exc[t], cur[t]))
<1>1. /\ exc[t] \in Exceptions /\ cur[t] \in Seq(Ids) /\ cur[t] = ChainOf(Innermost(t))
      /\ HasTrace(exc[t]) \/ (exc[t].hops = None /\ exc[t].origin = Innermost(t))
  BY DEF IInv, TaskOK, TaskTypes
<1>2. Seq(Ids) \subseteq Seq(Nat)
  BY SeqMonotone DEF Ids
<1>3. CASE exc[t].hops = None
  <2>1. exc[t].origin = Innermost(t)
    <3>1. SUFFICES ASSUME HasTrace(exc[t]) PROVE FALSE
      BY <1>1
    <3>2. ChainOf(exc[t].origin) \in Seq(Ids)
      BY <1>1, ChainsTyped DEF Exceptions
    <3>3. QED BY <1>2, <1>3, <3>1, <3>2, NamespacesAssumption DEF HasTrace
  <2>2. PICK e : e = [exc[t] EXCEPT !.hops = cur[t]]
    OBVIOUS
  <2>3. e \in Exceptions /\ e.hops = cur[t] /\ e.origin = Innermost(t)
    BY <1>1, <2>1, <2>2 DEF Exceptions
  <2>4. HasTrace(e)
    BY <1>1, <2>3 DEF HasTrace
  <2>5. QED BY <1>3, <2>2, <2>3, <2>4 DEF Attach
<1>4. CASE exc[t].hops # None
  BY <1>1, <1>4 DEF Attach
<1>5. QED BY <1>3, <1>4

\* A handler ends, with a result or an exception that has a trace.
LEMMA HandlerEndsPreserves ==
  ASSUME IInv, NEW t \in Tasks, ~Idle(t), waiting[t] = 0, Top(t).handler,
         NEW e \in {None} \cup Exceptions, HasTrace(e), HandlerEnds(t, e)
  PROVE  IInv'
<1>1. Grown /\ CallsOK' /\ calls' = calls
  BY StaysWhenCallsDo DEF HandlerEnds
<1>2. PICK k : k = Len(stack[t]) - 1
  OBVIOUS
<1>3. /\ k \in 0..Len(stack[t]) - 1 /\ k + 1 = Len(stack[t]) /\ Innermost(t) \in Ids
      /\ Top(t).call \in Ids
  BY <1>2, TopIsInnermost
<1>4. /\ stack' = [stack EXCEPT ![t] = SubSeq(stack[t], 1, k)]
      /\ cur' = [cur EXCEPT ![t] = stack[t][k + 1].curToken]
      /\ entry' = [entry EXCEPT ![t] = stack[t][k + 1].entryToken]
  BY <1>2, <1>3 DEF HandlerEnds, Leave, Below, Top
<1>5. k = 0 => Below(t) = <<>>
  <2>1. stack[t] \in Seq(Frames) /\ Below(t) = SubSeq(stack[t], 1, k)
    BY <1>2, TopIsInnermost DEF Below
  <2>2. SubSeq(stack[t], 1, 0) = <<>>
    BY <2>1
  <2>3. QED BY <2>1, <2>2
<1>6. PICK x \in {None, e} : exc' = [exc EXCEPT ![t] = x] /\ (k = 0 => x = None)
  BY <1>5 DEF HandlerEnds
<1>7. /\ Functional' /\ waiting' = waiting /\ waiting'[t] = 0 /\ exc'[t] = x
      /\ \A u \in Tasks \ {t} : waiting'[u] = waiting[u] /\ exc'[u] = exc[u]
  BY <1>4, <1>6 DEF HandlerEnds, IInv, Functional
<1>8. x \in {None} \cup Exceptions /\ HasTrace(x)
  BY <1>6 DEF HasTrace
<1>9. HasTrace(exc'[t])
  BY <1>7, <1>8
<1>10. Alone(t) /\ TaskOK(t)'
  BY <1>1, <1>3, <1>4, <1>6, <1>7, <1>8, <1>9, WentBack
<1>11. RepliesOK'
  <2>1. \A r \in replies' : \/ r \in replies
                            \/ r.call \in Ids /\ r.exc = e
    BY <1>3 DEF HandlerEnds
  <2>2. Ids' = Ids /\ e \in ({None} \cup Exceptions)' /\ HasTrace(e)'
    BY <1>1, TraceStays DEF Ids
  <2>3. \A r \in replies : /\ r.call \in Ids' /\ r.exc \in ({None} \cup Exceptions)'
                           /\ HasTrace(r.exc)'
    BY <1>1, <2>2, TraceStays DEF IInv, RepliesOK
  <2>4. ASSUME NEW r \in replies'
        PROVE  r.call \in Ids' /\ r.exc \in ({None} \cup Exceptions)' /\ HasTrace(r.exc)'
    BY <2>1, <2>2, <2>3
  <2>5. QED BY <2>4 DEF RepliesOK
<1>12. QED BY <1>1, <1>10, <1>11, OneTask

\* A handler returns, or raises.
LEMMA ReturnPreserves == ASSUME IInv, NEW t \in Tasks, Return(t) \/ CallCoroFails(t) PROVE IInv'
<1>1. ~Idle(t) /\ waiting[t] = 0 /\ Top(t).handler
  BY DEF Return, CallCoroFails, Runs, Idle, IInv, TaskOK
<1>2. CASE Return(t)
  <2>1. HasTrace(None)
    BY DEF HasTrace
  <2>2. QED BY <1>1, <1>2, <2>1, HandlerEndsPreserves DEF Return
<1>3. CASE CallCoroFails(t)
  BY <1>1, <1>3, Attached, HandlerEndsPreserves DEF CallCoroFails
<1>4. QED BY <1>2, <1>3

\* The timeout of a loopback call unwinds the handlers above the caller.
LEMMA TimeoutPreserves ==
  ASSUME IInv, NEW t \in Tasks, NEW k \in 1..Len(stack[t]) - 1, TimeoutInline(t, k)
  PROVE  IInv'
<1>1. Grown /\ CallsOK' /\ RepliesOK' /\ calls' = calls
  BY StaysWhenCallsDo, RepliesStay DEF TimeoutInline, IInv
<1>2. TaskTypes(t) /\ k # 0 /\ k \in 0..Len(stack[t]) /\ k \in 0..Len(stack[t]) - 1
  BY DEF IInv, TaskOK, TaskTypes
<1>3. CodeAt(t, k) \in {0} \cup Ids /\ CodeAt(t, k) = stack[t][k].call
  BY <1>2, CodeTyped DEF CodeAt
<1>4. PICK e \in Exceptions : e = NewException(stack[t][k].call)
  BY <1>3, NewExceptions
<1>5. e.hops = None /\ e.origin = CodeAt(t, k)
  BY <1>3, <1>4, NewExceptions
<1>6. /\ stack' = [stack EXCEPT ![t] = SubSeq(stack[t], 1, k)]
      /\ cur' = [cur EXCEPT ![t] = stack[t][k + 1].curToken]
      /\ entry' = [entry EXCEPT ![t] = stack[t][k + 1].entryToken]
      /\ waiting' = [waiting EXCEPT ![t] = 0]
      /\ exc' = [exc EXCEPT ![t] = e]
  BY <1>4 DEF TimeoutInline
<1>7. /\ Functional' /\ waiting'[t] = 0 /\ exc'[t] = e
      /\ \A u \in Tasks \ {t} : waiting'[u] = waiting[u] /\ exc'[u] = exc[u]
  BY <1>6 DEF IInv, Functional
<1>8. Alone(t) /\ TaskOK(t)'
  BY <1>1, <1>2, <1>5, <1>6, <1>7, WentBack
<1>9. QED BY <1>1, <1>8, OneTask
-----------------------------------------------------------------------------
(* A call, over a loopback or sent away. *)

\* Above the entry frame of a handler there is only its own code, and a coroutine that is
\* not a handler is the only one on its stack.
LEMMA OwnFrames == ASSUME IInv, NEW t \in Tasks, ~Idle(t)
    PROVE AwaitFrames(t) \subseteq IF Top(t).handler THEN {Code(Innermost(t))}
                                   ELSE {Code(Innermost(t)), Machinery(0)}
<1> DEFINE live == LiveStack(t)
           boundary == {b \in DOMAIN live : entry[t] # 0 /\ live[b] = CallCoro(entry[t])}
<1>1. PICK n : n = Len(stack[t])
  OBVIOUS
<1>2. /\ n \in Nat \ {0} /\ Top(t) = stack[t][n] /\ Top(t).call = Innermost(t)
      /\ entry[t] = Innermost(t) /\ (Top(t).handler => Innermost(t) \in Ids)
      /\ (n > 1 => Top(t).handler)
  <2>1. n \in 1..Len(stack[t]) /\ Tokens(t)
    BY <1>1, TopIsInnermost DEF IInv, TaskOK
  <2>2. QED BY <1>1, <2>1, TopIsInnermost DEF IInv, TaskOK, Tokens, Top
<1>3. DOMAIN live = Places(t) /\ \A a \in Places(t) : live[a] = Running(stack[t][a[1]])[a[2]]
  BY DEF LiveStack
<1>4. AwaitFrames(t) = {live[a] : a \in {a \in DOMAIN live : \A b \in boundary : Inner(a, b)}}
  BY DEF AwaitFrames
<1>5. \A a \in Places(t) : /\ a[1] \in 1..n /\ a[2] \in 1..3
                           /\ a[2] \in DOMAIN Running(stack[t][a[1]])
  BY <1>1 DEF Places
<1> HIDE DEF live
<1>6. CASE Top(t).handler
  <2>1. Running(Top(t)) = <<Machinery(Innermost(t)), CallCoro(Innermost(t)), Code(Innermost(t))>>
    BY <1>2, <1>6 DEF Running
  <2>2. PICK b : b = <<n, 2>>
    OBVIOUS
  <2>3. b \in Places(t) /\ b[1] = n /\ b[2] = 2
    BY <1>1, <1>2, <2>1, <2>2 DEF Places
  <2>4. live[b] = CallCoro(entry[t]) /\ entry[t] # 0
    BY <1>2, <1>3, <1>6, <2>1, <2>3 DEF Ids
  <2>5. b \in boundary
    BY <1>3, <2>3, <2>4
  <2>6. ASSUME NEW a \in Places(t), Inner(a, b) PROVE live[a] = Code(Innermost(t))
    <3>1. a[1] = n /\ a[2] = 3
      BY <1>2, <1>5, <2>3, <2>6 DEF Inner
    <3>2. QED BY <1>2, <1>3, <2>1, <3>1
  <2>7. AwaitFrames(t) \subseteq {Code(Innermost(t))}
    BY <1>3, <1>4, <2>5, <2>6
  <2>8. QED BY <1>6, <2>7
<1>7. CASE ~Top(t).handler
  <2>1. n = 1 /\ Running(Top(t)) = <<Machinery(0), Code(Innermost(t))>>
    BY <1>2, <1>7 DEF Running
  <2>2. ASSUME NEW a \in Places(t) PROVE live[a] \in {Code(Innermost(t)), Machinery(0)}
    <3>1. a[1] = n /\ a[2] \in 1..2
      BY <1>2, <1>5, <2>1
    <3>2. QED BY <1>2, <1>3, <2>1, <3>1
  <2>3. AwaitFrames(t) \subseteq {Code(Innermost(t)), Machinery(0)}
    BY <1>3, <1>4, <2>2
  <2>4. QED BY <1>7, <2>3
<1>8. QED BY <1>6, <1>7

\* A router sends a call.
LEMMA SendPreserves ==
  ASSUME IInv, NEW t \in Tasks, Runs(t), NEW ns \in Namespaces, NEW kind, NEW raw \in BOOLEAN,
         NEW chain, chain = IF raw THEN <<>> ELSE Append(cur[t], Len(calls) + 1),
         Len(chain) <= Depth[ns], Send(t, ns, kind, chain, raw)
  PROVE  IInv'
<1>1. PICK id : id = Len(calls) + 1
  OBVIOUS
<1>2. ~Idle(t) /\ waiting[t] = 0 /\ exc[t] = None
  BY DEF Runs, Idle
<1>3. /\ Innermost(t) \in {0} \cup Ids /\ Top(t).call = Innermost(t)
      /\ cur[t] = ChainOf(Innermost(t)) /\ entry[t] = Innermost(t) /\ cur[t] \in Seq(Ids)
  BY <1>2, TopIsInnermost DEF IInv, TaskOK, TaskTypes
<1>4. Len(calls) \in Nat /\ id \in Nat \ {0} /\ Ids = 1..id - 1 /\ {0} \cup Ids = 0..id - 1
  BY <1>1 DEF IInv, CallsOK, Ids
<1>5. PICK c : /\ calls' = Append(calls, c)
               /\ c.by = Innermost(t) /\ c.ns = ns /\ c.chain = chain /\ c.raw = raw
               /\ c.isRoot <=> entry[t] = 0
               /\ c.frames \subseteq IF c.spawned THEN {Code(c.by), Machinery(0)} ELSE {Code(c.by)}
  <2> DEFINE c == [by |-> Top(t).call, ns |-> ns, kind |-> kind, chain |-> chain,
                   raw |-> raw, isRoot |-> entry[t] = 0, spawned |-> ~raw /\ ~Top(t).handler,
                   frames |-> IF raw THEN {} ELSE AwaitFrames(t)]
  <2>1. calls' = Append(calls, c)
    BY <1>1 DEF Send
  <2>2. /\ c.by = Innermost(t) /\ c.ns = ns /\ c.chain = chain /\ c.raw = raw
        /\ c.isRoot <=> entry[t] = 0
    BY <1>3
  <2>3. /\ c.spawned <=> ~raw /\ ~Top(t).handler
        /\ c.frames = IF raw THEN {} ELSE AwaitFrames(t)
    OBVIOUS
  <2> HIDE DEF c
  <2>4. c.frames \subseteq IF c.spawned THEN {Code(c.by), Machinery(0)} ELSE {Code(c.by)}
    BY <1>2, <2>2, <2>3, OwnFrames
  <2>5. QED BY <2>1, <2>2, <2>4
<1>6. (\E S : calls' \in Seq(S)) /\ Len(calls') = id /\ calls'[id] = c
      /\ \A i \in 1..id - 1 : calls'[i] = calls[i]
  <2>1. PICK S : calls \in Seq(S)
    BY DEF IInv, CallsOK
  <2>2. calls \in Seq(S \cup {c})
    BY <2>1, SeqMonotone
  <2>3. QED BY <1>1, <1>5, <2>2, Appended
<1>7. Grown
  <2>1. \A i \in {0} \cup Ids : ChainOf(i)' = ChainOf(i)
    BY <1>4, <1>6 DEF ChainOf
  <2>2. QED BY <1>1, <1>4, <1>6, <2>1 DEF Grown
<1>8. Ids' = 1..id /\ ChainOf(id)' = chain
  BY <1>4, <1>5, <1>6 DEF Ids, ChainOf
<1>9. chain \in Seq(1..id)
  <2>1. cur[t] \in Seq(1..id) /\ id \in 1..id
    BY <1>3, <1>4, SeqMonotone
  <2>2. Append(cur[t], id) \in Seq(1..id) /\ <<>> \in Seq(1..id)
    BY <2>1, Appended
  <2>3. QED BY <1>1, <2>2
<1>10. CallsOK'
  <2>1. CallOK(id)'
    <3>1. calls'[id].chain = IF raw THEN <<>> ELSE Append(ChainOf(calls[id].by)', id)
      <4>1. PICK j \in {0} \cup Ids : j = Innermost(t)
        BY <1>3
      <4>2. calls'[id].by = j /\ calls'[id].chain = chain
        BY <1>5, <1>6, <4>1
      <4>3. ChainOf(j)' = cur[t]
        BY <1>3, <1>7, <4>1 DEF Grown
      <4>4. ChainOf(calls[id].by)' = cur[t]
        BY <4>2, <4>3
      <4>5. QED BY <1>1, <4>2, <4>4
    <3>2. QED BY <1>3, <1>4, <1>5, <1>6, <1>9, <3>1 DEF CallOK
  <2>2. ASSUME NEW i \in 1..id - 1 PROVE CallOK(i)'
    <3>1. CallOK(i) /\ calls'[i] = calls[i]
      BY <1>4, <1>6 DEF IInv, CallsOK
    <3>2. calls[i].by \in {0} \cup Ids
      BY <1>4, <3>1 DEF CallOK
    <3>3. ChainOf(calls[i].by)' = ChainOf(calls[i].by)
      BY <1>7, <3>1, <3>2 DEF Grown
    <3>4. QED BY <3>1, <3>3 DEF CallOK
  <2>3. QED BY <1>4, <1>6, <1>8, <2>1, <2>2 DEF CallsOK
<1>11. RepliesOK' /\ exc' = exc /\ replies' = replies
  BY <1>7, RepliesStay DEF Send, IInv
<1>12. Alone(t) /\ TaskOK(t)'
  <2>1. CASE ns \in Loopback
    BY <1>1, <1>2, <1>7, <1>8, <1>9, <1>11, <2>1, Entered DEF Send
  <2>2. CASE ns \notin Loopback
    <3>1. PICK w \in {0, id} : waiting' = [waiting EXCEPT ![t] = w]
      BY <1>1, <1>2, <2>2 DEF Send, IInv, Functional
    <3>2. /\ Functional' /\ UNCHANGED <<stack, cur, entry>> /\ waiting'[t] = w
          /\ \A u \in Tasks \ {t} : waiting'[u] = waiting[u] /\ exc'[u] = exc[u]
      BY <1>11, <2>2, <3>1 DEF Send, IInv, Functional
    <3>3. waiting'[t] \in {0} \cup Ids' /\ exc'[t] = None
      BY <1>2, <1>4, <1>8, <1>11, <3>2
    <3>4. HasTrace(exc[t])'
      BY <3>3 DEF HasTrace
    <3>5. QED BY <1>2, <1>7, <3>2, <3>3, <3>4, Marked
  <2>3. QED BY <2>1, <2>2
<1>13. QED BY <1>7, <1>10, <1>11, <1>12, OneTask

\* A reference or user code makes a call.
LEMMA CallPreserves ==
  ASSUME IInv, NEW t \in Tasks, NEW ns \in Namespaces, NEW kind,
         Call(t, ns, kind) \/ CallRaw(t, ns)
  PROVE  IInv'
<1>1. CASE Call(t, ns, kind)
  <2>1. PICK chain : chain = Append(cur[t], Len(calls) + 1)
    OBVIOUS
  <2>2. Len(cur[t]) < Depth[ns] /\ cur[t] \in Seq(Ids) /\ Depth[ns] \in Nat
    BY <1>1, NamespacesAssumption DEF Call, TooDeep, IInv, TaskOK, TaskTypes
  <2>3. Len(chain) <= Depth[ns]
    <3>1. Len(chain) = Len(cur[t]) + 1 /\ Len(cur[t]) \in Nat
      BY <2>1, <2>2
    <3>2. QED BY <2>2, <3>1
  <2>4. QED BY <1>1, <2>1, <2>3, SendPreserves DEF Call
<1>2. CASE CallRaw(t, ns)
  <2>1. Len(<<>>) <= Depth[ns]
    BY NamespacesAssumption
  <2>2. QED BY <1>2, <2>1, SendPreserves DEF CallRaw
<1>3. QED BY <1>1, <1>2
-----------------------------------------------------------------------------
\* The initial states satisfy the invariant.
LEMMA InitEstablishes == Init => IInv
<1>1. SUFFICES ASSUME Init PROVE IInv
  OBVIOUS
<1>2. Ids = {} /\ Len(calls) = 0 /\ calls \in Seq({})
  BY <1>1 DEF Init, Ids
<1>3. CallsOK /\ RepliesOK /\ Functional
  BY <1>1, <1>2 DEF Init, CallsOK, RepliesOK, Functional
<1>4. ASSUME NEW t \in Tasks PROVE TaskOK(t)
  <2>1. /\ stack[t] = <<>> /\ cur[t] = <<>> /\ entry[t] = 0 /\ waiting[t] = 0 /\ exc[t] = None
        /\ Len(stack[t]) = 0
    BY <1>1 DEF Init
  <2>2. Innermost(t) = 0
    BY <2>1 DEF Innermost, CodeAt
  <2>3. TaskTypes(t)
    BY <2>1 DEF TaskTypes
  <2>4. Tokens(t)
    BY <2>1 DEF Tokens
  <2>5. QED BY <2>1, <2>2, <2>3, <2>4 DEF TaskOK, HasTrace, ChainOf
<1>5. QED BY <1>3, <1>4 DEF IInv

\* A step that changes nothing.
LEMMA StutterPreserves == ASSUME IInv, UNCHANGED vars PROVE IInv'
<1>1. Grown /\ CallsOK' /\ RepliesOK' /\ Functional'
  BY StaysWhenCallsDo, RepliesStay DEF vars, IInv, Functional
<1>2. \A t \in Tasks : TaskOK(t)'
  BY <1>1, TaskStays DEF vars, IInv, Undisturbed
<1>3. QED BY <1>1, <1>2 DEF IInv

\* Every step preserves the invariant.
LEMMA StepPreserves == IInv /\ [Next]_vars => IInv'
<1>1. SUFFICES ASSUME IInv, [Next]_vars PROVE IInv'
  OBVIOUS
<1>2. CASE UNCHANGED vars
  BY <1>1, <1>2, StutterPreserves
<1>3. ASSUME NEW t \in Tasks, Finish(t) \/ Cancel(t) PROVE IInv'
  BY <1>1, <1>3, ClearPreserves DEF Finish, Cancel
<1>4. ASSUME NEW t \in Tasks, NEW id \in 1..Len(calls), Receive(t, id) PROVE IInv'
  BY <1>1, <1>4, ReceivePreserves DEF Ids
<1>5. CASE Next
  BY <1>1, <1>3, <1>4, <1>5, StartRootPreserves, SpawnPreserves, CallPreserves, RaisePreserves,
     ReturnPreserves, ResumePreserves, TimeoutPreserves DEF Next
<1>6. QED BY <1>1, <1>2, <1>5

\* The invariant holds in every reachable state.
LEMMA Invariance == Spec => []IInv
BY InitEstablishes, StepPreserves, PTL DEF Spec
-----------------------------------------------------------------------------
(* Path, the reference definition, is ChainOf. *)

\* Some number of a set of numbers is the least of them.
LEMMA Least == ASSUME NEW T, T \subseteq Nat, T # {} PROVE \E x \in T : \A y \in T : x <= y
<1> DEFINE R == OpToRel(<, Nat)
<1>1. IsWellFoundedOn(R, Nat)
  BY NatLessThanWellFounded
<1>2. \A x, y \in Nat : x < y => <<x, y>> \in R
  BY DEF OpToRel
<1> HIDE DEF R
<1>3. PICK x \in T : \A y \in T : ~(<<y, x>> \in R)
  BY <1>1, WFMin
<1>4. \A y \in T : ~(y < x)
  BY <1>2, <1>3
<1>5. \A y \in T : x <= y
  BY <1>4
<1>6. QED BY <1>5

\* ChainOf satisfies the equation of Path, so there is a function that does.
LEMMA PathUnfolds == ASSUME IInv
    PROVE  Path = [id \in 0..Len(calls) |->
                     IF id = 0 THEN <<>>
                     ELSE IF calls[id].raw THEN <<>> ELSE Append(Path[calls[id].by], id)]
<1> DEFINE Unfolded(p) == [id \in 0..Len(calls) |->
                             IF id = 0 THEN <<>>
                             ELSE IF calls[id].raw THEN <<>> ELSE Append(p[calls[id].by], id)]
           chains == [id \in 0..Len(calls) |-> ChainOf(id)]
<1>1. ASSUME NEW id \in 0..Len(calls)
      PROVE  ChainOf(id) = Unfolded(chains)[id]
  <2>1. CASE id = 0
    BY <2>1 DEF ChainOf
  <2>2. CASE id # 0
    <3>1. CallOK(id) /\ id \in Ids /\ id \in Nat /\ Len(calls) \in Nat
      BY <2>2 DEF IInv, CallsOK, Ids
    <3>2. calls[id].by \in 0..Len(calls)
      BY <3>1 DEF CallOK, Ids
    <3>3. chains[calls[id].by] = ChainOf(calls[id].by)
      BY <3>2
    <3>4. calls[id].chain = IF calls[id].raw THEN <<>> ELSE Append(ChainOf(calls[id].by), id)
      BY <3>1 DEF CallOK
    <3>5. ChainOf(id) = calls[id].chain
      BY <2>2 DEF ChainOf
    <3> HIDE DEF chains
    <3>6. QED BY <2>2, <3>3, <3>4, <3>5
  <2>3. QED BY <2>1, <2>2
<1>2. chains = Unfolded(chains)
  BY <1>1
<1>3. Path = CHOOSE p : p = Unfolded(p)
  BY DEF Path
<1> HIDE DEF Unfolded
<1>4. Path = Unfolded(Path)
  BY <1>2, <1>3
<1>5. QED BY <1>4 DEF Unfolded

\* And it is the only one: there is no first call at which the two differ.
LEMMA PathIsChain == ASSUME IInv, NEW id \in {0} \cup Ids PROVE Path[id] = ChainOf(id)
<1> DEFINE T == {n \in 0..Len(calls) : Path[n] # ChainOf(n)}
<1>1. SUFFICES ASSUME T # {} PROVE FALSE
  BY DEF Ids, IInv, CallsOK
<1>2. Len(calls) \in Nat /\ T \subseteq Nat
  BY DEF IInv, CallsOK
<1>3. PICK n \in T : \A m \in T : n <= m
  <2> HIDE DEF T
  <2>1. QED BY <1>1, <1>2, Least
<1>4. n \in 0..Len(calls) /\ Path[n] # ChainOf(n)
  BY <1>3
<1>5. CASE n = 0
  BY <1>4, <1>5, PathUnfolds DEF ChainOf
<1>6. CASE n # 0
  <2>1. CallOK(n) /\ n \in Nat
    BY <1>2, <1>4, <1>6 DEF IInv, CallsOK, Ids
  <2>2. calls[n].by \in 0..Len(calls) /\ calls[n].by < n
    BY <1>2, <1>4, <2>1 DEF CallOK
  <2>3. Path[calls[n].by] = ChainOf(calls[n].by)
    BY <1>2, <1>3, <2>1, <2>2
  <2>4. Path[n] = IF calls[n].raw THEN <<>> ELSE Append(Path[calls[n].by], n)
    BY <1>4, <1>6, PathUnfolds
  <2>5. ChainOf(n) = IF calls[n].raw THEN <<>> ELSE Append(ChainOf(calls[n].by), n)
    BY <1>6, <2>1 DEF CallOK, ChainOf
  <2>6. QED BY <1>4, <2>3, <2>4, <2>5
<1>7. QED BY <1>5, <1>6

\* The same for BelowRaw: a call is below a direct send_request when its chain is empty, or
\* the first call of its chain was made by an atask.
RootedBelow(id) == id # 0 /\ (ChainOf(id) = <<>> \/ calls[ChainOf(id)[1]].by # 0)

\* The first element of a sequence that was appended to.
LEMMA AppendedFirst == ASSUME NEW S, NEW q \in Seq(S), NEW x \in S
                       PROVE  /\ Append(q, x) # <<>> /\ Len(Append(q, x)) = Len(q) + 1
                              /\ q = <<>> => Append(q, x)[1] = x /\ Len(q) = 0
                              /\ q # <<>> => Append(q, x)[1] = q[1] /\ Len(q) \in Nat \ {0}
OBVIOUS

\* A call has a hop of its own, after those of its caller, unless it is direct.
LEMMA OwnHop == ASSUME IInv, NEW id \in Ids
    PROVE /\ calls[id].by \in 0..Len(calls)
          /\ calls[id].by # 0 => calls[id].by \in Ids
          /\ calls[id].raw => ChainOf(id) = <<>>
          /\ ~calls[id].raw => /\ ChainOf(id) = Append(ChainOf(calls[id].by), id)
                               /\ ChainOf(calls[id].by) \in Seq(Ids)
<1>1. CallOK(id) /\ id \in Nat \ {0} /\ id <= Len(calls) /\ Len(calls) \in Nat
  BY DEF IInv, CallsOK, Ids
<1>2. calls[id].by \in 0..Len(calls) /\ (calls[id].by # 0 => calls[id].by \in Ids)
  BY <1>1 DEF CallOK, Ids
<1>3. ChainOf(calls[id].by) \in Seq(Ids)
  BY <1>2, ChainsTyped
<1>4. ChainOf(id) = IF calls[id].raw THEN <<>> ELSE Append(ChainOf(calls[id].by), id)
  BY <1>1 DEF CallOK, ChainOf
<1>5. QED BY <1>2, <1>3, <1>4

\* RootedBelow satisfies the equation of BelowRaw, so there is a function that does.
LEMMA BelowRawUnfolds == ASSUME IInv
    PROVE  BelowRaw = [id \in 0..Len(calls) |->
                         id # 0 /\ (calls[id].raw \/ BelowRaw[calls[id].by])]
<1> DEFINE Unfolded(p) == [id \in 0..Len(calls) |-> id # 0 /\ (calls[id].raw \/ p[calls[id].by])]
           rooted == [id \in 0..Len(calls) |-> RootedBelow(id)]
<1>1. ASSUME NEW id \in 0..Len(calls)
      PROVE  RootedBelow(id) <=> id # 0 /\ (calls[id].raw \/ rooted[calls[id].by])
  <2>1. CASE id = 0
    BY <2>1 DEF RootedBelow
  <2>2. CASE id # 0
    <3> DEFINE by == calls[id].by
               chain == ChainOf(by)
    <3>1. id \in Ids
      BY <2>2 DEF Ids, IInv, CallsOK
    <3>2. rooted[by] = RootedBelow(by)
      BY <3>1, OwnHop
    <3>3. CASE calls[id].raw
      BY <2>2, <3>1, <3>3, OwnHop DEF RootedBelow
    <3>4. CASE ~calls[id].raw
      <4>1. ChainOf(id) = Append(chain, id) /\ chain \in Seq(Ids)
        BY <3>1, <3>4, OwnHop
      <4>2. CASE chain = <<>>
        <5>1. ChainOf(id) # <<>> /\ ChainOf(id)[1] = id
          BY <3>1, <4>1, <4>2, AppendedFirst
        <5>2. RootedBelow(id) <=> by # 0
          BY <2>2, <5>1 DEF RootedBelow
        <5>3. RootedBelow(by) <=> by # 0
          BY <4>2 DEF RootedBelow
        <5>4. QED BY <2>2, <3>2, <3>4, <5>2, <5>3
      <4>3. CASE chain # <<>>
        <5>1. ChainOf(id) # <<>> /\ ChainOf(id)[1] = chain[1] /\ by # 0
          BY <3>1, <4>1, <4>3, AppendedFirst DEF ChainOf
        <5>2. RootedBelow(id) <=> calls[chain[1]].by # 0
          BY <2>2, <5>1 DEF RootedBelow
        <5>3. RootedBelow(by) <=> calls[chain[1]].by # 0
          BY <4>3, <5>1 DEF RootedBelow
        <5>4. QED BY <2>2, <3>2, <3>4, <5>2, <5>3
      <4>4. QED BY <4>2, <4>3
    <3>5. QED BY <3>3, <3>4
  <2>3. QED BY <2>1, <2>2
<1>2. rooted = Unfolded(rooted)
  <2>1. \A id \in 0..Len(calls) :
          RootedBelow(id) = (id # 0 /\ (calls[id].raw \/ rooted[calls[id].by]))
    BY <1>1 DEF RootedBelow
  <2>2. QED BY <2>1
<1>3. BelowRaw = CHOOSE p : p = Unfolded(p)
  BY DEF BelowRaw
<1> HIDE DEF Unfolded
<1>4. BelowRaw = Unfolded(BelowRaw)
  BY <1>2, <1>3
<1>5. QED BY <1>4 DEF Unfolded
-----------------------------------------------------------------------------
(* Theorems. *)

\* Type correctness of the context variables, the calls and the exceptions.
THEOREM TypeCorrect == Spec => []TypeOK
<1>1. ASSUME IInv PROVE TypeOK
  <2>1. /\ \A t \in Tasks : TaskTypes(t) /\ (waiting[t] # 0 => exc[t] = None)
        /\ \A id \in Ids : CallOK(id)
        /\ RepliesOK
    BY <1>1 DEF IInv, TaskOK, CallsOK
  <2>2. /\ cur \in [Tasks -> Seq(Ids)] /\ entry \in [Tasks -> {0} \cup Ids]
        /\ waiting \in [Tasks -> {0} \cup Ids] /\ exc \in [Tasks -> {None} \cup Exceptions]
    BY <1>1, <2>1 DEF IInv, Functional, TaskTypes
  <2>3. \A id \in Ids : calls[id].by \in 0..id - 1 /\ calls[id].chain \in Seq(1..id)
    BY <2>1 DEF CallOK
  <2>4. QED BY <2>1, <2>2, <2>3 DEF TypeOK, RepliesOK
<1>2. QED BY Invariance, <1>1, PTL

\* trace.enter and leave, ENTRY_FRAME and push_hop: code sees the chain of exactly the calls
\* that led to it, through returns, failures, timeouts, spawned tasks and redeliveries.
THEOREM ChainsAreCallPaths == Spec => []ChainIsCallPath
<1>1. ASSUME IInv PROVE ChainIsCallPath
  BY <1>1, TopIsInnermost, PathIsChain DEF ChainIsCallPath, IInv, TaskOK
<1>2. QED BY Invariance, <1>1, PTL

\* max_trace_depth bounds the hops of every message a router sends.
THEOREM DepthIsBounded == Spec => []DepthBounded
<1>1. IInv => DepthBounded
  BY DEF IInv, CallsOK, CallOK, DepthBounded
<1>2. QED BY Invariance, <1>1, PTL

\* attach: the trace an exception carries leads to the code that raised it.
THEOREM TracesAreLocated == Spec => []TraceIsWhereItRaised
<1>1. ASSUME IInv PROVE TraceIsWhereItRaised
  <2>1. ASSUME NEW e \in {None} \cup Exceptions, HasTrace(e) \/ e.hops = None PROVE Located(e)
    <3>1. CASE e # None
      <4>1. e.origin \in {0} \cup Ids
        BY <2>1, <3>1 DEF Exceptions
      <4>2. Path[e.origin] = ChainOf(e.origin)
        BY <1>1, <4>1, PathIsChain
      <4>3. QED BY <2>1, <3>1, <4>2 DEF HasTrace, Located
    <3>2. QED BY <3>1 DEF Located
  <2>2. \A t \in Tasks : Located(exc[t])
    BY <1>1, <2>1 DEF IInv, TaskOK, TaskTypes
  <2>3. \A r \in replies : Located(r.exc)
    BY <1>1, <2>1 DEF IInv, RepliesOK
  <2>4. QED BY <2>2, <2>3 DEF TraceIsWhereItRaised
<1>2. QED BY Invariance, <1>1, PTL

\* push_hop's is_root and seq, from two context variables: a trace has one root, at seq 0.
THEOREM OneRoot == Spec => []OneRootPerTrace
<1>1. ASSUME IInv PROVE OneRootPerTrace
  <2>1. SUFFICES ASSUME NEW id \in Ids, ~BelowRaw[id]
                 PROVE  calls[id].isRoot <=> Len(calls[id].chain) = 1
    BY DEF OneRootPerTrace
  <2> DEFINE by == calls[id].by
  <2>2. id \in 0..Len(calls) /\ id # 0 /\ ChainOf(id) = calls[id].chain
    BY <1>1 DEF Ids, IInv, CallsOK, ChainOf
  <2>3. ~calls[id].raw /\ ~BelowRaw[by]
    BY <1>1, <2>1, <2>2, BelowRawUnfolds
  <2>4. ChainOf(id) = Append(ChainOf(by), id) /\ ChainOf(by) \in Seq(Ids)
    BY <1>1, <2>3, OwnHop
  <2>5. Len(ChainOf(id)) = 1 <=> ChainOf(by) = <<>>
    BY <2>4, AppendedFirst
  <2>6. by # 0 => ChainOf(by) # <<>>
    <3>1. SUFFICES ASSUME by # 0 PROVE ChainOf(by) # <<>>
      OBVIOUS
    <3>2. by \in Ids /\ by \in 0..Len(calls)
      BY <1>1, <3>1, OwnHop
    <3>3. ~calls[by].raw
      BY <1>1, <2>3, <3>1, <3>2, BelowRawUnfolds
    <3>4. PICK q \in Seq(Ids) : ChainOf(by) = Append(q, by)
      BY <1>1, <3>2, <3>3, OwnHop
    <3>5. QED BY <3>2, <3>4, AppendedFirst
  <2>7. by = 0 => ChainOf(by) = <<>>
    BY DEF ChainOf
  <2>8. calls[id].isRoot <=> by = 0
    BY <1>1 DEF IInv, CallsOK, CallOK
  <2>9. QED BY <2>2, <2>5, <2>6, <2>7, <2>8
<1>2. QED BY Invariance, <1>1, PTL

\* _walk_frames_until: a hop's frames are those of the code that made the call, and of what
\* runs the task when it was spawned.
THEOREM FramesAreOwn == Spec => []FramesOfOneHop
<1>1. IInv => FramesOfOneHop
  BY DEF IInv, CallsOK, CallOK, FramesOfOneHop
<1>2. QED BY Invariance, <1>1, PTL
=============================================================================
