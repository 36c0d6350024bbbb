--------------------------- MODULE McpStdioProofs ---------------------------
(***************************************************************************)
(* What holds of the MCP server on stdio for any lines, any number of      *)
(* permits and whichever handlers hang.                                    *)
(***************************************************************************)
EXTENDS McpStdio, FiniteSetTheorems, TLAPS

-----------------------------------------------------------------------------
(* Counting the tasks that stand somewhere                                 *)

At(S) == {l \in Lines : pc[l] \in S}

\* There are finitely many lines, hence tasks.
LEMMA LinesFinite == IsFiniteSet(Lines) /\ \A S : IsFiniteSet(At(S)) /\ Cardinality(At(S)) \in Nat
<1>1. IsFiniteSet(Lines)
  BY StdioAssumption, FS_Interval DEF Lines
<1>2. ASSUME NEW S PROVE IsFiniteSet(At(S)) /\ Cardinality(At(S)) \in Nat
  BY <1>1, FS_Subset, FS_CardinalityType DEF At
<1>3. QED
  BY <1>1, <1>2

\* A task that moves within a part of its way, or outside of it.
LEMMA Stays ==
    ASSUME pc \in [Lines -> Pc], NEW l \in Lines, NEW p, NEW S,
           pc' = [pc EXCEPT ![l] = p], p \in S <=> pc[l] \in S
    PROVE  At(S)' = At(S)
BY DEF At

\* A line that enters S makes At(S) one larger.
LEMMA Enters ==
    ASSUME pc \in [Lines -> Pc], NEW l \in Lines, NEW p, NEW S,
           pc' = [pc EXCEPT ![l] = p], p \in S, pc[l] \notin S
    PROVE  Cardinality(At(S)') = Cardinality(At(S)) + 1
<1>1. At(S)' = At(S) \cup {l} /\ l \notin At(S)
  BY DEF At
<1>2. QED
  BY <1>1, LinesFinite, FS_AddElement

\* A line that leaves S makes At(S) one smaller.
LEMMA Leaves ==
    ASSUME pc \in [Lines -> Pc], NEW l \in Lines, NEW p, NEW S,
           pc' = [pc EXCEPT ![l] = p], p \notin S, pc[l] \in S
    PROVE  Cardinality(At(S)') = Cardinality(At(S)) - 1 /\ Cardinality(At(S)) > 0
<1>1. At(S)' = At(S) \ {l} /\ l \in At(S)
  BY DEF At
<1>2. Cardinality(At(S)') = Cardinality(At(S)) - 1
  BY <1>1, LinesFinite, FS_RemoveElement
<1>3. Cardinality(At(S)) # 0
  BY <1>1, LinesFinite, FS_EmptySet
<1>4. QED
  BY <1>2, <1>3, LinesFinite

-----------------------------------------------------------------------------
(* Types, and permits                                                      *)

\* The counts of TypeOK and InFlightBounded, in terms of At.
LEMMA Counted ==
    /\ Holders = At(InFlight)
    /\ {l \in Lines : pc[l] = "queued"} = At({"queued"})
    /\ {l \in Lines : pc[l] \in Writing} = At(Writing)
BY DEF Holders, At

\* A line that is not read has no task.
Unread == \A l \in Lines : l > read => pc[l] = "none"

Inv == TypeOK /\ InFlightBounded /\ Unread

\* At first nobody stands anywhere.
LEMMA InvInit == Init => Inv
<1> SUFFICES ASSUME Init PROVE Inv
  OBVIOUS
<1>1. pc = [l \in Lines |-> "none"]
  BY DEF Init
<1>2. At(InFlight) = {} /\ At({"queued"}) = {} /\ At(Writing) = {}
  BY <1>1 DEF At, InFlight, Writing
<1>3. Holders = {} /\ {l \in Lines : pc[l] = "queued"} = {}
      /\ {l \in Lines : pc[l] \in Writing} = {}
  BY <1>2, Counted
<1>4. Cardinality({}) = 0
  BY FS_EmptySet
<1>5. pc \in [Lines -> Pc]
  BY <1>1 DEF Pc
<1>6. sent = 0 /\ read = 0 /\ exit = "no" /\ permits = Permits
      /\ semQueue = <<>> /\ outQueue = <<>> /\ out = <<>> /\ Len(Kind) \in Nat
  BY StdioAssumption DEF Init
<1>7. InFlightBounded
  BY <1>3, <1>4, <1>6, StdioAssumption DEF InFlightBounded
<1>8. /\ Len(semQueue) = Cardinality({l \in Lines : pc[l] = "queued"})
      /\ Len(outQueue) = Cardinality({l \in Lines : pc[l] \in Writing})
  BY <1>3, <1>4, <1>6
<1>9. QED
  BY <1>1, <1>5, <1>6, <1>7, <1>8, StdioAssumption DEF Inv, TypeOK, Unread

\* A step that moves no task past a count.
LEMMA InvKept ==
    ASSUME Inv, Unread',
           pc' \in [Lines -> Pc], permits' = permits,
           \A S \in {InFlight, {"queued"}, Writing} : At(S)' = At(S),
           UNCHANGED <<semQueue, outQueue>>,
           sent' \in 0..Len(Kind), read' \in 0..sent', exit' \in {"no", "eof", "error"},
           out' \in Seq([line : Lines, part : {"start", "rest", "newline"}])
    PROVE  Inv'
<1>1. At(InFlight)' = At(InFlight) /\ At({"queued"})' = At({"queued"})
      /\ At(Writing)' = At(Writing)
  OBVIOUS
<1>2. Holders' = Holders
      /\ {l \in Lines : pc'[l] = "queued"} = {l \in Lines : pc[l] = "queued"}
      /\ {l \in Lines : pc'[l] \in Writing} = {l \in Lines : pc[l] \in Writing}
  BY <1>1 DEF Holders, At
<1>3. QED
  BY <1>2 DEF Inv, TypeOK, InFlightBounded

\* A task that gives back what it holds, or takes it, moves the counts.
LEMMA InvMoved ==
    ASSUME Inv, NEW l \in Lines, NEW p \in Pc \ {"none"},
           pc[l] # "none", pc' = [pc EXCEPT ![l] = p],
           UNCHANGED <<sent, read, exit>>,
           out' \in Seq([line : Lines, part : {"start", "rest", "newline"}]),
           permits' \in Nat, semQueue' \in Seq(Lines), outQueue' \in Seq(Lines),
           permits' + Cardinality(At(InFlight)') = Permits,
           Len(semQueue') = Cardinality(At({"queued"})'),
           Len(outQueue') = Cardinality(At(Writing)')
    PROVE  Inv'
<1>1. pc' \in [Lines -> Pc]
  BY DEF Inv, TypeOK
<1>2. Unread'
  BY DEF Inv, TypeOK, Unread, Lines
<1>3. Holders' = At(InFlight)'
      /\ {m \in Lines : pc'[m] = "queued"} = At({"queued"})'
      /\ {m \in Lines : pc'[m] \in Writing} = At(Writing)'
  BY DEF Holders, At
<1>4. Cardinality(At(InFlight)') \in Nat
  <2>1. IsFiniteSet(At(InFlight)')
    BY LinesFinite, FS_Subset DEF At
  <2>2. QED
    BY <2>1, FS_CardinalityType
<1>5. permits' \in 0..Permits
  BY <1>4, StdioAssumption
<1>6. InFlightBounded'
  BY <1>3 DEF InFlightBounded
<1>7. TypeOK'
  BY <1>1, <1>3, <1>5 DEF Inv, TypeOK
<1>8. QED
  BY <1>2, <1>6, <1>7 DEF Inv

\* The read loop and the client move no task past a count.
LEMMA InvLoop == Inv /\ (Send \/ ReadLine \/ StdinEnds) => Inv'
<1> SUFFICES ASSUME Inv, Send \/ ReadLine \/ StdinEnds PROVE Inv'
  OBVIOUS
<1>1. Len(Kind) \in Nat /\ pc \in [Lines -> Pc] /\ TypeOK /\ Unread
  BY StdioAssumption DEF Inv, TypeOK
<1>2. CASE Send
  BY <1>1, <1>2, InvKept DEF Send, TypeOK, At, Unread
<1>3. CASE ReadLine
  <2> DEFINE l == read + 1
             p == IF Kind[l] = "blank" THEN "skipped" ELSE "spawned"
  <2>1. l \in Lines /\ l \in 0..sent /\ pc' = [pc EXCEPT ![l] = p]
        /\ p \in {"skipped", "spawned"} /\ pc[l] = "none" /\ read' = l
    BY <1>1, <1>3 DEF ReadLine, TypeOK, Lines, Unread
  <2>2. pc' \in [Lines -> Pc]
    BY <1>1, <2>1 DEF Pc, Live
  <2>3. Unread'
    BY <1>1, <2>1 DEF Unread, Lines, TypeOK
  <2>4. \A S \in {InFlight, {"queued"}, Writing} : p \notin S /\ pc[l] \notin S
    BY <2>1 DEF InFlight, Writing
  <2>5. \A S \in {InFlight, {"queued"}, Writing} : At(S)' = At(S)
    BY <1>1, <2>1, <2>4, Stays
  <2>6. QED
    BY <1>1, <1>3, <2>1, <2>2, <2>3, <2>5, InvKept DEF ReadLine, TypeOK
<1>4. CASE StdinEnds
  BY <1>1, <1>4, InvKept DEF StdinEnds, TypeOK, At, Unread
<1>5. QED
  BY <1>2, <1>3, <1>4

\* The tasks move, and what they hold moves with them.
LEMMA InvTask ==
    ASSUME Inv, NEW l \in Lines, Task(l)
    PROVE  Inv'
<1>1. TypeOK /\ InFlightBounded /\ pc \in [Lines -> Pc] /\ pc[l] \in Live /\ pc[l] # "none"
      /\ permits \in Nat /\ Permits \in Nat
  BY StdioAssumption DEF Inv, TypeOK, Task, JoinQueue, Acquire, HandleUnanswered,
     HandleRequest, WritePart, WriteFails, Flush, Running, Live, InFlight, Writing
<1>2. permits + Cardinality(At(InFlight)) = Permits
      /\ Len(semQueue) = Cardinality(At({"queued"}))
      /\ Len(outQueue) = Cardinality(At(Writing))
      /\ \A S : Cardinality(At(S)) \in Nat
  BY <1>1, Counted, LinesFinite DEF TypeOK, InFlightBounded
<1>3. CASE JoinQueue(l)
  <2>1. pc[l] = "spawned" /\ pc' = [pc EXCEPT ![l] = "queued"]
    BY <1>3 DEF JoinQueue
  <2>2. Cardinality(At({"queued"})') = Cardinality(At({"queued"})) + 1
    BY <1>1, <2>1, Enters
  <2>3. At(InFlight)' = At(InFlight) /\ At(Writing)' = At(Writing)
    BY <1>1, <2>1, Stays DEF InFlight, Writing
  <2>4. UNCHANGED <<sent, read, exit>> /\ permits' \in Nat /\ semQueue' \in Seq(Lines)
        /\ outQueue' \in Seq(Lines)
        /\ out' \in Seq([line : Lines, part : {"start", "rest", "newline"}])
    BY <1>1, <1>3 DEF JoinQueue, TypeOK
  <2>5. permits' + Cardinality(At(InFlight)') = Permits
        /\ Len(semQueue') = Cardinality(At({"queued"})')
        /\ Len(outQueue') = Cardinality(At(Writing)')
    BY <1>1, <1>2, <1>3, <2>2, <2>3 DEF JoinQueue, TypeOK
  <2>6. "queued" \in Pc \ {"none"}
    BY DEF Pc, Live
  <2>7. QED
    BY <1>1, <2>1, <2>4, <2>5, <2>6, InvMoved
<1>4. CASE Acquire(l)
  <2>1. pc[l] = "queued" /\ pc' = [pc EXCEPT ![l] = "handling"] /\ permits > 0
    BY <1>4 DEF Acquire
  <2>2. Cardinality(At({"queued"})') = Cardinality(At({"queued"})) - 1
        /\ Cardinality(At({"queued"})) > 0
    <3>1. "handling" \notin {"queued"} /\ pc[l] \in {"queued"}
      BY <2>1
    <3>2. QED
      BY <1>1, <2>1, <3>1, Leaves
  <2>3. Cardinality(At(InFlight)') = Cardinality(At(InFlight)) + 1
    BY <1>1, <2>1, Enters DEF InFlight, Writing
  <2>4. At(Writing)' = At(Writing)
    BY <1>1, <2>1, Stays DEF Writing
  <2>5. semQueue' = Tail(semQueue) /\ semQueue' \in Seq(Lines) /\ Len(semQueue') = Len(semQueue) - 1
    BY <1>1, <1>2, <1>4, <2>2 DEF Acquire, TypeOK
  <2>6. UNCHANGED <<sent, read, exit>> /\ permits' \in Nat /\ semQueue' \in Seq(Lines)
        /\ outQueue' \in Seq(Lines)
        /\ out' \in Seq([line : Lines, part : {"start", "rest", "newline"}])
    BY <1>1, <1>4, <2>1, <2>5 DEF Acquire, TypeOK
  <2>7. permits' + Cardinality(At(InFlight)') = Permits
        /\ Len(semQueue') = Cardinality(At({"queued"})')
        /\ Len(outQueue') = Cardinality(At(Writing)')
    BY <1>1, <1>2, <1>4, <2>2, <2>3, <2>4, <2>5 DEF Acquire, TypeOK
  <2>8. "handling" \in Pc \ {"none"}
    BY DEF Pc, Live, InFlight
  <2>9. QED
    BY <1>1, <2>1, <2>6, <2>7, <2>8, InvMoved
<1>5. CASE HandleUnanswered(l)
  <2> DEFINE p == IF Kind[l] = "request" THEN "failed" ELSE "done"
  <2>1. pc[l] = "handling" /\ pc' = [pc EXCEPT ![l] = p] /\ p \in {"done", "failed"}
    BY <1>5 DEF HandleUnanswered
  <2> HIDE DEF p
  <2>2. Cardinality(At(InFlight)') = Cardinality(At(InFlight)) - 1
    BY <1>1, <2>1, Leaves DEF InFlight, Writing
  <2>3. At({"queued"})' = At({"queued"}) /\ At(Writing)' = At(Writing)
    BY <1>1, <2>1, Stays DEF Writing
  <2>4. UNCHANGED <<sent, read, exit>> /\ permits' \in Nat /\ semQueue' \in Seq(Lines)
        /\ outQueue' \in Seq(Lines)
        /\ out' \in Seq([line : Lines, part : {"start", "rest", "newline"}])
    BY <1>1, <1>5 DEF HandleUnanswered, TypeOK
  <2>5. permits' + Cardinality(At(InFlight)') = Permits
        /\ Len(semQueue') = Cardinality(At({"queued"})')
        /\ Len(outQueue') = Cardinality(At(Writing)')
    BY <1>1, <1>2, <1>5, <2>2, <2>3 DEF HandleUnanswered, TypeOK
  <2>6. p \in Pc \ {"none"}
    BY <2>1 DEF Pc
  <2>7. QED
    BY <1>1, <2>1, <2>4, <2>5, <2>6, InvMoved
<1>6. CASE HandleRequest(l)
  <2>1. pc[l] = "handling" /\ pc' = [pc EXCEPT ![l] = "start"]
    BY <1>6 DEF HandleRequest
  <2>2. Cardinality(At(Writing)') = Cardinality(At(Writing)) + 1
    BY <1>1, <2>1, Enters DEF Writing
  <2>3. At({"queued"})' = At({"queued"}) /\ At(InFlight)' = At(InFlight)
    BY <1>1, <2>1, Stays DEF InFlight, Writing
  <2>4. UNCHANGED <<sent, read, exit>> /\ permits' \in Nat /\ semQueue' \in Seq(Lines)
        /\ outQueue' \in Seq(Lines)
        /\ out' \in Seq([line : Lines, part : {"start", "rest", "newline"}])
    BY <1>1, <1>6 DEF HandleRequest, TypeOK
  <2>5. permits' + Cardinality(At(InFlight)') = Permits
        /\ Len(semQueue') = Cardinality(At({"queued"})')
        /\ Len(outQueue') = Cardinality(At(Writing)')
    BY <1>1, <1>2, <1>6, <2>2, <2>3 DEF HandleRequest, TypeOK
  <2>6. "start" \in Pc \ {"none"}
    BY DEF Pc, Live, InFlight, Writing
  <2>7. QED
    BY <1>1, <2>1, <2>4, <2>5, <2>6, InvMoved
<1>7. CASE WritePart(l)
  <2>1. pc[l] \in {"start", "rest", "newline"} /\ pc' = [pc EXCEPT ![l] = After(pc[l])]
    BY <1>7 DEF WritePart, HasStdout, Writing
  <2>2. After(pc[l]) \in {"rest", "newline", "flush"}
    BY <2>1 DEF After
  <2>3. At({"queued"})' = At({"queued"}) /\ At(InFlight)' = At(InFlight)
        /\ At(Writing)' = At(Writing)
    BY <1>1, <2>1, <2>2, Stays DEF InFlight, Writing
  <2>4. out' = Append(out, Part(l, pc[l]))
        /\ out' \in Seq([line : Lines, part : {"start", "rest", "newline"}])
    BY <1>1, <1>7, <2>1 DEF WritePart, TypeOK, Part
  <2>5. UNCHANGED <<sent, read, exit>> /\ permits' \in Nat /\ semQueue' \in Seq(Lines)
        /\ outQueue' \in Seq(Lines)
        /\ out' \in Seq([line : Lines, part : {"start", "rest", "newline"}])
    BY <1>1, <1>7, <2>4 DEF WritePart, TypeOK
  <2>6. permits' + Cardinality(At(InFlight)') = Permits
        /\ Len(semQueue') = Cardinality(At({"queued"})')
        /\ Len(outQueue') = Cardinality(At(Writing)')
    BY <1>1, <1>2, <1>7, <2>3 DEF WritePart, TypeOK
  <2>7. After(pc[l]) \in Pc \ {"none"}
    BY <2>2 DEF Pc, Live, InFlight, Writing
  <2>8. QED
    BY <1>1, <2>1, <2>5, <2>6, <2>7, InvMoved
<1>8. ASSUME NEW how \in {"failed", "done"}, pc[l] \in Writing, Finish(l, how),
             UNCHANGED <<sent, read, exit, semQueue, out>>
      PROVE  Inv'
  <2>1. pc' = [pc EXCEPT ![l] = how]
    BY <1>8 DEF Finish
  <2>2. Cardinality(At(InFlight)') = Cardinality(At(InFlight)) - 1
    BY <1>1, <1>8, <2>1, Leaves DEF InFlight, Writing
  <2>3. Cardinality(At(Writing)') = Cardinality(At(Writing)) - 1
        /\ Cardinality(At(Writing)) > 0
    BY <1>1, <1>8, <2>1, Leaves DEF Writing
  <2>4. At({"queued"})' = At({"queued"})
    BY <1>1, <1>8, <2>1, Stays DEF Writing
  <2>5. outQueue' \in Seq(Lines) /\ Len(outQueue') = Len(outQueue) - 1
    BY <1>1, <1>2, <1>8, <2>3 DEF Finish, TypeOK
  <2>6. UNCHANGED <<sent, read, exit>> /\ permits' \in Nat /\ semQueue' \in Seq(Lines)
        /\ outQueue' \in Seq(Lines)
        /\ out' \in Seq([line : Lines, part : {"start", "rest", "newline"}])
    BY <1>1, <1>8, <2>5 DEF Finish, TypeOK
  <2>7. permits' + Cardinality(At(InFlight)') = Permits
        /\ Len(semQueue') = Cardinality(At({"queued"})')
        /\ Len(outQueue') = Cardinality(At(Writing)')
    BY <1>1, <1>2, <1>8, <2>2, <2>3, <2>4, <2>5 DEF Finish, TypeOK
  <2>8. how \in Pc \ {"none"}
    BY <1>8 DEF Pc
  <2>9. QED
    BY <1>1, <2>1, <2>6, <2>7, <2>8, InvMoved
<1>9. CASE WriteFails(l)
  BY <1>8, <1>9 DEF WriteFails, HasStdout
<1>10. CASE Flush(l)
  BY <1>8, <1>10 DEF Flush, HasStdout
<1>11. QED
  BY <1>3, <1>4, <1>5, <1>6, <1>7, <1>9, <1>10 DEF Task

\* Invariance.
LEMMA InvNext == Inv /\ [Next]_vars => Inv'
<1> SUFFICES ASSUME Inv, [Next]_vars PROVE Inv'
  OBVIOUS
<1>1. CASE UNCHANGED vars
  BY <1>1 DEF vars, Inv, TypeOK, InFlightBounded, Holders, Unread
<1>2. QED
  BY <1>1, InvLoop, InvTask DEF Next

\* The invariant holds of the read loop and its tasks for ever.
LEMMA Invariance == Spec => []Inv
BY InvInit, InvNext, PTL DEF Spec

\* However many lines arrive and whatever becomes of their tasks, a permit is
\* either left or held by one task.
THEOREM PermitsConserved == Spec => []InFlightBounded
<1>1. Inv => InFlightBounded
  BY DEF Inv
<1>2. QED
  BY <1>1, Invariance, PTL

\* The two queues hold each waiting task once.
THEOREM StdioTypes == Spec => []TypeOK
<1>1. Inv => TypeOK
  BY DEF Inv
<1>2. QED
  BY <1>1, Invariance, PTL

-----------------------------------------------------------------------------
(* Answers                                                                 *)

\* Stdout is handed over in order: who has it is the only one to have begun.
Turns ==
    /\ \A i, j \in 1..Len(outQueue) : outQueue[i] = outQueue[j] => i = j
    /\ \A i \in 1..Len(outQueue) :
          pc[outQueue[i]] \in Writing /\ (i > 1 => pc[outQueue[i]] = "start")
    /\ \A l \in Lines : pc[l] \in Writing => \E i \in 1..Len(outQueue) : outQueue[i] = l

\* What is on stdout goes on as it should, or its task is about to see to it.
GoesOn ==
    \A i \in 1..Len(out) :
        \/ out[i].part = "newline"
        \/ pc[out[i].line] = "failed"
        \/ i < Len(out) /\ out[i + 1] = Part(out[i].line, After(out[i].part))
        \/ i = Len(out) /\ pc[out[i].line] = After(out[i].part)

AnswersInv == Turns /\ GoesOn

\* What is on stdout are parts of answers.
LEMMA PartsTyped ==
    ASSUME TypeOK
    PROVE  \A i \in 1..Len(out) :
              out[i].line \in Lines /\ out[i].part \in {"start", "rest", "newline"}
<1>1. ASSUME NEW R, out \in Seq(R), NEW i \in 1..Len(out) PROVE out[i] \in R
  BY <1>1
<1>2. out \in Seq([line : Lines, part : {"start", "rest", "newline"}])
  BY DEF TypeOK
<1>3. \A i \in 1..Len(out) : out[i] \in [line : Lines, part : {"start", "rest", "newline"}]
  BY <1>1, <1>2
<1>4. QED
  BY <1>3

\* At first nobody writes.
LEMMA AnswersInit == Init => AnswersInv
BY DEF Init, AnswersInv, Turns, GoesOn, Writing

\* The first in the queue is whoever has begun to write.
LEMMA BegunFirst ==
    ASSUME TypeOK, Turns, NEW l \in Lines, pc[l] \in Writing \ {"start"}
    PROVE  Len(outQueue) > 0 /\ outQueue[1] = l /\ Head(outQueue) = l
<1>1. PICK i \in 1..Len(outQueue) : outQueue[i] = l
  BY DEF Turns
<1>2. i = 1
  BY <1>1 DEF Turns, TypeOK
<1>3. QED
  BY <1>1, <1>2 DEF TypeOK

\* A task that does not write, and does not begin to, disturbs nobody.
LEMMA AnswersKept ==
    ASSUME TypeOK, AnswersInv, UNCHANGED <<outQueue, out>>,
           \A l \in Lines : pc'[l] # pc[l] => pc[l] \notin Writing \cup {"failed"}
                                              /\ pc'[l] \notin Writing
    PROVE  AnswersInv'
<1>1. \A i \in 1..Len(outQueue) : outQueue[i] \in Lines
  BY DEF TypeOK
<1>2. Turns'
  BY <1>1 DEF AnswersInv, Turns
<1>3. \A i \in 1..Len(out) :
         out[i].line \in Lines /\ out[i].part \in {"start", "rest", "newline"}
  BY PartsTyped
<1>4. \A i \in 1..Len(out) : After(out[i].part) \in Writing
  BY <1>3 DEF After, Writing
<1>5. GoesOn'
  BY <1>3, <1>4 DEF AnswersInv, GoesOn
<1>6. QED
  BY <1>2, <1>5 DEF AnswersInv

\* A task asks for stdout.
LEMMA AnswersAsk ==
    ASSUME TypeOK, AnswersInv, NEW l \in Lines, HandleRequest(l)
    PROVE  AnswersInv'
<1>1. pc[l] = "handling" /\ pc' = [pc EXCEPT ![l] = "start"] /\ pc \in [Lines -> Pc]
      /\ outQueue' = Append(outQueue, l) /\ out' = out /\ outQueue \in Seq(Lines)
  BY DEF HandleRequest, TypeOK
<1>2. \A m \in Lines : pc'[m] = IF m = l THEN "start" ELSE pc[m]
  BY <1>1
<1>3. Len(outQueue') = Len(outQueue) + 1 /\ outQueue'[Len(outQueue) + 1] = l
      /\ \A i \in 1..Len(outQueue) : outQueue'[i] = outQueue[i]
      /\ Len(outQueue) \in Nat
  BY <1>1
<1>4. \A i \in 1..Len(outQueue) : outQueue[i] # l /\ outQueue[i] \in Lines
  BY <1>1 DEF AnswersInv, Turns, Writing
<1>5. Turns'
  <2>1. ASSUME NEW i \in 1..Len(outQueue'), NEW j \in 1..Len(outQueue'), outQueue'[i] = outQueue'[j]
        PROVE  i = j
    BY <1>3, <1>4, <2>1 DEF AnswersInv, Turns
  <2>2. ASSUME NEW i \in 1..Len(outQueue')
        PROVE  pc'[outQueue'[i]] \in Writing /\ (i > 1 => pc'[outQueue'[i]] = "start")
    BY <1>2, <1>3, <1>4 DEF AnswersInv, Turns, Writing
  <2>3. ASSUME NEW m \in Lines, pc'[m] \in Writing
        PROVE  \E i \in 1..Len(outQueue') : outQueue'[i] = m
    <3>1. CASE m = l
      BY <1>3, <3>1
    <3>2. CASE m # l
      <4>1. PICK i \in 1..Len(outQueue) : outQueue[i] = m
        BY <1>2, <2>3, <3>2 DEF AnswersInv, Turns
      <4>2. QED
        BY <1>3, <4>1
    <3>3. QED
      BY <3>1, <3>2
  <2>4. QED
    BY <2>1, <2>2, <2>3 DEF Turns
<1>6. GoesOn'
  <2>1. \A i \in 1..Len(out) :
           out[i].line \in Lines /\ out[i].part \in {"start", "rest", "newline"}
    BY PartsTyped
  <2>2. \A i \in 1..Len(out) : After(out[i].part) # "handling"
    BY <2>1 DEF After
  <2>3. QED
    BY <1>1, <1>2, <2>1, <2>2 DEF AnswersInv, GoesOn
<1>7. QED
  BY <1>5, <1>6 DEF AnswersInv

\* The task that has stdout writes the next part of its answer.
LEMMA AnswersWrite ==
    ASSUME TypeOK, AnswersInv, NEW l \in Lines, WritePart(l)
    PROVE  AnswersInv'
<1>1. pc[l] \in {"start", "rest", "newline"} /\ Head(outQueue) = l
      /\ pc' = [pc EXCEPT ![l] = After(pc[l])] /\ pc \in [Lines -> Pc]
      /\ out' = Append(out, Part(l, pc[l])) /\ outQueue' = outQueue
  BY DEF WritePart, HasStdout, Writing, TypeOK
<1>2. After(pc[l]) \in {"rest", "newline", "flush"} /\ After(pc[l]) \in Writing
  BY <1>1 DEF After, Writing
<1>3. \A m \in Lines : pc'[m] = IF m = l THEN After(pc[l]) ELSE pc[m]
  BY <1>1
<1>4. Len(outQueue) > 0 /\ outQueue[1] = l
  <2>1. \E i \in 1..Len(outQueue) : outQueue[i] = l
    BY <1>1 DEF AnswersInv, Turns, Writing
  <2>2. QED
    BY <1>1, <2>1 DEF TypeOK
<1>5. Turns'
  <2>1. \A i \in 1..Len(outQueue) : outQueue[i] \in Lines /\ (i > 1 => outQueue[i] # l)
    BY <1>4 DEF AnswersInv, Turns, TypeOK
  <2>2. QED
    BY <1>1, <1>2, <1>3, <1>4, <2>1 DEF AnswersInv, Turns, Writing
<1>6. /\ \A i \in 1..Len(out) :
            out[i].line \in Lines /\ out[i].part \in {"start", "rest", "newline"}
      /\ Len(out') = Len(out) + 1 /\ out'[Len(out) + 1] = Part(l, pc[l]) /\ Len(out) \in Nat
      /\ \A i \in 1..Len(out) : out'[i] = out[i]
  BY <1>1, PartsTyped DEF TypeOK
<1>7. ASSUME NEW i \in 1..Len(out')
      PROVE  \/ out'[i].part = "newline"
             \/ pc'[out'[i].line] = "failed"
             \/ i < Len(out') /\ out'[i + 1] = Part(out'[i].line, After(out'[i].part))
             \/ i = Len(out') /\ pc'[out'[i].line] = After(out'[i].part)
  <2>1. CASE i = Len(out) + 1
    <3>1. out'[i].line = l /\ out'[i].part = pc[l]
      BY <1>6, <2>1 DEF Part
    <3>2. QED
      BY <1>3, <1>6, <2>1, <3>1
  <2>2. CASE i \in 1..Len(out)
    <3>1. out'[i] = out[i] /\ out[i].line \in Lines
      BY <1>6, <2>2
    <3>2. CASE out[i].part = "newline"
      BY <3>1, <3>2
    <3>3. CASE pc[out[i].line] = "failed"
      BY <1>1, <1>3, <3>1, <3>3
    <3>4. CASE i < Len(out) /\ out[i + 1] = Part(out[i].line, After(out[i].part))
      BY <1>6, <2>2, <3>1, <3>4
    <3>5. CASE i = Len(out) /\ pc[out[i].line] = After(out[i].part) /\ out[i].part # "newline"
      <4>1. pc[out[i].line] \in Writing \ {"start"}
        BY <1>6, <2>2, <3>5 DEF After, Writing
      <4>2. out[i].line = l
        BY <1>1, <3>1, <4>1, BegunFirst DEF AnswersInv
      <4>3. out'[i + 1] = Part(out'[i].line, After(out'[i].part)) /\ i < Len(out')
        BY <1>6, <3>1, <3>5, <4>2
      <4>4. QED
        BY <4>3
    <3>6. QED
      BY <2>2, <3>2, <3>3, <3>4, <3>5 DEF AnswersInv, GoesOn
  <2>3. QED
    BY <1>6, <2>1, <2>2
<1>8. QED
  BY <1>5, <1>7 DEF AnswersInv, GoesOn

\* A task that is through, or whose write failed, hands stdout over.
LEMMA AnswersFinish ==
    ASSUME TypeOK, AnswersInv, NEW l \in Lines, NEW how \in {"failed", "done"},
           pc[l] \in Writing, how = "done" => pc[l] = "flush",
           Head(outQueue) = l, Finish(l, how), out' = out
    PROVE  AnswersInv'
<1>1. pc' = [pc EXCEPT ![l] = how] /\ pc \in [Lines -> Pc] /\ outQueue' = Tail(outQueue)
      /\ outQueue \in Seq(Lines)
  BY DEF Finish, TypeOK
<1>2. \A m \in Lines : pc'[m] = IF m = l THEN how ELSE pc[m]
  BY <1>1
<1>3. Len(outQueue) > 0 /\ outQueue[1] = l
  <2>1. \E i \in 1..Len(outQueue) : outQueue[i] = l
    BY DEF AnswersInv, Turns
  <2>2. QED
    BY <1>1, <2>1
<1>4. Len(outQueue') = Len(outQueue) - 1
      /\ \A i \in 1..Len(outQueue') : outQueue'[i] = outQueue[i + 1]
      /\ Len(outQueue) \in Nat
  BY <1>1, <1>3
<1>5. \A i \in 1..Len(outQueue) : outQueue[i] \in Lines /\ (i > 1 => outQueue[i] # l)
  BY <1>1, <1>3 DEF AnswersInv, Turns
<1>6. Turns'
  <2>1. ASSUME NEW i \in 1..Len(outQueue'), NEW j \in 1..Len(outQueue'), outQueue'[i] = outQueue'[j]
        PROVE  i = j
    BY <1>4, <2>1 DEF AnswersInv, Turns
  <2>2. ASSUME NEW i \in 1..Len(outQueue')
        PROVE  pc'[outQueue'[i]] \in Writing /\ (i > 1 => pc'[outQueue'[i]] = "start")
    BY <1>2, <1>4, <1>5 DEF AnswersInv, Turns, Writing
  <2>3. ASSUME NEW m \in Lines, pc'[m] \in Writing
        PROVE  \E i \in 1..Len(outQueue') : outQueue'[i] = m
    <3>1. m # l /\ pc[m] \in Writing
      BY <1>2, <2>3 DEF Writing
    <3>2. PICK i \in 1..Len(outQueue) : outQueue[i] = m
      BY <3>1 DEF AnswersInv, Turns
    <3>3. i # 1 /\ i - 1 \in 1..Len(outQueue') /\ outQueue'[i - 1] = m
      BY <1>3, <1>4, <3>1, <3>2
    <3>4. QED
      BY <3>3
  <2>4. QED
    BY <2>1, <2>2, <2>3 DEF Turns
<1>7. GoesOn'
  <2>1. \A i \in 1..Len(out) :
           out[i].line \in Lines /\ out[i].part \in {"start", "rest", "newline"}
    BY PartsTyped
  <2>2. \A i \in 1..Len(out) : out[i].part # "newline" => After(out[i].part) # "flush"
    BY <2>1 DEF After
  <2>3. QED
    BY <1>2, <2>1, <2>2 DEF AnswersInv, GoesOn, Writing
<1>8. QED
  BY <1>6, <1>7 DEF AnswersInv

\* Each step keeps the turns and what is on stdout.
LEMMA AnswersNext == Inv /\ AnswersInv /\ [Next]_vars => AnswersInv'
<1> SUFFICES ASSUME Inv, AnswersInv, [Next]_vars PROVE AnswersInv'
  OBVIOUS
<1>1. TypeOK /\ Unread /\ pc \in [Lines -> Pc]
  BY DEF Inv, TypeOK
<1>2. CASE Send \/ StdinEnds \/ UNCHANGED vars
  BY <1>1, <1>2, AnswersKept DEF Send, StdinEnds, vars
<1>3. CASE ReadLine
  <2> DEFINE l == read + 1
  <2>1. l \in Lines /\ pc[l] = "none"
    BY <1>1, <1>3, StdioAssumption DEF ReadLine, TypeOK, Lines, Unread
  <2>2. \A m \in Lines : pc'[m] # pc[m] => m = l /\ pc'[m] \in {"skipped", "spawned"}
    BY <1>1, <1>3, <2>1 DEF ReadLine
  <2>3. QED
    BY <1>1, <1>3, <2>1, <2>2, AnswersKept DEF ReadLine, Writing
<1>4. ASSUME NEW l \in Lines, JoinQueue(l) \/ Acquire(l) \/ HandleUnanswered(l) PROVE AnswersInv'
  <2>1. \A m \in Lines : pc'[m] # pc[m] =>
           m = l /\ pc[m] \in {"spawned", "queued", "handling"}
           /\ pc'[m] \in {"queued", "handling", "done", "failed"}
    BY <1>1, <1>4 DEF JoinQueue, Acquire, HandleUnanswered
  <2>2. UNCHANGED <<outQueue, out>>
    BY <1>4 DEF JoinQueue, Acquire, HandleUnanswered
  <2>3. QED
    BY <1>1, <2>1, <2>2, AnswersKept DEF Writing
<1>5. ASSUME NEW l \in Lines, HandleRequest(l) PROVE AnswersInv'
  BY <1>1, <1>5, AnswersAsk
<1>6. ASSUME NEW l \in Lines, WritePart(l) PROVE AnswersInv'
  BY <1>1, <1>6, AnswersWrite
<1>7. ASSUME NEW l \in Lines, WriteFails(l) \/ Flush(l) PROVE AnswersInv'
  BY <1>1, <1>7, AnswersFinish DEF WriteFails, Flush, HasStdout
<1>8. QED
  BY <1>2, <1>3, <1>4, <1>5, <1>6, <1>7 DEF Next, Task

\* However many answers compete for stdout and wherever writes fail, a client
\* never sees two of them mixed.
THEOREM NoAnswersMixed == Spec => []AnswersNotInterleaved
<1>1. Inv /\ AnswersInv => AnswersNotInterleaved
  <2> SUFFICES ASSUME TypeOK, GoesOn, NEW i \in 1..Len(out), out[i].part # "newline"
               PROVE  IF i = Len(out)
                      THEN pc[out[i].line] \in Writing \cup {"failed"}
                      ELSE \/ out[i + 1] = Part(out[i].line, After(out[i].part))
                           \/ pc[out[i].line] = "failed"
    BY DEF Inv, AnswersInv, AnswersNotInterleaved
  <2>1. out[i].part \in {"start", "rest", "newline"}
    BY PartsTyped
  <2>2. After(out[i].part) \in Writing
    BY <2>1 DEF After, Writing
  <2>3. QED
    BY <2>2 DEF GoesOn
<1>2. QED
  BY <1>1, Invariance, AnswersInit, AnswersNext, PTL DEF Spec

-----------------------------------------------------------------------------
(* Each answer once                                                        *)

Written(l, p) == \E i \in 1..Len(out) : out[i] = Part(l, p)

\* Where the task of an answer stands whose parts are on stdout.
PartsBehind(l) ==
    /\ Written(l, "start") => pc[l] \in {"rest", "newline", "flush", "done", "failed"}
    /\ Written(l, "rest") => pc[l] \in {"newline", "flush", "done", "failed"}
    /\ Answered(l) => pc[l] \in {"flush", "done"}
    /\ pc[l] = "flush" => Answered(l)
    /\ pc[l] = "done" /\ Kind[l] = "request" => Answered(l)

OnceInv ==
    /\ \A i, j \in 1..Len(out) : out[i] = out[j] => i = j
    /\ \A l \in Lines : PartsBehind(l)
    /\ \A l \in Lines : pc[l] \in Writing \cup {"failed"} => Kind[l] = "request"
    /\ \A i \in 1..Len(out) : Kind[out[i].line] = "request"

\* What a step does to the parts of answers on stdout.
LEMMA WrittenGrows ==
    ASSUME TypeOK, NEW l \in Lines, NEW p \in {"start", "rest", "newline"},
           out' = Append(out, Part(l, p))
    PROVE  /\ Len(out') = Len(out) + 1 /\ Len(out) \in Nat /\ out'[Len(out) + 1] = Part(l, p)
           /\ \A i \in 1..Len(out) : out'[i] = out[i]
           /\ \A m, q : Written(m, q)' <=> Written(m, q) \/ (m = l /\ q = p)
<1>1. Len(out') = Len(out) + 1 /\ Len(out) \in Nat /\ out'[Len(out) + 1] = Part(l, p)
      /\ \A i \in 1..Len(out) : out'[i] = out[i]
  BY DEF TypeOK
<1>2. ASSUME NEW m, NEW q PROVE Written(m, q)' <=> Written(m, q) \/ (m = l /\ q = p)
  <2>1. Part(m, q) = Part(l, p) <=> m = l /\ q = p
    BY DEF Part
  <2>2. Written(m, q)' <=> \E i \in 1..Len(out') : out'[i] = Part(m, q)
    BY DEF Written, Part
  <2>3. QED
    BY <1>1, <2>1, <2>2 DEF Written
<1>3. QED
  BY <1>1, <1>2

\* A step that writes nothing, and ends no request.
LEMMA OnceKept ==
    ASSUME TypeOK, OnceInv, UNCHANGED out,
           \A l \in Lines : pc'[l] # pc[l] =>
              /\ pc[l] \notin {"done", "failed"}
              /\ pc[l] = "flush" => pc'[l] = "done"
              /\ pc[l] \in {"start", "rest", "newline"} => pc'[l] = "failed"
              /\ pc'[l] # "flush"
              /\ pc'[l] \in Writing \cup {"failed"} => Kind[l] = "request"
              /\ pc'[l] = "done" /\ Kind[l] = "request" => pc[l] = "flush"
    PROVE  OnceInv'
<1>1. \A m, q : Written(m, q)' <=> Written(m, q)
  BY DEF Written, Part
<1>2. \A m : Answered(m)' <=> Answered(m)
  BY DEF Answered, Part
<1>3. \A m \in Lines : PartsBehind(m)'
  BY <1>1, <1>2 DEF OnceInv, PartsBehind
<1>4. QED
  BY <1>3 DEF OnceInv

\* The task that has stdout writes the next part of its answer, for the first
\* time.
LEMMA OnceWrites ==
    ASSUME TypeOK, OnceInv, NEW l \in Lines, WritePart(l)
    PROVE  OnceInv'
<1>1. pc[l] \in {"start", "rest", "newline"} /\ pc \in [Lines -> Pc]
      /\ pc' = [pc EXCEPT ![l] = After(pc[l])] /\ out' = Append(out, Part(l, pc[l]))
  BY DEF WritePart, HasStdout, Writing, TypeOK
<1>2. \A m \in Lines : pc'[m] = IF m = l THEN After(pc[l]) ELSE pc[m]
  BY <1>1
<1>3. /\ After("start") = "rest" /\ After("rest") = "newline" /\ After("newline") = "flush"
  BY DEF After
<1>4. /\ Len(out') = Len(out) + 1 /\ Len(out) \in Nat /\ out'[Len(out) + 1] = Part(l, pc[l])
      /\ \A i \in 1..Len(out) : out'[i] = out[i]
      /\ \A m, q : Written(m, q)' <=> Written(m, q) \/ (m = l /\ q = pc[l])
  BY <1>1, WrittenGrows
<1>5. \A m : Answered(m) <=> Written(m, "newline")
  BY DEF Answered, Written
<1>6. \A m : Answered(m)' <=> Answered(m) \/ (m = l /\ pc[l] = "newline")
  <2>1. \A m : Answered(m)' <=> Written(m, "newline")'
    BY DEF Answered, Written
  <2>2. QED
    BY <1>4, <1>5, <2>1
<1>7. ~Written(l, pc[l])
  BY <1>1, <1>5 DEF OnceInv, PartsBehind
<1>8. ASSUME NEW i \in 1..Len(out'), NEW j \in 1..Len(out'), out'[i] = out'[j]
      PROVE  i = j
  <2>1. \A k \in 1..Len(out) : out[k] # Part(l, pc[l])
    BY <1>7 DEF Written
  <2>2. QED
    BY <1>4, <1>8, <2>1 DEF OnceInv
<1>9. ASSUME NEW m \in Lines PROVE PartsBehind(m)'
  <2>1. PartsBehind(m)
    BY DEF OnceInv
  <2>2. CASE m # l
    BY <1>2, <1>4, <1>6, <2>1, <2>2 DEF PartsBehind
  <2>3. CASE m = l /\ pc[l] = "start"
    BY <1>2, <1>3, <1>4, <1>6, <2>1, <2>3 DEF PartsBehind
  <2>4. CASE m = l /\ pc[l] = "rest"
    BY <1>2, <1>3, <1>4, <1>6, <2>1, <2>4 DEF PartsBehind
  <2>5. CASE m = l /\ pc[l] = "newline"
    BY <1>2, <1>3, <1>4, <1>6, <2>1, <2>5 DEF PartsBehind
  <2>6. QED
    BY <1>1, <2>2, <2>3, <2>4, <2>5
<1>10. \A m \in Lines : pc'[m] \in Writing \cup {"failed"} => Kind[m] = "request"
  BY <1>1, <1>2 DEF OnceInv, Writing
<1>11. \A i \in 1..Len(out') : Kind[out'[i].line] = "request"
  <2>1. Part(l, pc[l]).line = l /\ Kind[l] = "request"
    BY <1>1 DEF Part, OnceInv, Writing
  <2>2. QED
    BY <1>4, <2>1 DEF OnceInv
<1>12. QED
  BY <1>8, <1>9, <1>10, <1>11 DEF OnceInv

\* Each step keeps it.
LEMMA OnceNext == Inv /\ OnceInv /\ [Next]_vars => OnceInv'
<1> SUFFICES ASSUME Inv, OnceInv, [Next]_vars PROVE OnceInv'
  OBVIOUS
<1>1. TypeOK /\ Unread /\ pc \in [Lines -> Pc]
  BY DEF Inv, TypeOK
<1>2. CASE Send \/ StdinEnds \/ UNCHANGED vars
  BY <1>1, <1>2, OnceKept DEF Send, StdinEnds, vars
<1>3. CASE ReadLine
  <2> DEFINE l == read + 1
  <2>1. l \in Lines /\ pc[l] = "none"
    BY <1>1, <1>3, StdioAssumption DEF ReadLine, TypeOK, Lines, Unread
  <2>2. \A m \in Lines : pc'[m] # pc[m] => m = l /\ pc'[m] \in {"skipped", "spawned"}
    BY <1>1, <1>3, <2>1 DEF ReadLine
  <2>3. QED
    BY <1>1, <1>3, <2>1, <2>2, OnceKept DEF ReadLine, Writing
<1>4. ASSUME NEW l \in Lines,
             JoinQueue(l) \/ Acquire(l) \/ HandleUnanswered(l) \/ HandleRequest(l)
      PROVE  OnceInv'
  <2>1. /\ \A m \in Lines : pc'[m] # pc[m] =>
              m = l /\ pc[m] \in {"spawned", "queued", "handling"}
        /\ pc'[l] \in {"queued", "handling", "done", "failed", "start"}
        /\ pc'[l] = "done" => Kind[l] # "request"
        /\ pc'[l] \in {"failed", "start"} => Kind[l] = "request"
    BY <1>1, <1>4 DEF JoinQueue, Acquire, HandleUnanswered, HandleRequest
  <2>2. UNCHANGED out
    BY <1>4 DEF JoinQueue, Acquire, HandleUnanswered, HandleRequest
  <2>3. QED
    BY <1>1, <2>1, <2>2, OnceKept DEF Writing
<1>5. ASSUME NEW l \in Lines, WritePart(l) PROVE OnceInv'
  BY <1>1, <1>5, OnceWrites
<1>6. ASSUME NEW l \in Lines, WriteFails(l) \/ Flush(l) PROVE OnceInv'
  <2>1. /\ \A m \in Lines : pc'[m] # pc[m] => m = l
        /\ \/ pc[l] \in {"start", "rest", "newline"} /\ pc'[l] = "failed"
           \/ pc[l] = "flush" /\ pc'[l] = "done"
    BY <1>1, <1>6 DEF WriteFails, Flush, Finish, HasStdout, Writing
  <2>2. UNCHANGED out /\ Kind[l] = "request"
    BY <1>6, <2>1 DEF WriteFails, Flush, OnceInv, Writing
  <2>3. QED
    BY <1>1, <2>1, <2>2, OnceKept
<1>7. QED
  BY <1>2, <1>3, <1>4, <1>5, <1>6 DEF Next, Task

\* At first nothing is on stdout.
LEMMA OnceInit == Init => OnceInv
BY DEF Init, OnceInv, PartsBehind, Written, Answered, Writing

\* A request whose task is through has been answered in full, exactly once,
\* and nothing but requests is answered: there is no second answer, and none
\* to a notification (mcp.rs:210-234).
AnsweredExactlyOnce ==
    /\ \A i, j \in 1..Len(out) : out[i] = out[j] => i = j
    /\ \A i \in 1..Len(out) : Kind[out[i].line] = "request"
    /\ \A l \in Lines :
          Answered(l) <=> pc[l] = "flush" \/ (pc[l] = "done" /\ Kind[l] = "request")

\* No line is answered twice, and no request ends unanswered unless its answer
\* could not be serialized or written.
THEOREM EachRequestAnsweredOnce == Spec => []AnsweredExactlyOnce
<1>1. Inv /\ OnceInv => AnsweredExactlyOnce
  <2> SUFFICES ASSUME TypeOK, OnceInv PROVE AnsweredExactlyOnce
    BY DEF Inv
  <2>1. \A l \in Lines : Answered(l) => Kind[l] = "request"
    BY DEF OnceInv, Answered, Part
  <2>2. QED
    BY <2>1 DEF AnsweredExactlyOnce, OnceInv, PartsBehind
<1>2. QED
  BY <1>1, Invariance, OnceInit, OnceNext, PTL DEF Spec

-----------------------------------------------------------------------------
(* What SlowCallsBlockNobody rests on                                      *)

\* The semaphore is handed over in order.
SemTurns ==
    /\ \A i, j \in 1..Len(semQueue) : semQueue[i] = semQueue[j] => i = j
    /\ \A i \in 1..Len(semQueue) : pc[semQueue[i]] = "queued"
    /\ \A l \in Lines : pc[l] = "queued" => \E i \in 1..Len(semQueue) : semQueue[i] = l

\* A step that moves no task into the queue or out of it.
LEMMA SemKept ==
    ASSUME TypeOK, SemTurns, UNCHANGED semQueue,
           \A l \in Lines : pc'[l] # pc[l] => pc[l] # "queued" /\ pc'[l] # "queued"
    PROVE  SemTurns'
<1>1. \A i \in 1..Len(semQueue) : semQueue[i] \in Lines
  BY DEF TypeOK
<1>2. QED
  BY <1>1 DEF SemTurns

\* Each step keeps the turns at the semaphore.
LEMMA SemNext == Inv /\ SemTurns /\ [Next]_vars => SemTurns'
<1> SUFFICES ASSUME Inv, SemTurns, [Next]_vars PROVE SemTurns'
  OBVIOUS
<1>1. TypeOK /\ Unread /\ pc \in [Lines -> Pc] /\ semQueue \in Seq(Lines)
  BY DEF Inv, TypeOK
<1>2. CASE Send \/ StdinEnds \/ UNCHANGED vars
  BY <1>1, <1>2, SemKept DEF Send, StdinEnds, vars
<1>3. CASE ReadLine
  <2> DEFINE l == read + 1
  <2>1. l \in Lines /\ pc[l] = "none"
    BY <1>1, <1>3, StdioAssumption DEF ReadLine, TypeOK, Lines, Unread
  <2>2. \A m \in Lines : pc'[m] # pc[m] => m = l /\ pc'[m] \in {"skipped", "spawned"}
    BY <1>1, <1>3, <2>1 DEF ReadLine
  <2>3. QED
    BY <1>1, <1>3, <2>1, <2>2, SemKept DEF ReadLine
<1>4. ASSUME NEW l \in Lines, JoinQueue(l) PROVE SemTurns'
  <2>1. pc[l] = "spawned" /\ semQueue' = Append(semQueue, l)
        /\ \A m \in Lines : pc'[m] = IF m = l THEN "queued" ELSE pc[m]
    BY <1>1, <1>4 DEF JoinQueue
  <2>2. Len(semQueue') = Len(semQueue) + 1 /\ semQueue'[Len(semQueue) + 1] = l
        /\ \A i \in 1..Len(semQueue) : semQueue'[i] = semQueue[i]
        /\ Len(semQueue) \in Nat
    BY <1>1, <2>1
  <2>3. \A i \in 1..Len(semQueue) : semQueue[i] # l /\ semQueue[i] \in Lines
    BY <1>1, <2>1 DEF SemTurns
  <2>4. ASSUME NEW i \in 1..Len(semQueue'), NEW j \in 1..Len(semQueue'), semQueue'[i] = semQueue'[j]
        PROVE  i = j
    BY <2>2, <2>3, <2>4 DEF SemTurns
  <2>5. \A i \in 1..Len(semQueue') : pc'[semQueue'[i]] = "queued"
    BY <2>1, <2>2, <2>3 DEF SemTurns
  <2>6. ASSUME NEW m \in Lines, pc'[m] = "queued"
        PROVE  \E i \in 1..Len(semQueue') : semQueue'[i] = m
    <3>1. CASE m = l
      BY <2>2, <3>1
    <3>2. CASE m # l
      <4>1. PICK i \in 1..Len(semQueue) : semQueue[i] = m
        BY <2>1, <2>6, <3>2 DEF SemTurns
      <4>2. QED
        BY <2>2, <4>1
    <3>3. QED
      BY <3>1, <3>2
  <2>7. QED
    BY <2>4, <2>5, <2>6 DEF SemTurns
<1>5. ASSUME NEW l \in Lines, Acquire(l) PROVE SemTurns'
  <2>1. pc[l] = "queued" /\ Head(semQueue) = l /\ semQueue' = Tail(semQueue)
        /\ \A m \in Lines : pc'[m] = IF m = l THEN "handling" ELSE pc[m]
    BY <1>1, <1>5 DEF Acquire
  <2>2. Len(semQueue) > 0 /\ semQueue[1] = l
    <3>1. \E i \in 1..Len(semQueue) : semQueue[i] = l
      BY <2>1 DEF SemTurns
    <3>2. QED
      BY <1>1, <2>1, <3>1
  <2>3. Len(semQueue') = Len(semQueue) - 1 /\ Len(semQueue) \in Nat
        /\ \A i \in 1..Len(semQueue') : semQueue'[i] = semQueue[i + 1]
    BY <1>1, <2>1, <2>2
  <2>4. \A i \in 1..Len(semQueue) : semQueue[i] \in Lines /\ (i > 1 => semQueue[i] # l)
    BY <1>1, <2>2 DEF SemTurns
  <2>5. ASSUME NEW i \in 1..Len(semQueue'), NEW j \in 1..Len(semQueue'), semQueue'[i] = semQueue'[j]
        PROVE  i = j
    BY <2>3, <2>5 DEF SemTurns
  <2>6. \A i \in 1..Len(semQueue') : pc'[semQueue'[i]] = "queued"
    BY <2>1, <2>3, <2>4 DEF SemTurns
  <2>7. ASSUME NEW m \in Lines, pc'[m] = "queued"
        PROVE  \E i \in 1..Len(semQueue') : semQueue'[i] = m
    <3>1. m # l /\ pc[m] = "queued"
      BY <2>1, <2>7
    <3>2. PICK i \in 1..Len(semQueue) : semQueue[i] = m
      BY <3>1 DEF SemTurns
    <3>3. i # 1 /\ i - 1 \in 1..Len(semQueue') /\ semQueue'[i - 1] = m
      BY <2>2, <2>3, <3>1, <3>2
    <3>4. QED
      BY <3>3
  <2>8. QED
    BY <2>5, <2>6, <2>7 DEF SemTurns
<1>6. ASSUME NEW l \in Lines, HandleUnanswered(l) \/ HandleRequest(l) PROVE SemTurns'
  <2>1. UNCHANGED semQueue /\ pc[l] = "handling" /\ pc'[l] \in {"done", "failed", "start"}
        /\ \A m \in Lines : pc'[m] # pc[m] => m = l
    BY <1>1, <1>6 DEF HandleUnanswered, HandleRequest
  <2>2. QED
    BY <1>1, <2>1, SemKept
<1>7. ASSUME NEW l \in Lines, WritePart(l) \/ WriteFails(l) \/ Flush(l) PROVE SemTurns'
  <2>1. UNCHANGED semQueue /\ pc[l] \in Writing
        /\ \A m \in Lines : pc'[m] # pc[m] => m = l
    BY <1>1, <1>7 DEF WritePart, WriteFails, Flush, Finish, HasStdout
  <2>2. pc'[l] \in {"rest", "newline", "flush", "failed", "done"}
    BY <1>1, <1>7, <2>1 DEF WritePart, WriteFails, Flush, Finish, HasStdout, Writing, After
  <2>3. QED
    BY <1>1, <2>1, <2>2, SemKept DEF Writing
<1>8. QED
  BY <1>2, <1>3, <1>4, <1>5, <1>6, <1>7 DEF Next, Task

\* A task that can take its next step without waiting for another one.
CanMove(l) ==
    \/ pc[l] = "spawned"
    \/ pc[l] = "queued" /\ Head(semQueue) = l /\ permits > 0
    \/ pc[l] = "handling" /\ l \notin Hanging
    \/ HasStdout(l)

\* The tasks never wait for one another in a circle: as long as fewer handlers
\* hang than there are permits, some task can go on whenever one that does
\* not hang itself is not through (mcp.rs:149-154, 198-234).
NeverWedged ==
    Cardinality(Hanging) < Permits =>
        \A l \in Lines \ Hanging : pc[l] \in Live => \E m \in Lines : CanMove(m)

\* Whoever writes, or waits to, waits for a task that can go on.
LEMMA WriterMoves ==
    ASSUME TypeOK, Turns, NEW l \in Lines, pc[l] \in Writing
    PROVE  \E m \in Lines : HasStdout(m)
<1>1. PICK i \in 1..Len(outQueue) : outQueue[i] = l
  BY DEF Turns
<1>2. Len(outQueue) > 0 /\ outQueue \in Seq(Lines)
  BY <1>1 DEF TypeOK
<1>3. outQueue[1] = Head(outQueue) /\ outQueue[1] \in Lines
  BY <1>2
<1>4. pc[outQueue[1]] \in Writing
  BY <1>2, <1>3 DEF Turns
<1>5. QED
  BY <1>3, <1>4 DEF HasStdout

\* Not all the permits are with handlers that hang.
LEMMA SomeHolderMoves ==
    ASSUME Inv, Turns, permits = 0, Cardinality(Hanging) < Permits
    PROVE  \E m \in Lines : CanMove(m)
<1>1. Cardinality(Holders) = Permits /\ IsFiniteSet(Hanging) /\ IsFiniteSet(Holders)
  <2>1. Cardinality(Holders) \in Nat /\ IsFiniteSet(Holders)
    BY LinesFinite, Counted
  <2>2. IsFiniteSet(Hanging)
    BY LinesFinite, FS_Subset, StdioAssumption
  <2>3. QED
    BY <2>1, <2>2, StdioAssumption DEF Inv, InFlightBounded
<1>2. PICK m \in Holders : m \notin Hanging
  <2>1. CASE Holders \subseteq Hanging
    <3>1. Cardinality(Holders) <= Cardinality(Hanging)
      BY <1>1, <2>1, FS_Subset
    <3>2. Cardinality(Hanging) \in Nat
      BY <1>1, FS_CardinalityType
    <3>3. QED
      BY <1>1, <3>1, <3>2, StdioAssumption
  <2>2. QED
    BY <2>1
<1>3. m \in Lines /\ (pc[m] = "handling" \/ pc[m] \in Writing)
  BY <1>2 DEF Holders, InFlight
<1>4. CASE pc[m] = "handling"
  BY <1>2, <1>3, <1>4 DEF CanMove
<1>5. CASE pc[m] \in Writing
  BY <1>3, <1>5, WriterMoves DEF CanMove, Inv
<1>6. QED
  BY <1>3, <1>4, <1>5

\* Fewer hanging handlers than permits wedge nobody, whoever waits for what.
THEOREM TasksNeverWedged == Spec => []NeverWedged
<1>1. Init => SemTurns
  BY DEF Init, SemTurns
<1>2. Inv /\ AnswersInv /\ SemTurns => NeverWedged
  <2> SUFFICES ASSUME Inv, Turns, SemTurns, Cardinality(Hanging) < Permits,
                      NEW l \in Lines \ Hanging, pc[l] \in Live
               PROVE  \E m \in Lines : CanMove(m)
    BY DEF NeverWedged, AnswersInv
  <2>1. TypeOK
    BY DEF Inv
  <2>2. CASE pc[l] = "spawned" \/ pc[l] = "handling"
    BY <2>2 DEF CanMove
  <2>3. CASE pc[l] \in Writing
    BY <2>1, <2>3, WriterMoves DEF CanMove
  <2>4. CASE pc[l] = "queued" /\ permits = 0
    BY <2>4, SomeHolderMoves
  <2>5. CASE pc[l] = "queued" /\ permits > 0
    <3>1. PICK i \in 1..Len(semQueue) : semQueue[i] = l
      BY <2>5 DEF SemTurns
    <3>2. Len(semQueue) > 0 /\ semQueue[1] = Head(semQueue) /\ semQueue[1] \in Lines
      BY <2>1, <3>1 DEF TypeOK
    <3>3. pc[semQueue[1]] = "queued"
      BY <3>2 DEF SemTurns
    <3>4. QED
      BY <2>5, <3>2, <3>3 DEF CanMove
  <2>6. pc[l] = "spawned" \/ pc[l] = "handling" \/ pc[l] \in Writing \/ pc[l] = "queued"
    BY DEF Live, InFlight
  <2>7. permits = 0 \/ permits > 0
    BY <2>1, StdioAssumption DEF TypeOK
  <2>8. QED
    BY <2>2, <2>3, <2>4, <2>5, <2>6, <2>7
<1>3. QED
  BY <1>1, <1>2, Invariance, AnswersInit, AnswersNext, SemNext, PTL DEF Spec

\* How far a line has come.
Step(p) == CASE p = "none" -> 0
             [] p \in {"skipped", "spawned"} -> 1
             [] p = "queued" -> 2
             [] p = "handling" -> 3
             [] p = "start" -> 4
             [] p = "rest" -> 5
             [] p = "newline" -> 6
             [] p = "flush" -> 7
             [] p \in {"done", "failed"} -> 8

\* How the tasks move: one at a time and never back, so that a line takes at
\* most eight steps; and nobody is overtaken where tasks wait, the first in a
\* queue leaves it and the others move up (mcp.rs:198-234).
MovesInOrder ==
    /\ \A l \in Lines : pc'[l] # pc[l] => Step(pc'[l]) > Step(pc[l])
    /\ \A l \in Lines :
          pc[l] = "queued" /\ pc'[l] # "queued" =>
              Head(semQueue) = l /\ permits > 0 /\ semQueue' = Tail(semQueue)
    /\ \A l \in Lines :
          pc[l] \in Writing /\ pc'[l] # pc[l] => Head(outQueue) = l
    /\ semQueue' = semQueue \/ semQueue' = Tail(semQueue)
       \/ \E l \in Lines : semQueue' = Append(semQueue, l)
    /\ outQueue' = outQueue \/ outQueue' = Tail(outQueue)
       \/ \E l \in Lines : outQueue' = Append(outQueue, l)

\* Whatever is scheduled when, the tasks move on in the order in which they
\* asked.
THEOREM TasksMoveInOrder == Spec => [][MovesInOrder]_vars
<1>1. ASSUME Inv, Next PROVE MovesInOrder
  <2>1. TypeOK /\ Unread /\ pc \in [Lines -> Pc]
    BY <1>1 DEF Inv, TypeOK
  <2>2. CASE Send \/ StdinEnds
    BY <2>2 DEF Send, StdinEnds, MovesInOrder
  <2>3. CASE ReadLine
    <3> DEFINE n == read + 1
    <3>1. n \in Lines /\ pc[n] = "none"
      BY <2>1, <2>3, StdioAssumption DEF ReadLine, TypeOK, Lines, Unread
    <3>2. \A m \in Lines : pc'[m] # pc[m] => m = n /\ pc'[m] \in {"skipped", "spawned"}
      BY <2>1, <2>3, <3>1 DEF ReadLine
    <3>3. UNCHANGED <<semQueue, outQueue>>
      BY <2>3 DEF ReadLine
    <3>4. QED
      BY <3>1, <3>2, <3>3 DEF MovesInOrder, Step, Writing
  <2>4. ASSUME NEW n \in Lines, JoinQueue(n) \/ Acquire(n) PROVE MovesInOrder
    <3>1. \A m \in Lines : pc'[m] # pc[m] => m = n
      BY <2>1, <2>4 DEF JoinQueue, Acquire
    <3>2. CASE JoinQueue(n)
      <4>1. pc[n] = "spawned" /\ pc'[n] = "queued" /\ semQueue' = Append(semQueue, n)
            /\ outQueue' = outQueue
        BY <2>1, <3>2 DEF JoinQueue
      <4>2. QED
        BY <3>1, <4>1 DEF MovesInOrder, Step, Writing
    <3>3. CASE Acquire(n)
      <4>1. pc[n] = "queued" /\ pc'[n] = "handling" /\ semQueue' = Tail(semQueue)
            /\ outQueue' = outQueue /\ Head(semQueue) = n /\ permits > 0
        BY <2>1, <3>3 DEF Acquire
      <4>2. QED
        BY <3>1, <4>1 DEF MovesInOrder, Step, Writing
    <3>4. QED
      BY <2>4, <3>2, <3>3
  <2>5. ASSUME NEW n \in Lines, HandleUnanswered(n) \/ HandleRequest(n) PROVE MovesInOrder
    <3>1. \A m \in Lines : pc'[m] # pc[m] => m = n
      BY <2>1, <2>5 DEF HandleUnanswered, HandleRequest
    <3>2. pc[n] = "handling" /\ pc'[n] \in {"done", "failed", "start"} /\ semQueue' = semQueue
          /\ (outQueue' = outQueue \/ outQueue' = Append(outQueue, n))
      BY <2>1, <2>5 DEF HandleUnanswered, HandleRequest
    <3>3. QED
      BY <3>1, <3>2 DEF MovesInOrder, Step, Writing
  <2>6. ASSUME NEW n \in Lines, WritePart(n) \/ WriteFails(n) \/ Flush(n) PROVE MovesInOrder
    <3>1. \A m \in Lines : pc'[m] # pc[m] => m = n
      BY <2>1, <2>6 DEF WritePart, WriteFails, Flush, Finish, HasStdout
    <3>2. /\ pc[n] \in Writing /\ Head(outQueue) = n /\ semQueue' = semQueue
          /\ outQueue' = outQueue \/ outQueue' = Tail(outQueue)
      BY <2>6 DEF WritePart, WriteFails, Flush, Finish, HasStdout
    <3>3. \/ pc[n] \in {"start", "rest", "newline"} /\ pc'[n] \in {After(pc[n]), "failed"}
          \/ pc[n] = "flush" /\ pc'[n] = "done"
      BY <2>1, <2>6 DEF WritePart, WriteFails, Flush, Finish, HasStdout, Writing
    <3>4. Step(pc'[n]) > Step(pc[n])
      BY <3>3 DEF Step, After
    <3>5. QED
      BY <3>1, <3>2, <3>4 DEF MovesInOrder, Writing
  <2>7. QED
    BY <1>1, <2>2, <2>3, <2>4, <2>5, <2>6 DEF Next, Task
<1>2. Inv /\ [Next]_vars => [MovesInOrder]_vars
  BY <1>1
<1>3. QED
  BY <1>2, Invariance, PTL DEF Spec
=============================================================================
