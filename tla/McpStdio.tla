------------------------------ MODULE McpStdio ------------------------------
(***************************************************************************)
(* McpGateway::run_stdio (src/src/gateway/mcp.rs): a read loop that spawns *)
(* a task per line, a FIFO semaphore the tasks wait on, and a stdout they  *)
(* share behind a FIFO mutex and write to in several calls.                *)
(*                                                                         *)
(* The process leaves as soon as the loop does, and its tasks with it.     *)
(***************************************************************************)
EXTENDS Naturals, Sequences, FiniteSets

CONSTANTS
    Kind,     \* what the client writes, line by line (see Kinds)
    Hanging,  \* lines whose handler may never return (a silent Redis)
    Permits   \* Semaphore::new(32)

\* "blank" lines are skipped.  "silent" ones are handled without an answer:
\* notifications, and notifications/initialized.  "request" stands for the
\* ones that are answered: requests, and text that is not JSON-RPC.
Kinds == {"blank", "silent", "request"}

Lines == 1..Len(Kind)

ASSUME StdioAssumption ==
    /\ Kind \in Seq(Kinds)
    /\ Hanging \subseteq Lines
    /\ Permits \in Nat \ {0}

VARIABLES
    sent,      \* how many lines the client has written
    read,      \* how many the loop has read
    exit,      \* "no", or why the loop ended
    pc,        \* where the task of each line stands
    semQueue,  \* tasks that wait for a permit, first come first served
    permits,   \* permits left
    outQueue,  \* the task that has stdout, then those that wait for it
    out        \* what stdout received: parts of answers, in order

vars == <<sent, read, exit, pc, semQueue, permits, outQueue, out>>

-----------------------------------------------------------------------------
\* One answer: two writes or more for the JSON text, then the line feed.
Parts == <<"start", "rest", "newline">>
Part(l, p) == [line |-> l, part |-> p]

Writing == {"start", "rest", "newline", "flush"}
InFlight == Writing \cup {"handling"}      \* the task has a permit
Live == InFlight \cup {"spawned", "queued"}
Pc == Live \cup {"none", "skipped", "done", "failed"}

Tasks == {l \in Lines : pc[l] \in Live}
Holders == {l \in Lines : pc[l] \in InFlight}

HasStdout(l) == pc[l] \in Writing /\ Head(outQueue) = l

After(p) == CASE p = "start" -> "rest"
              [] p = "rest" -> "newline"
              [] p = "newline" -> "flush"

-----------------------------------------------------------------------------
(* The client and the read loop                                            *)

Send ==
    /\ exit = "no" /\ sent < Len(Kind)
    /\ sent' = sent + 1
    /\ UNCHANGED <<read, exit, pc, semQueue, permits, outQueue, out>>

\* Bug: each line is handled in the loop before the next is read.
Bug_ReadWhenIdle ==
    /\ exit = "no"
    /\ Tasks = {}
    /\ read < sent
    /\ read' = read + 1
    /\ pc' = [pc EXCEPT ![read'] =
          IF Kind[read'] = "blank" THEN "skipped" ELSE "spawned"]
    /\ UNCHANGED <<sent, exit, semQueue, permits, outQueue, out>>

ReadLine ==
    /\ exit = "no"
    /\ read < sent
    /\ read' = read + 1
    /\ pc' = [pc EXCEPT ![read'] =
          IF Kind[read'] = "blank" THEN "skipped" ELSE "spawned"]
    /\ UNCHANGED <<sent, exit, semQueue, permits, outQueue, out>>

\* read_line returns 0 once everything sent is read, or an error at any time
\* (bytes that are not UTF-8, a broken pipe).
StdinEnds ==
    /\ exit = "no"
    /\ \/ read = sent /\ exit' = "eof"
       \/ exit' = "error"
    /\ UNCHANGED <<sent, read, pc, semQueue, permits, outQueue, out>>

-----------------------------------------------------------------------------
(* A task                                                                  *)

Running(l) == exit = "no" /\ pc[l] \in Live

\* The first poll of acquire_owned.
JoinQueue(l) ==
    /\ Running(l) /\ pc[l] = "spawned"
    /\ pc' = [pc EXCEPT ![l] = "queued"]
    /\ semQueue' = Append(semQueue, l)
    /\ UNCHANGED <<sent, read, exit, permits, outQueue, out>>

\* Bug: the permit count is not looked at.
Bug_AcquireAnyway(l) ==
    /\ Running(l) /\ pc[l] = "queued"
    /\ Head(semQueue) = l
    /\ pc' = [pc EXCEPT ![l] = "handling"]
    /\ semQueue' = Tail(semQueue)
    /\ permits' = IF permits > 0 THEN permits - 1 ELSE 0
    /\ UNCHANGED <<sent, read, exit, outQueue, out>>

Acquire(l) ==
    /\ Running(l) /\ pc[l] = "queued"
    /\ Head(semQueue) = l /\ permits > 0
    /\ pc' = [pc EXCEPT ![l] = "handling"]
    /\ semQueue' = Tail(semQueue)
    /\ permits' = permits - 1
    /\ UNCHANGED <<sent, read, exit, outQueue, out>>

\* handle_message returns None, or a response that cannot be serialized, which
\* is only logged: either way the task is over.
HandleUnanswered(l) ==
    /\ Running(l) /\ pc[l] = "handling"
    /\ pc' = [pc EXCEPT ![l] = IF Kind[l] = "request" THEN "failed" ELSE "done"]
    /\ permits' = permits + 1
    /\ UNCHANGED <<sent, read, exit, semQueue, outQueue, out>>

\* handle_message returns a response, and the task asks for stdout.
HandleRequest(l) ==
    /\ Running(l) /\ pc[l] = "handling"
    /\ Kind[l] = "request"
    /\ pc' = [pc EXCEPT ![l] = "start"]
    /\ outQueue' = Append(outQueue, l)
    /\ UNCHANGED <<sent, read, exit, semQueue, permits, out>>

\* Bug: stdout is not locked around the writes.
Bug_WriteUnlocked(l) ==
    /\ Running(l) /\ pc[l] \in Writing \ {"flush"}
    /\ out' = Append(out, Part(l, pc[l]))
    /\ pc' = [pc EXCEPT ![l] = After(pc[l])]
    /\ UNCHANGED <<sent, read, exit, semQueue, permits, outQueue>>

WritePart(l) ==
    /\ Running(l) /\ HasStdout(l) /\ pc[l] # "flush"
    /\ out' = Append(out, Part(l, pc[l]))
    /\ pc' = [pc EXCEPT ![l] = After(pc[l])]
    /\ UNCHANGED <<sent, read, exit, semQueue, permits, outQueue>>

\* Bug: a failed write leaves the lock taken.
Bug_ReturnLocked(l, how) ==
    /\ pc' = [pc EXCEPT ![l] = how]
    /\ outQueue' = IF how = "failed" THEN outQueue ELSE Tail(outQueue)
    /\ permits' = permits + 1

\* Return: the guard and the permit are dropped.
Finish(l, how) ==
    /\ pc' = [pc EXCEPT ![l] = how]
    /\ outQueue' = Tail(outQueue)
    /\ permits' = permits + 1

WriteFails(l) ==
    /\ Running(l) /\ HasStdout(l) /\ pc[l] # "flush"
    /\ Finish(l, "failed")
    /\ UNCHANGED <<sent, read, exit, semQueue, out>>

\* flush, whose failure is only logged.
Flush(l) ==
    /\ Running(l) /\ HasStdout(l) /\ pc[l] = "flush"
    /\ Finish(l, "done")
    /\ UNCHANGED <<sent, read, exit, semQueue, out>>

-----------------------------------------------------------------------------
Init ==
    /\ sent = 0
    /\ read = 0
    /\ exit = "no"
    /\ pc = [l \in Lines |-> "none"]
    /\ semQueue = <<>>
    /\ permits = Permits
    /\ outQueue = <<>>
    /\ out = <<>>

Task(l) ==
    \/ JoinQueue(l) \/ Acquire(l) \/ HandleUnanswered(l) \/ HandleRequest(l)
    \/ WritePart(l) \/ WriteFails(l) \/ Flush(l)

Next == Send \/ ReadLine \/ StdinEnds \/ \E l \in Lines : Task(l)

(* Tasks are polled, the client drains its end of the pipe, handlers other *)
(* than the hanging ones return.  The client need not write, and writes    *)
(* need not fail.                                                          *)
Fairness ==
    /\ WF_vars(ReadLine)
    /\ \A l \in Lines :
          /\ WF_vars(JoinQueue(l) \/ Acquire(l))
          /\ WF_vars(WritePart(l) \/ Flush(l))
    /\ \A l \in Lines \ Hanging : WF_vars(HandleUnanswered(l) \/ HandleRequest(l))

Spec == Init /\ [][Next]_vars /\ Fairness

-----------------------------------------------------------------------------
(* Properties                                                              *)

\* Types; the queues hold each waiting task once (mcp.rs:176, 198-206, 222).
TypeOK ==
    /\ sent \in 0..Len(Kind) /\ read \in 0..sent
    /\ exit \in {"no", "eof", "error"}
    /\ pc \in [Lines -> Pc]
    /\ permits \in 0..Permits
    /\ semQueue \in Seq(Lines)
    /\ Len(semQueue) = Cardinality({l \in Lines : pc[l] = "queued"})
    /\ outQueue \in Seq(Lines)
    /\ Len(outQueue) = Cardinality({l \in Lines : pc[l] \in Writing})
    /\ out \in Seq([line : Lines, part : {"start", "rest", "newline"}])

\* At most 32 messages are processed, or hold a finished answer, at a time:
\* the permit is given back on every way out of a task (mcp.rs:199-206).
InFlightBounded == permits + Cardinality(Holders) = Permits

\* A client that reads one JSON value per line never sees two answers mixed:
\* what follows a part of an answer is the next part of it, unless that
\* answer's write failed (mcp.rs:166-169, 222-234).
AnswersNotInterleaved ==
    \A i \in 1..Len(out) :
        \/ out[i].part = "newline"
        \/ IF i = Len(out)
           THEN pc[out[i].line] \in Writing \cup {"failed"}
           ELSE \/ out[i + 1] = Part(out[i].line, After(out[i].part))
                \/ pc[out[i].line] = "failed"

Answered(l) == \E i \in 1..Len(out) : out[i] = Part(l, "newline")

\* A slow call blocks neither the read loop nor the others: as long as fewer
\* than 32 handlers hang, every other request is answered, unless the loop
\* ends or its answer can be neither serialized nor written (mcp.rs:149-154).
SlowCallsBlockNobody ==
    Cardinality(Hanging) < Permits =>
        \A l \in Lines \ Hanging :
            sent >= l /\ Kind[l] = "request"
                ~> Answered(l) \/ pc[l] = "failed" \/ exit # "no"
=============================================================================
