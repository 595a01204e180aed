--------------------------- MODULE CommandOutput ---------------------------
(***************************************************************************)
(* command_output of the Drive plugin: a shell command is started, its     *)
(* output is read through a pipe that does not block, up to a limit and    *)
(* until a deadline, and the child is reaped.  The caller gets the output  *)
(* or nothing.  Output is counted in chunks; the command is arbitrary: it  *)
(* writes, closes its output, starts descendants that inherit the pipe,    *)
(* and exits, all at any moment.                                           *)
(***************************************************************************)
EXTENDS Integers

CONSTANTS Limit,       \* chunks the caller accepts (parameter `limit')
          Capacity,    \* chunks the pipe holds
          MaxWritten,  \* bound: chunks the command ever writes
          Nothing      \* std::nullopt

ASSUME SizesAssumption ==
    /\ Limit \in Nat
    /\ Capacity \in Nat \ {0}
    /\ MaxWritten \in Nat
ASSUME NothingAssumption == Nothing \notin Nat

VARIABLES
    pc,        \* where the call is
    output,    \* chunks appended to `output'
    eof,       \* the local `eof'
    status,    \* the local `status', 0 (a success) until waitpid sets it
    result,    \* what the call returned
    open,      \* the parent's end of the pipe is open
    child,     \* the process `child'
    exit,      \* how the child ended
    writers,   \* who holds the writing end
    buffered,  \* chunks in the pipe
    written,   \* chunks ever written
    expired,   \* the deadline has passed
    pollFailed \* history: poll failed (line 75)

call == <<pc, output, eof, status, result, open, pollFailed>>
command == <<child, exit, writers, buffered, written>>
vars == <<call, command, expired>>

Phases == {"start", "deadline", "poll", "read", "reap", "close", "finish", "kill",
           "wait", "abandon", "killLate", "waitLate", "answer", "done"}
Ends == {"ok", "fail", "signal"}

TypeOK ==
    /\ pc \in Phases
    /\ output \in 0..Limit
    /\ eof \in BOOLEAN /\ open \in BOOLEAN /\ expired \in BOOLEAN /\ pollFailed \in BOOLEAN
    /\ status \in Ends
    /\ result \in Nat \cup {Nothing}
    /\ child \in {"none", "running", "exiting", "zombie", "reaped"}
    /\ exit \in Ends \cup {"none"}
    /\ writers \subseteq {"child", "descendant"}
    /\ buffered \in 0..Capacity
    /\ written \in 0..MaxWritten

Init ==
    /\ pc = "start"
    /\ output = 0 /\ eof = FALSE /\ status = "ok" /\ result = Nothing
    /\ open = TRUE /\ pollFailed = FALSE
    /\ child = "none" /\ exit = "none" /\ writers = {}
    /\ buffered = 0 /\ written = 0 /\ expired = FALSE
-----------------------------------------------------------------------------
(* The parent.                                                             *)

Goto(phase) ==
    /\ pc' = phase
    /\ UNCHANGED <<output, eof, status, result, open, pollFailed>>

Start ==
    /\ pc = "start"
    /\ Goto("deadline")
    /\ child' = "running" /\ writers' = {"child"}
    /\ UNCHANGED <<exit, buffered, written, expired>>

\* There is no pipe, or no process.
StartFails ==
    /\ pc = "start"
    /\ Goto("done")
    /\ UNCHANGED <<command, expired>>

CheckDeadline ==
    /\ pc = "deadline"
    /\ Goto(IF expired THEN "kill" ELSE "poll")
    /\ UNCHANGED <<command, expired>>

Ready == buffered > 0 \/ writers = {}

\* Variant: poll waits without a timeout.
PollForever ==
    /\ pc = "poll"
    /\ Ready /\ Goto("read")
    /\ UNCHANGED <<command, expired>>

Poll ==
    /\ pc = "poll"
    /\ \/ Ready /\ Goto("read")
       \/ ~Ready /\ expired /\ Goto("reap")
    /\ UNCHANGED <<command, expired>>

\* EINTR: the loop goes on without reading.
PollInterrupted ==
    /\ pc = "poll"
    /\ Goto("reap")
    /\ UNCHANGED <<command, expired>>

\* Any other error leaves the loop with what has been read.
PollFails ==
    /\ pc = "poll"
    /\ pc' = "close" /\ pollFailed' = TRUE
    /\ UNCHANGED <<output, eof, status, result, open, command, expired>>

Read ==
    /\ pc = "read"
    /\ \E n \in 1..buffered :
          /\ buffered' = buffered - n
          /\ IF output + n > Limit
               THEN Goto("kill")
               ELSE /\ output' = output + n
                    /\ UNCHANGED <<pc, eof, status, result, open, pollFailed>>
    /\ UNCHANGED <<child, exit, writers, written, expired>>

\* Variant: End of file is taken for granted once the pipe is empty.
ReadNothingMore ==
    /\ pc = "read"
    /\ buffered = 0
    /\ pc' = "reap" /\ eof' = TRUE
    /\ UNCHANGED <<output, status, result, open, pollFailed, command, expired>>

\* read returns 0 when nobody can write any more, and EAGAIN otherwise.
ReadNothing ==
    /\ pc = "read"
    /\ buffered = 0
    /\ pc' = "reap" /\ eof' = (writers = {})
    /\ UNCHANGED <<output, status, result, open, pollFailed, command, expired>>

\* waitpid with WNOHANG: takes the status of a zombie, fails on a reaped child.
TryWait ==
    /\ child' = IF child = "zombie" THEN "reaped" ELSE child
    /\ status' = IF child = "zombie" THEN exit ELSE status
    /\ UNCHANGED <<output, eof, result, open, pollFailed, exit, writers, buffered, written, expired>>

Reap ==
    /\ pc = "reap"
    /\ pc' = IF eof THEN "close" ELSE "deadline"
    /\ TryWait

Close ==
    /\ pc = "close"
    /\ pc' = "finish" /\ open' = FALSE
    /\ UNCHANGED <<output, eof, status, result, pollFailed, command, expired>>

\* Variant: A child the loop has reaped is taken for one that failed.
FinishOnce ==
    /\ pc = "finish"
    /\ pc' = IF child \in {"running", "exiting"} THEN "killLate" ELSE "answer"
    /\ child' = IF child = "zombie" THEN "reaped" ELSE child
    /\ status' = IF child = "zombie" THEN exit ELSE "fail"
    /\ UNCHANGED <<output, eof, result, open, pollFailed, exit, writers, buffered, written, expired>>

Finish ==
    /\ pc = "finish"
    /\ pc' = IF child \in {"running", "exiting"} THEN "killLate" ELSE "answer"
    /\ TryWait

\* SIGKILL; a process that is exiting keeps its status, and a signal to a
\* process that was reaped goes to nobody, or to whoever has its number now.
Kill ==
    /\ \/ pc = "kill" /\ Goto("wait")
       \/ pc = "killLate" /\ Goto("waitLate")
    /\ IF child = "running"
         THEN child' = "exiting" /\ exit' = "signal" /\ writers' = writers \ {"child"}
         ELSE UNCHANGED <<child, exit, writers>>
    /\ UNCHANGED <<buffered, written, expired>>

\* Variant: The deadline branch kills without waiting.
WaitNot ==
    /\ \/ pc = "wait" /\ pc' = "abandon"
       \/ pc = "waitLate" /\ pc' = "answer"
    /\ TryWait

\* waitpid without WNOHANG blocks until the child is a zombie.
Wait ==
    /\ child \in {"zombie", "reaped"}
    /\ \/ pc = "wait" /\ pc' = "abandon"
       \/ pc = "waitLate" /\ pc' = "answer"
    /\ TryWait

Abandon ==
    /\ pc = "abandon"
    /\ pc' = "done" /\ open' = FALSE
    /\ UNCHANGED <<output, eof, status, result, pollFailed, command, expired>>

Answer ==
    /\ pc = "answer"
    /\ pc' = "done"
    /\ result' = IF status = "ok" /\ output > 0 THEN output ELSE Nothing
    /\ UNCHANGED <<output, eof, status, open, pollFailed, command, expired>>

Parent ==
    \/ Start \/ CheckDeadline \/ Poll \/ Read \/ ReadNothing \/ Reap
    \/ Close \/ Finish \/ Kill \/ Wait \/ Abandon \/ Answer

Disturbance == StartFails \/ PollInterrupted \/ PollFails
-----------------------------------------------------------------------------
(* The command, and time.                                                  *)

Write ==
    /\ writers # {}
    /\ open
    /\ buffered < Capacity /\ written < MaxWritten
    /\ buffered' = buffered + 1 /\ written' = written + 1
    /\ UNCHANGED <<call, child, exit, writers, expired>>

Ending(how) ==
    /\ child = "running"
    /\ child' = "exiting" /\ exit' = how /\ writers' = writers \ {"child"}

\* Exiting, or SIGPIPE once nobody reads.
Exit ==
    /\ \/ \E how \in {"ok", "fail"} : Ending(how)
       \/ ~open /\ "child" \in writers /\ Ending("signal")
    /\ UNCHANGED <<call, buffered, written, expired>>

CloseOutput ==
    /\ \/ child = "running" /\ "child" \in writers /\ writers' = writers \ {"child"}
       \/ "descendant" \in writers /\ writers' = writers \ {"descendant"}
    /\ UNCHANGED <<call, child, exit, buffered, written, expired>>

Fork ==
    /\ child = "running" /\ "child" \in writers
    /\ writers' = writers \cup {"descendant"}
    /\ UNCHANGED <<call, child, exit, buffered, written, expired>>

\* The descriptors of a process are closed before its parent can reap it.
Die ==
    /\ child = "exiting"
    /\ child' = "zombie"
    /\ UNCHANGED <<call, exit, writers, buffered, written, expired>>

Expire ==
    /\ pc \notin {"start", "done"} /\ ~expired
    /\ expired' = TRUE
    /\ UNCHANGED <<call, command>>

Command == Write \/ Exit \/ CloseOutput \/ Fork \/ Die

Next == Parent \/ Disturbance \/ Command \/ Expire

\* The parent runs, time passes, and a process that is exiting gets there; the
\* command need not do anything.
Fairness == WF_vars(Parent) /\ WF_vars(Die) /\ WF_vars(Expire)

Spec == Init /\ [][Next]_vars /\ Fairness
-----------------------------------------------------------------------------
(* What the call promises.                                                 *)

\* Whatever path the call takes, it leaves no zombie and no child running.
NoChildLeft == pc = "done" => child \in {"none", "reaped"}

\* A result is the complete output, to the last writer, of a command that
\* succeeded, and within the limit.  Only a failing poll lets a part through.
OnlyWholeOutput ==
    result # Nothing =>
        /\ exit = "ok"
        /\ result \in 1..Limit
        /\ pollFailed \/ (result = written /\ writers = {})

\* The output of a command that succeeded in time, within the limit and with
\* the deadline ahead is never lost, in whatever order its end of file, its
\* exit and its reaping are seen.
NoGoodOutputLost ==
    (pc = "done" /\ exit = "ok" /\ written \in 1..Limit /\ ~expired /\ ~pollFailed)
        => result = written

\* The call returns whatever the command does: it may block, write for ever or
\* leave descendants that hold the pipe.
CallEnds == <>(pc = "done")
=============================================================================
