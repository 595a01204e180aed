------------------------ MODULE CommandOutputProofs ------------------------
(***************************************************************************)
(* The safety of command_output, for every limit, pipe and command.        *)
(***************************************************************************)
EXTENDS CommandOutput, TLAPS

(* What has been written is in the output or in the pipe, until a chunk     *)
(* beyond the limit is thrown away with the call.                           *)
Account ==
    \/ written = output + buffered
    \/ written > Limit /\ pc \in {"kill", "wait", "abandon", "done"} /\ result = Nothing

\* After end of file nobody is left who could write.
EofIsFinal == eof => writers = {} /\ buffered = 0

\* The loop is left by end of file or by a failing poll.
Leaving ==
    (pc \in {"close", "finish", "killLate", "waitLate", "answer"} \/ result # Nothing)
        => eof \/ pollFailed

\* The life of the child, and what the parent knows of it.
ChildLife ==
    /\ pc = "start" => child = "none"
    /\ pc \notin {"start", "done"} => child # "none"
    /\ pc \in {"abandon", "answer"} => child = "reaped"
    /\ child = "none" => writers = {} /\ ~eof
    /\ child \in {"none", "running"} => exit = "none"
    /\ child \in {"exiting", "zombie", "reaped"} => exit \in Ends
    /\ child = "reaped" => status = exit

\* Why the call gives up, and what it returns otherwise.
Reasons ==
    /\ pc \in {"kill", "wait", "abandon"} => expired \/ written > Limit
    /\ (pc = "done" /\ result = Nothing)
          => expired \/ written > Limit \/ pollFailed \/ exit # "ok" \/ (written = 0 /\ writers = {})
    /\ result # Nothing => pc = "done" /\ exit = "ok" /\ result = output /\ output > 0

IInv ==
    /\ TypeOK
    /\ Account
    /\ EofIsFinal
    /\ Leaving
    /\ ChildLife
    /\ NoChildLeft
    /\ Reasons
-----------------------------------------------------------------------------
LEMMA InitIInv == Init => IInv
<1> SUFFICES ASSUME Init PROVE IInv
  OBVIOUS
<1> USE SizesAssumption, NothingAssumption DEF Init
<1>1. TypeOK
  <2>1. output \in 0..Limit /\ buffered \in 0..Capacity /\ written \in 0..MaxWritten
    OBVIOUS
  <2>2. writers \subseteq {"child", "descendant"}
    BY Zenon
  <2>3. pc \in Phases /\ status \in Ends /\ exit \in Ends \cup {"none"}
    BY DEF Phases, Ends
  <2>4. child \in {"none", "running", "exiting", "zombie", "reaped"} /\ result \in Nat \cup {Nothing}
    OBVIOUS
  <2>5. eof \in BOOLEAN /\ open \in BOOLEAN /\ expired \in BOOLEAN /\ pollFailed \in BOOLEAN
    OBVIOUS
  <2> QED
    BY <2>1, <2>2, <2>3, <2>4, <2>5, Zenon DEF TypeOK
<1>2. Account
  BY DEF Account, Phases, Ends
<1>3. EofIsFinal
  BY DEF EofIsFinal, Phases, Ends
<1>4. Leaving
  BY DEF Leaving, Phases, Ends
<1>5. ChildLife
  BY DEF ChildLife, Phases, Ends
<1>6. NoChildLeft
  BY DEF NoChildLeft, Phases, Ends
<1>7. Reasons
  BY DEF Reasons, Phases, Ends
<1> QED
  BY <1>1, <1>2, <1>3, <1>4, <1>5, <1>6, <1>7 DEF IInv

\* The definitions every step needs.
LEMMA StepIInv == IInv /\ [Next]_vars => IInv'
<1> SUFFICES ASSUME IInv, [Next]_vars PROVE IInv'
  OBVIOUS
<1> USE SizesAssumption, NothingAssumption
    DEF IInv, TypeOK, Account, EofIsFinal, Leaving, ChildLife, NoChildLeft, Reasons,
        Phases, Ends, Goto, TryWait, Ending, call, command
<1>1. CASE Start
  <2>1. TypeOK'
    <3>1. pc' = "deadline" /\ child' = "running" /\ writers' = {"child"}
          /\ UNCHANGED <<output, eof, status, result, open, pollFailed, exit, buffered, written, expired>>
      BY <1>1 DEF Start
    <3>2. writers' \subseteq {"child", "descendant"}
      BY <3>1, Zenon
    <3> QED
      BY <3>1, <3>2
  <2>2. Account'
    BY <1>1 DEF Start
  <2>3. EofIsFinal'
    <3>1. ~eof /\ eof' = eof
      BY <1>1 DEF Start
    <3> QED
      BY <3>1
  <2>4. Leaving'
    BY <1>1 DEF Start
  <2>5. ChildLife'
    BY <1>1 DEF Start
  <2>6. NoChildLeft'
    BY <1>1 DEF Start
  <2>7. Reasons'
    BY <1>1 DEF Start
  <2> QED
    BY <2>1, <2>2, <2>3, <2>4, <2>5, <2>6, <2>7
<1>2. CASE StartFails
  BY <1>2 DEF StartFails
<1>3. CASE CheckDeadline
  BY <1>3 DEF CheckDeadline
<1>4. CASE Poll
  BY <1>4 DEF Poll, Ready
<1>5. CASE PollInterrupted
  BY <1>5 DEF PollInterrupted
<1>6. CASE PollFails
  BY <1>6 DEF PollFails
<1>7. CASE Read
  BY <1>7 DEF Read
<1>8. CASE ReadNothing
  BY <1>8 DEF ReadNothing
<1>9. CASE Reap
  BY <1>9 DEF Reap
<1>10. CASE Close
  BY <1>10 DEF Close
<1>11. CASE Finish
  BY <1>11 DEF Finish
<1>12. CASE Kill
  <2>1. TypeOK'
    BY <1>12 DEF Kill
  <2>2. Account'
    BY <1>12 DEF Kill
  <2>3. EofIsFinal'
    BY <1>12 DEF Kill
  <2>4. Leaving'
    BY <1>12 DEF Kill
  <2>5. ChildLife'
    BY <1>12 DEF Kill
  <2>6. NoChildLeft'
    BY <1>12 DEF Kill
  <2>7. Reasons'
    BY <1>12 DEF Kill
  <2> QED
    BY <2>1, <2>2, <2>3, <2>4, <2>5, <2>6, <2>7
<1>13. CASE Wait
  BY <1>13 DEF Wait
<1>14. CASE Abandon
  BY <1>14 DEF Abandon
<1>15. CASE Answer
  BY <1>15 DEF Answer
<1>16. CASE Write
  <2>1. TypeOK'
    BY <1>16 DEF Write
  <2>2. Account'
    BY <1>16 DEF Write
  <2>3. EofIsFinal'
    BY <1>16 DEF Write
  <2>4. Leaving'
    BY <1>16 DEF Write
  <2>5. ChildLife'
    BY <1>16 DEF Write
  <2>6. NoChildLeft'
    BY <1>16 DEF Write
  <2>7. Reasons'
    <3>1. writers # {} /\ written' > written /\ UNCHANGED <<pc, result, expired, pollFailed, exit, output>>
      BY <1>16 DEF Write
    <3>2. pc \in {"kill", "wait", "abandon"} => expired \/ written > Limit
      OBVIOUS
    <3>3. (pc = "done" /\ result = Nothing)
            => expired \/ written > Limit \/ pollFailed \/ exit # "ok"
      BY <3>1
    <3>4. written > Limit => written' > Limit
      <4>1. written' \in 0..MaxWritten /\ written \in 0..MaxWritten
        BY <2>1
      <4> QED
        BY <4>1, <3>1
    <3> QED
      BY <3>1, <3>2, <3>3, <3>4
  <2> QED
    BY <2>1, <2>2, <2>3, <2>4, <2>5, <2>6, <2>7
<1>17. CASE Exit
  <2>1. TypeOK'
    BY <1>17 DEF Exit
  <2>2. Account'
    BY <1>17 DEF Exit
  <2>3. EofIsFinal'
    BY <1>17 DEF Exit
  <2>4. Leaving'
    BY <1>17 DEF Exit
  <2>5. ChildLife'
    BY <1>17 DEF Exit
  <2>6. NoChildLeft'
    BY <1>17 DEF Exit
  <2>7. Reasons'
    BY <1>17 DEF Exit
  <2> QED
    BY <2>1, <2>2, <2>3, <2>4, <2>5, <2>6, <2>7
<1>18. CASE CloseOutput
  <2>1. TypeOK'
    <3>1. writers' \subseteq {"child", "descendant"} /\ UNCHANGED <<call, child, exit, buffered, written, expired>>
      BY <1>18 DEF CloseOutput
    <3> QED
      BY <3>1
  <2>2. Account'
    BY <1>18 DEF CloseOutput
  <2>3. EofIsFinal'
    BY <1>18 DEF CloseOutput
  <2>4. Leaving'
    BY <1>18 DEF CloseOutput
  <2>5. ChildLife'
    BY <1>18 DEF CloseOutput
  <2>6. NoChildLeft'
    BY <1>18 DEF CloseOutput
  <2>7. Reasons'
    BY <1>18 DEF CloseOutput
  <2> QED
    BY <2>1, <2>2, <2>3, <2>4, <2>5, <2>6, <2>7
<1>19. CASE Fork
  BY <1>19 DEF Fork
<1>20. CASE Die
  BY <1>20 DEF Die
<1>21. CASE Expire
  BY <1>21 DEF Expire
<1>22. CASE UNCHANGED vars
  BY <1>22 DEF vars
<1> QED
  BY <1>1, <1>2, <1>3, <1>4, <1>5, <1>6, <1>7, <1>8, <1>9, <1>10, <1>11, <1>12, <1>13, <1>14, <1>15, <1>16, <1>17, <1>18, <1>19, <1>20, <1>21, <1>22
  DEF Next, Parent, Disturbance, Command

LEMMA Inductive == Spec => []IInv
<1>1. Init => IInv
  BY InitIInv
<1>2. IInv /\ [Next]_vars => IInv'
  BY StepIInv
<1> QED
  BY <1>1, <1>2, PTL DEF Spec

(* TypeOK holds in every state.                                             *)
THEOREM TypeCorrect == Spec => []TypeOK
<1>1. IInv => TypeOK
  BY DEF IInv
<1> QED
  BY <1>1, Inductive, PTL

(* NoChildLeft: whatever path command_output takes, and whenever the child   *)
(* exits on it, the child has been reaped when the call returns.             *)
THEOREM ChildrenAreReaped == Spec => []NoChildLeft
<1>1. IInv => NoChildLeft
  BY DEF IInv
<1> QED
  BY <1>1, Inductive, PTL

(* OnlyWholeOutput: what is returned is all that was written, by a command   *)
(* that succeeded, unless poll failed.                                       *)
THEOREM OutputIsWhole == Spec => []OnlyWholeOutput
<1>1. IInv => OnlyWholeOutput
  <2> SUFFICES ASSUME IInv, result # Nothing PROVE OnlyWholeOutput
    BY DEF OnlyWholeOutput
  <2>1. result = output /\ output > 0 /\ exit = "ok" /\ (eof \/ pollFailed)
    BY DEF IInv, Reasons, Leaving
  <2>2. output \in 0..Limit /\ buffered \in 0..Capacity /\ written = output + buffered
    BY DEF IInv, TypeOK, Account
  <2>3. result \in 1..Limit
    BY <2>1, <2>2, SizesAssumption
  <2>4. eof => result = written /\ writers = {}
    BY <2>1, <2>2 DEF IInv, EofIsFinal
  <2> QED
    BY <2>1, <2>3, <2>4 DEF OnlyWholeOutput
<1> QED
  BY <1>1, Inductive, PTL

(* NoGoodOutputLost: a command that succeeded in time and within the limit   *)
(* gets its output to the caller.                                            *)
THEOREM GoodOutputIsReturned == Spec => []NoGoodOutputLost
<1>1. IInv => NoGoodOutputLost
  <2> SUFFICES ASSUME IInv, pc = "done", exit = "ok", written \in 1..Limit, ~expired, ~pollFailed
               PROVE result = written
    BY DEF NoGoodOutputLost
  <2>1. ~(written > Limit) /\ written # 0
    BY SizesAssumption
  <2>2. result # Nothing
    BY <2>1 DEF IInv, Reasons
  <2>3. eof /\ result = output
    BY <2>2 DEF IInv, Leaving, Reasons
  <2>4. buffered = 0 /\ written = output + buffered /\ output \in 0..Limit
    BY <2>1, <2>3 DEF IInv, EofIsFinal, Account, TypeOK
  <2> QED
    BY <2>3, <2>4, SizesAssumption
<1> QED
  BY <1>1, Inductive, PTL
=============================================================================
