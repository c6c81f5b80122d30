--------------------------- MODULE SshClientProofs ---------------------------
(***************************************************************************)
(* What holds of SshClient for every set of host keys, every queue, budget *)
(* and reply buffer, and whether or not a disconnect may have to kill the  *)
(* read task. IInv is inductive; the proof takes its type part and its     *)
(* state part apart, task by task.                                         *)
(***************************************************************************)
EXTENDS SshClient, TLAPS

USE ConstAssumption DEF ConstAssumption

-----------------------------------------------------------------------------
(* Moving one task to a point of its own program keeps every pc in place.  *)
LEMMA WorkerGoto ==
  ASSUME PcOK, NEW l \in WorkerLabels \union CloseLabels, Goto("worker", l)
  PROVE  PcOK'
<1>1. l \in Labels
  BY DEF Labels
<1>2. QED
  BY <1>1 DEF PcOK, Goto, Tasks

LEMMA ReadGoto ==
  ASSUME PcOK, NEW l \in ReadLabels, Goto("read", l)
  PROVE  PcOK'
<1>1. l \in Labels
  BY DEF Labels
<1>2. QED
  BY <1>1 DEF PcOK, Goto, Tasks

LEMMA ShellGoto ==
  ASSUME PcOK, NEW l \in ShellLabels \union CloseLabels, Goto("shell", l)
  PROVE  PcOK'
<1>1. l \in Labels
  BY DEF Labels
<1>2. QED
  BY <1>1 DEF PcOK, Goto, Tasks

LEMMA BothGoto ==
  ASSUME PcOK, NEW t \in {"shell", "worker"}, NEW u \in {"worker", "read"}, t # u,
         NEW l, NEW m,
         t = "shell"  => l \in ShellLabels \union CloseLabels,
         t = "worker" => l \in WorkerLabels \union CloseLabels,
         u = "worker" => m \in WorkerLabels \union CloseLabels,
         u = "read"   => m \in ReadLabels,
         pc' = [pc EXCEPT ![t] = l, ![u] = m]
  PROVE  PcOK'
<1>1. l \in Labels /\ m \in Labels
  BY DEF Labels
<1>2. QED
  BY <1>1 DEF PcOK, Tasks

(* A step of the worker keeps the control state well typed.                *)
LEMMA WorkerPc ==
  ASSUME PcOK, WorkerStep
  PROVE  PcOK'
<1> USE DEF WorkerLabels, CloseLabels
<1>1. CASE WorkerBegin
  BY <1>1, WorkerGoto DEF WorkerBegin, BeginClose
<1>2. CASE PollDone("worker")
  BY <1>2, WorkerGoto DEF PollDone
<1>3. CASE PollTimeout("worker")
  BY <1>3, WorkerGoto DEF PollTimeout
<1>4. CASE ForceDelete("worker")
  <2>1. CASE readTask
    BY <1>4, <2>1, BothGoto DEF ForceDelete, ReadLabels
  <2>2. CASE ~readTask
    BY <1>4, <2>2, WorkerGoto DEF ForceDelete
  <2>3. QED
    BY <2>1, <2>2
<1>5. CASE FinishClose("worker", "resolve")
  BY <1>5, WorkerGoto DEF FinishClose
<1>6. CASE Resolve
  BY <1>6, WorkerGoto DEF Resolve
<1>7. CASE TcpConnect
  BY <1>7, WorkerGoto DEF TcpConnect, GiveUp
<1>8. CASE Handshake
  BY <1>8, WorkerGoto DEF Handshake, GiveUp
<1>9. CASE Authenticate
  BY <1>9, WorkerGoto DEF Authenticate, GiveUp
<1>10. CASE OpenShell
  BY <1>10, WorkerGoto DEF OpenShell, GiveUp
<1>11. CASE Spawn
  <2>1. CASE Goto("worker", "store")
    BY <2>1, WorkerGoto
  <2>2. CASE pc' = [pc EXCEPT !["worker"] = "assign", !["read"] = "check"]
    BY <2>2, BothGoto DEF ReadLabels
  <2>3. QED
    BY <1>11, <2>1, <2>2 DEF Spawn
<1>12. CASE Assign
  BY <1>12, WorkerGoto DEF Assign
<1>13. CASE StoreResult
  BY <1>13, WorkerGoto DEF StoreResult
<1>14. CASE Publish
  BY <1>14, WorkerGoto DEF Publish
<1>15. QED
  BY <1>1, <1>2, <1>3, <1>4, <1>5, <1>6, <1>7, <1>8, <1>9, <1>10, <1>11, <1>12, <1>13,
     <1>14 DEF WorkerStep, Close

(* A step of the worker keeps every other variable in its range.           *)
LEMMA WorkerRange ==
  ASSUME RangeOK, WorkerStep
  PROVE  RangeOK'
<1> USE DEF RangeOK, Results, Failures, others, attempt, flags, reader, line
<1>0. ASSUME NEW r \in Results, GiveUp(r), fp' \in Keys \union {NoKey}
      PROVE  RangeOK'
  BY <1>0 DEF GiveUp, Cleanup
<1>1. CASE WorkerBegin
  BY <1>1 DEF WorkerBegin, BeginClose
<1>2. CASE PollDone("worker")
  BY <1>2 DEF PollDone
<1>3. CASE PollTimeout("worker")
  BY <1>3 DEF PollTimeout
<1>4. CASE ForceDelete("worker")
  BY <1>4 DEF ForceDelete
<1>5. CASE FinishClose("worker", "resolve")
  BY <1>5 DEF FinishClose, Cleanup
<1>6. CASE Resolve
  BY <1>6 DEF Resolve
<1>7. CASE TcpConnect
  BY <1>0, <1>7 DEF TcpConnect
<1>8. CASE Handshake
  BY <1>0, <1>8 DEF Handshake
<1>9. CASE Authenticate
  BY <1>0, <1>9 DEF Authenticate
<1>10. CASE OpenShell
  BY <1>0, <1>10 DEF OpenShell
<1>11. CASE Spawn
  BY <1>11 DEF Spawn, Cleanup
<1>12. CASE Assign
  BY <1>12 DEF Assign
<1>13. CASE StoreResult
  BY <1>13 DEF StoreResult
<1>14. CASE Publish
  BY <1>14 DEF Publish
<1>15. QED
  BY <1>1, <1>2, <1>3, <1>4, <1>5, <1>6, <1>7, <1>8, <1>9, <1>10, <1>11, <1>12, <1>13,
     <1>14 DEF WorkerStep, Close
LEMMA WorkerFlags ==
  ASSUME FlagOK, WorkerStep
  PROVE  FlagOK'
<1> USE DEF FlagOK, others, attempt, flags, reader, line
<1>0. ASSUME NEW r, GiveUp(r)
      PROVE  FlagOK'
  BY <1>0 DEF GiveUp, Cleanup
<1>1. CASE WorkerBegin
  BY <1>1 DEF WorkerBegin, BeginClose
<1>2. CASE PollDone("worker")
  BY <1>2 DEF PollDone
<1>3. CASE PollTimeout("worker")
  BY <1>3 DEF PollTimeout
<1>4. CASE ForceDelete("worker")
  BY <1>4 DEF ForceDelete
<1>5. CASE FinishClose("worker", "resolve")
  BY <1>5 DEF FinishClose, Cleanup
<1>6. CASE Resolve
  BY <1>6 DEF Resolve
<1>7. CASE TcpConnect
  BY <1>0, <1>7 DEF TcpConnect
<1>8. CASE Handshake
  BY <1>0, <1>8 DEF Handshake
<1>9. CASE Authenticate
  BY <1>0, <1>9 DEF Authenticate
<1>10. CASE OpenShell
  BY <1>0, <1>10 DEF OpenShell
<1>11. CASE Spawn
  BY <1>11 DEF Spawn, Cleanup
<1>12. CASE Assign
  BY <1>12 DEF Assign
<1>13. CASE StoreResult
  BY <1>13 DEF StoreResult
<1>14. CASE Publish
  BY <1>14 DEF Publish
<1>15. QED
  BY <1>1, <1>2, <1>3, <1>4, <1>5, <1>6, <1>7, <1>8, <1>9, <1>10, <1>11, <1>12, <1>13,
     <1>14 DEF WorkerStep, Close

(* The state part for the worker: what it holds at each stage.             *)
LEMMA WorkerInv ==
  ASSUME IInv, WorkerStep
  PROVE  (LockOwned /\ Roles /\ Reader /\ Attempt)'
<1> USE DEF IInv, TypeOK, PcOK, LockOwned, Roles, Reader, Attempt, Tasks,
     HeldLabels, Goto, others, attempt, flags, reader, line
<1>1. CASE WorkerBegin
  BY <1>1 DEF WorkerBegin, BeginClose
<1>2. CASE PollDone("worker")
  BY <1>2 DEF PollDone, WorkerStep, ReadReady
<1>3. CASE PollTimeout("worker")
  BY <1>3 DEF PollTimeout
<1>4. CASE ForceDelete("worker")
  BY <1>4 DEF ForceDelete
<1>5. CASE FinishClose("worker", "resolve")
  BY <1>5 DEF FinishClose, Cleanup
<1>6. CASE Resolve
  BY <1>6 DEF Resolve
<1>7. CASE TcpConnect
  BY <1>7 DEF TcpConnect, GiveUp, Cleanup
<1>8. CASE Handshake
  BY <1>8 DEF Handshake, GiveUp, Cleanup
<1>9. CASE Authenticate
  BY <1>9 DEF Authenticate, GiveUp, Cleanup
<1>10. CASE OpenShell
  BY <1>10 DEF OpenShell, GiveUp, Cleanup
<1>11. CASE Spawn
  <2>1. CASE Goto("worker", "store")
    BY <1>11, <2>1 DEF Spawn, Cleanup
  <2>2. CASE pc' = [pc EXCEPT !["worker"] = "assign", !["read"] = "check"]
    <3>1. pc'["worker"] = "assign" /\ pc'["read"] = "check" /\ pc'["shell"] =
     pc["shell"]
      BY <2>2
    <3>2. UNCHANGED <<attempt, flags, channel, lock, hostKey>> /\ drained' = 0
      BY <1>11, <3>1 DEF Spawn
    <3>3. LockOwned' /\ Roles'
      BY <1>11, <3>1, <3>2 DEF Spawn
    <3>4. Reader'
      BY <1>11, <3>1, <3>2 DEF Spawn
    <3>5. Attempt'
      BY <1>11, <3>1, <3>2 DEF Spawn
    <3>6. QED
      BY <3>3, <3>4, <3>5
  <2>3. QED
    BY <1>11, <2>1, <2>2 DEF Spawn
<1>12. CASE Assign
  BY <1>12 DEF Assign
<1>13. CASE StoreResult
  BY <1>13 DEF StoreResult
<1>14. CASE Publish
  BY <1>14 DEF Publish
<1>15. QED
  BY <1>1, <1>2, <1>3, <1>4, <1>5, <1>6, <1>7, <1>8, <1>9, <1>10, <1>11, <1>12,
     <1>13, <1>14 DEF WorkerStep, Close

-----------------------------------------------------------------------------
(* The read task.                                                          *)
LEMMA ReadPc ==
  ASSUME PcOK, ReadTake \/ ReadRun
  PROVE  PcOK'
<1> USE DEF ReadLabels, HeldLabels
<1>1. CASE ReadTake
  BY <1>1, ReadGoto DEF ReadTake
<1>2. CASE ReadCheck
  BY <1>2, ReadGoto DEF ReadCheck
<1>3. CASE ReadData
  BY <1>3, ReadGoto DEF ReadData
<1>4. CASE ReadAgain
  BY <1>4, ReadGoto DEF ReadAgain
<1>5. CASE ReadEof
  BY <1>5, ReadGoto DEF ReadEof
<1>6. CASE ReadError
  BY <1>6, ReadGoto DEF ReadError
<1>7. CASE ReadDrop
  BY <1>7, ReadGoto DEF ReadDrop
<1>8. CASE ReadSettle
  BY <1>8, ReadGoto DEF ReadSettle
<1>9. CASE ReadFlush
  BY <1>9, ReadGoto DEF ReadFlush
<1>10. CASE ReadWake
  BY <1>10, ReadGoto DEF ReadWake
<1>11. CASE ReadExit
  BY <1>11, ReadGoto DEF ReadExit
<1>12. CASE ReadUnlink
  BY <1>12, ReadGoto DEF ReadUnlink
<1>13. QED
  BY <1>1, <1>2, <1>3, <1>4, <1>5, <1>6, <1>7, <1>8, <1>9, <1>10, <1>11, <1>12 DEF
     ReadRun

LEMMA ReadRange ==
  ASSUME IInv, ReadTake \/ ReadRun
  PROVE  RangeOK'
<1> USE DEF IInv, TypeOK, RangeOK, Reader, others, attempt, flags, reader, line
<1>1. CASE ReadTake
  BY <1>1 DEF ReadTake
<1>2. CASE ReadCheck
  BY <1>2 DEF ReadCheck
<1>3. CASE ReadData
  <2>1. queue' \in 0..MaxQueue /\ drained' \in 0..Budget /\ resp' \in 0..RespMax
    BY <1>3 DEF ReadData
  <2>2. QED
    BY <1>3, <2>1 DEF ReadData
<1>4. CASE ReadAgain
  BY <1>4 DEF ReadAgain
<1>5. CASE ReadEof
  BY <1>5 DEF ReadEof
<1>6. CASE ReadError
  BY <1>6 DEF ReadError
<1>7. CASE ReadDrop
  BY <1>7 DEF ReadDrop
<1>8. CASE ReadSettle
  BY <1>8 DEF ReadSettle
<1>9. CASE ReadFlush
  BY <1>9 DEF ReadFlush
<1>10. CASE ReadWake
  BY <1>10 DEF ReadWake
<1>11. CASE ReadExit
  BY <1>11 DEF ReadExit
<1>12. CASE ReadUnlink
  BY <1>12 DEF ReadUnlink
<1>13. QED
  BY <1>1, <1>2, <1>3, <1>4, <1>5, <1>6, <1>7, <1>8, <1>9, <1>10, <1>11, <1>12 DEF
     ReadRun

LEMMA ReadFlags ==
  ASSUME FlagOK, ReadTake \/ ReadRun
  PROVE  FlagOK'
<1> USE DEF FlagOK, others, attempt, flags, reader, line
<1>1. CASE ReadTake
  BY <1>1 DEF ReadTake
<1>2. CASE ReadCheck
  BY <1>2 DEF ReadCheck
<1>3. CASE ReadData
  BY <1>3 DEF ReadData
<1>4. CASE ReadAgain
  BY <1>4 DEF ReadAgain
<1>5. CASE ReadEof
  BY <1>5 DEF ReadEof
<1>6. CASE ReadError
  BY <1>6 DEF ReadError
<1>7. CASE ReadDrop
  BY <1>7 DEF ReadDrop
<1>8. CASE ReadSettle
  BY <1>8 DEF ReadSettle
<1>9. CASE ReadFlush
  BY <1>9 DEF ReadFlush
<1>10. CASE ReadWake
  BY <1>10 DEF ReadWake
<1>11. CASE ReadExit
  BY <1>11 DEF ReadExit
<1>12. CASE ReadUnlink
  BY <1>12 DEF ReadUnlink
<1>13. QED
  BY <1>1, <1>2, <1>3, <1>4, <1>5, <1>6, <1>7, <1>8, <1>9, <1>10, <1>11, <1>12 DEF
     ReadRun

LEMMA ReadInv ==
  ASSUME IInv, ReadTake \/ ReadRun
  PROVE  (LockOwned /\ Roles /\ Reader /\ Attempt)'
<1> USE DEF IInv, TypeOK, PcOK, LockOwned, Roles, Reader, Attempt, Tasks,
     HeldLabels, Goto, others, attempt, flags, reader, line
<1>1. CASE ReadTake
  BY <1>1 DEF ReadTake
<1>2. CASE ReadCheck
  BY <1>2 DEF ReadCheck
<1>3. CASE ReadData
  BY <1>3 DEF ReadData
<1>4. CASE ReadAgain
  BY <1>4 DEF ReadAgain
<1>5. CASE ReadEof
  BY <1>5 DEF ReadEof
<1>6. CASE ReadError
  BY <1>6 DEF ReadError
<1>7. CASE ReadDrop
  BY <1>7 DEF ReadDrop
<1>8. CASE ReadSettle
  BY <1>8 DEF ReadSettle
<1>9. CASE ReadFlush
  BY <1>9 DEF ReadFlush
<1>10. CASE ReadWake
  BY <1>10 DEF ReadWake
<1>11. CASE ReadExit
  BY <1>11 DEF ReadExit
<1>12. CASE ReadUnlink
  BY <1>12 DEF ReadUnlink
<1>13. QED
  BY <1>1, <1>2, <1>3, <1>4, <1>5, <1>6, <1>7, <1>8, <1>9, <1>10, <1>11, <1>12 DEF
     ReadRun

-----------------------------------------------------------------------------
(* The shell.                                                              *)
LEMMA ShellPc ==
  ASSUME PcOK, ShellRun \/ SendTake \/ ShellUser
  PROVE  PcOK'
<1> USE DEF ShellLabels, CloseLabels
<1>1. CASE ShellTake
  BY <1>1, ShellGoto DEF ShellTake
<1>2. CASE ShellUndo
  BY <1>2, ShellGoto DEF ShellUndo, BeginClose
<1>3. CASE ShellNotice
  BY <1>3, ShellGoto DEF ShellNotice, BeginClose
<1>4. CASE PollDone("shell")
  BY <1>4, ShellGoto DEF PollDone
<1>5. CASE PollTimeout("shell")
  BY <1>5, ShellGoto DEF PollTimeout
<1>6. CASE ForceDelete("shell")
  <2>1. CASE readTask
    BY <1>6, <2>1, BothGoto DEF ForceDelete, ReadLabels
  <2>2. CASE ~readTask
    BY <1>6, <2>2, ShellGoto DEF ForceDelete
  <2>3. QED
    BY <2>1, <2>2
<1>7. CASE FinishClose("shell", "home")
  BY <1>7, ShellGoto DEF FinishClose, Cleanup
<1>8. CASE SendCheck
  BY <1>8, ShellGoto DEF SendCheck
<1>9. CASE SendTake
  BY <1>9, ShellGoto DEF SendTake
<1>10. CASE SendWrite
  BY <1>10, ShellGoto DEF SendWrite
<1>11. CASE ShellStart
  <2>1. CASE UNCHANGED pc
    BY <2>1 DEF PcOK
  <2>2. CASE pc' = [pc EXCEPT !["shell"] = "connecting", !["worker"] = "begin"]
    BY <2>2, BothGoto DEF WorkerLabels
  <2>3. QED
    BY <1>11, <2>1, <2>2 DEF ShellStart
<1>12. CASE ShellCancel
  BY <1>12 DEF ShellCancel, PcOK
<1>13. CASE ShellDisconnect
  BY <1>13, ShellGoto DEF ShellDisconnect, BeginClose
<1>14. CASE ShellLeave
  BY <1>14, ShellGoto DEF ShellLeave
<1>15. CASE ShellResume
  BY <1>15, ShellGoto DEF ShellResume
<1>16. CASE ShellSend
  BY <1>16, ShellGoto DEF ShellSend
<1>17. QED
  BY <1>1, <1>2, <1>3, <1>4, <1>5, <1>6, <1>7, <1>8, <1>9, <1>10, <1>11, <1>12,
     <1>13, <1>14, <1>15, <1>16 DEF ShellRun, ShellUser, Close

LEMMA ShellRange ==
  ASSUME RangeOK, ShellRun \/ SendTake \/ ShellUser
  PROVE  RangeOK'
<1> USE DEF RangeOK, Results, Failures, others, attempt, flags, reader, line
<1>1. CASE ShellTake
  BY <1>1 DEF ShellTake
<1>2. CASE ShellUndo
  BY <1>2 DEF ShellUndo, BeginClose
<1>3. CASE ShellNotice
  BY <1>3 DEF ShellNotice, BeginClose
<1>4. CASE PollDone("shell")
  BY <1>4 DEF PollDone
<1>5. CASE PollTimeout("shell")
  BY <1>5 DEF PollTimeout
<1>6. CASE ForceDelete("shell")
  BY <1>6 DEF ForceDelete
<1>7. CASE FinishClose("shell", "home")
  BY <1>7 DEF FinishClose, Cleanup
<1>8. CASE SendCheck
  BY <1>8 DEF SendCheck
<1>9. CASE SendTake
  BY <1>9 DEF SendTake
<1>10. CASE SendWrite
  BY <1>10 DEF SendWrite
<1>11. CASE ShellStart
  BY <1>11 DEF ShellStart
<1>12. CASE ShellCancel
  BY <1>12 DEF ShellCancel
<1>13. CASE ShellDisconnect
  BY <1>13 DEF ShellDisconnect, BeginClose
<1>14. CASE ShellLeave
  BY <1>14 DEF ShellLeave
<1>15. CASE ShellResume
  BY <1>15 DEF ShellResume
<1>16. CASE ShellSend
  BY <1>16 DEF ShellSend
<1>17. QED
  BY <1>1, <1>2, <1>3, <1>4, <1>5, <1>6, <1>7, <1>8, <1>9, <1>10, <1>11, <1>12,
     <1>13, <1>14, <1>15, <1>16 DEF ShellRun, ShellUser, Close

LEMMA ShellFlags ==
  ASSUME FlagOK, ShellRun \/ SendTake \/ ShellUser
  PROVE  FlagOK'
<1> USE DEF FlagOK, others, attempt, flags, reader, line
<1>1. CASE ShellTake
  BY <1>1 DEF ShellTake
<1>2. CASE ShellUndo
  BY <1>2 DEF ShellUndo, BeginClose
<1>3. CASE ShellNotice
  BY <1>3 DEF ShellNotice, BeginClose
<1>4. CASE PollDone("shell")
  BY <1>4 DEF PollDone
<1>5. CASE PollTimeout("shell")
  BY <1>5 DEF PollTimeout
<1>6. CASE ForceDelete("shell")
  BY <1>6 DEF ForceDelete
<1>7. CASE FinishClose("shell", "home")
  BY <1>7 DEF FinishClose, Cleanup
<1>8. CASE SendCheck
  BY <1>8 DEF SendCheck
<1>9. CASE SendTake
  BY <1>9 DEF SendTake
<1>10. CASE SendWrite
  BY <1>10 DEF SendWrite
<1>11. CASE ShellStart
  BY <1>11 DEF ShellStart
<1>12. CASE ShellCancel
  BY <1>12 DEF ShellCancel
<1>13. CASE ShellDisconnect
  BY <1>13 DEF ShellDisconnect, BeginClose
<1>14. CASE ShellLeave
  BY <1>14 DEF ShellLeave
<1>15. CASE ShellResume
  BY <1>15 DEF ShellResume
<1>16. CASE ShellSend
  BY <1>16 DEF ShellSend
<1>17. QED
  BY <1>1, <1>2, <1>3, <1>4, <1>5, <1>6, <1>7, <1>8, <1>9, <1>10, <1>11, <1>12,
     <1>13, <1>14, <1>15, <1>16 DEF ShellRun, ShellUser, Close

LEMMA ShellInv ==
  ASSUME IInv, ShellRun \/ SendTake \/ ShellUser
  PROVE  (LockOwned /\ Roles /\ Reader /\ Attempt)'
<1> USE DEF IInv, TypeOK, PcOK, LockOwned, Roles, Reader, Attempt, Tasks,
     HeldLabels, Goto, others, attempt, flags, reader, line
<1>1. CASE ShellTake
  BY <1>1 DEF ShellTake
<1>2. CASE ShellUndo
  BY <1>2 DEF ShellUndo, BeginClose
<1>3. CASE ShellNotice
  BY <1>3 DEF ShellNotice, BeginClose
<1>4. CASE PollDone("shell")
  BY <1>4 DEF PollDone
<1>5. CASE PollTimeout("shell")
  BY <1>5 DEF PollTimeout
<1>6. CASE ForceDelete("shell")
  BY <1>6 DEF ForceDelete
<1>7. CASE FinishClose("shell", "home")
  BY <1>7 DEF FinishClose, Cleanup
<1>8. CASE SendCheck
  BY <1>8 DEF SendCheck
<1>9. CASE SendTake
  BY <1>9 DEF SendTake
<1>10. CASE SendWrite
  BY <1>10 DEF SendWrite
<1>11. CASE ShellStart
  BY <1>11 DEF ShellStart
<1>12. CASE ShellCancel
  BY <1>12 DEF ShellCancel
<1>13. CASE ShellDisconnect
  BY <1>13 DEF ShellDisconnect, BeginClose
<1>14. CASE ShellLeave
  BY <1>14 DEF ShellLeave
<1>15. CASE ShellResume
  BY <1>15 DEF ShellResume
<1>16. CASE ShellSend
  BY <1>16 DEF ShellSend
<1>17. QED
  BY <1>1, <1>2, <1>3, <1>4, <1>5, <1>6, <1>7, <1>8, <1>9, <1>10, <1>11, <1>12,
     <1>13, <1>14, <1>15, <1>16 DEF ShellRun, ShellUser, Close

-----------------------------------------------------------------------------
LEMMA RemoteIInv ==
  ASSUME IInv, RemoteSends \/ RemoteCloses \/ RemoteLost \/ WindowOpens
  PROVE  IInv'
<1> USE DEF RemoteSends, RemoteCloses, RemoteLost, WindowOpens, attempt, flags, reader
<1>1. PcOK'
  BY DEF IInv, TypeOK, PcOK
<1>2. RangeOK'
  BY DEF IInv, TypeOK, RangeOK
<1>3. FlagOK'
  BY DEF IInv, TypeOK, FlagOK
<1>4. (LockOwned /\ Roles /\ Reader /\ Attempt)'
  BY DEF IInv, LockOwned, Roles, Reader, Attempt
<1>5. QED
  BY <1>1, <1>2, <1>3, <1>4 DEF IInv, TypeOK

-----------------------------------------------------------------------------
LEMMA InitIInv == Init => IInv
<1> SUFFICES ASSUME Init PROVE IInv
    OBVIOUS
<1> USE DEF Init
<1>1. PcOK
  <2>1. pc \in [Tasks -> Labels]
    BY DEF Tasks, Labels, ShellLabels, WorkerLabels
  <2>2. pc["shell"] = "home" /\ pc["worker"] = "none" /\ pc["read"] = "none"
    BY DEF Tasks
  <2>3. QED
    BY <2>1, <2>2 DEF PcOK, ShellLabels, WorkerLabels, ReadLabels
<1>2. RangeOK
  BY DEF RangeOK, Results, Failures
<1>3. FlagOK
  BY DEF FlagOK
<1>4. LockOwned /\ Roles /\ Reader /\ Attempt
  BY DEF LockOwned, Roles, Reader, Attempt, Tasks, HeldLabels
<1>5. QED
  BY <1>1, <1>2, <1>3, <1>4 DEF IInv, TypeOK

LEMMA StutterIInv == IInv /\ UNCHANGED vars => IInv'
<1> SUFFICES ASSUME IInv, UNCHANGED vars PROVE IInv'
    OBVIOUS
<1> USE DEF vars, attempt, flags, reader, line
<1>1. PcOK' /\ RangeOK' /\ FlagOK'
  BY DEF IInv, TypeOK, PcOK, RangeOK, FlagOK
<1>2. LockOwned' /\ Roles' /\ Reader' /\ Attempt'
  BY DEF IInv, LockOwned, Roles, Reader, Attempt
<1>3. QED
  BY <1>1, <1>2 DEF IInv, TypeOK

LEMMA NextIInv == IInv /\ [Next]_vars => IInv'
<1> SUFFICES ASSUME IInv, [Next]_vars PROVE IInv'
    OBVIOUS
<1>0. PcOK /\ RangeOK /\ FlagOK
  BY DEF IInv, TypeOK
<1>1. CASE WorkerStep
  BY <1>0, <1>1, WorkerPc, WorkerRange, WorkerFlags, WorkerInv DEF IInv, TypeOK
<1>2. CASE ReadTake \/ ReadRun
  BY <1>0, <1>2, ReadPc, ReadRange, ReadFlags, ReadInv DEF IInv, TypeOK
<1>3. CASE ShellRun \/ SendTake \/ ShellUser
  BY <1>0, <1>3, ShellPc, ShellRange, ShellFlags, ShellInv DEF IInv, TypeOK
<1>4. CASE RemoteSends \/ RemoteCloses \/ RemoteLost \/ WindowOpens
  BY <1>4, RemoteIInv
<1>5. CASE UNCHANGED vars
  BY <1>5, StutterIInv
<1>6. QED
  BY <1>1, <1>2, <1>3, <1>4, <1>5 DEF Next

(* The invariant of the client: types, the owner of s_session_lock, who    *)
(* may run in which phase, what s_read_task_done promises, and what the    *)
(* connect worker holds at each stage.                                     *)
THEOREM Invariant == SafeSpec => []IInv
<1>1. QED
  BY InitIInv, NextIInv, PTL DEF SafeSpec

(* Every task stays inside its own program and every buffer inside its     *)
(* bounds: s_resp_len never passes SSH_RESP_BUF (ssh_resp_cb).             *)
THEOREM TypeCorrect == SafeSpec => []TypeOK
<1>1. IInv => TypeOK
  BY DEF IInv
<1>2. QED
  BY <1>1, Invariant, PTL

(* s_session_lock is held exactly between a task's take and its give, also *)
(* after ssh_client_disconnect has deleted the holder and the mutex.       *)
THEOREM LockIsOwned == SafeSpec => []LockOwned
<1>1. IInv => LockOwned
  BY DEF IInv
<1>2. QED
  BY <1>1, Invariant, PTL

(* The steps that free the channel.                                        *)
LEMMA WhoFrees ==
  ASSUME IInv, [Next]_vars, channel, ~channel'
  PROVE  \/ pc["shell"] = "cleanup"
         \/ pc["worker"] \in {"cleanup", "spawn"}
<1> USE DEF IInv, Attempt, others, attempt, flags, reader, line
<1>1. CASE WorkerStep
  BY <1>1 DEF WorkerStep, Close, WorkerBegin, PollDone, PollTimeout, ForceDelete,
              FinishClose, Resolve, TcpConnect, Handshake, Authenticate, OpenShell,
              Spawn, Assign, StoreResult, Publish
<1>2. CASE ReadTake \/ ReadRun
  BY <1>2 DEF ReadRun, ReadTake, ReadCheck, ReadData, ReadAgain, ReadEof, ReadError,
              ReadDrop, ReadSettle, ReadFlush, ReadWake, ReadExit, ReadUnlink
<1>3. CASE ShellRun \/ SendTake \/ ShellUser
  BY <1>3 DEF ShellRun, ShellUser, SendTake, Close, PollDone, PollTimeout, ForceDelete,
              FinishClose, ShellTake, ShellUndo, ShellNotice, SendCheck, SendWrite,
              ShellStart, ShellCancel, ShellDisconnect, ShellLeave, ShellResume,
              ShellSend, BeginClose
<1>4. CASE RemoteSends \/ RemoteCloses \/ RemoteLost \/ WindowOpens
  BY <1>4 DEF RemoteSends, RemoteCloses, RemoteLost, WindowOpens
<1>5. CASE UNCHANGED vars
  BY <1>5 DEF vars
<1>6. QED
  BY <1>1, <1>2, <1>3, <1>4, <1>5 DEF Next

(* ssh_cleanup takes no lock, and needs none: when it frees the channel    *)
(* the read task is past its last use of it and the shell is not in        *)
(* ssh_client_send.                                                        *)
THEOREM CleanupAlone == SafeSpec => CleanupIsAlone
<1>1. IInv /\ [Next]_vars /\ channel /\ ~channel' =>
        /\ pc["read"] \in {"none", "unlink"}
        /\ pc["shell"] \notin {"sendtake", "sendhold"}
  <2> SUFFICES ASSUME IInv, [Next]_vars, channel, ~channel'
               PROVE  /\ pc["read"] \in {"none", "unlink"}
                      /\ pc["shell"] \notin {"sendtake", "sendhold"}
      OBVIOUS
  <2>1. CASE pc["shell"] = "cleanup"
    BY <2>1 DEF IInv, Reader
  <2>2. CASE pc["worker"] \in {"cleanup", "spawn"}
    BY <2>2 DEF IInv, Reader, Roles
  <2>3. QED
    BY <2>1, <2>2, WhoFrees
<1>2. QED
  BY <1>1, Invariant, PTL DEF SafeSpec, CleanupIsAlone

(* The statically allocated read task is created only when no earlier one  *)
(* is left.                                                                *)
THEOREM ReaderIsAlone == SafeSpec => OneReadTask
<1>1. IInv /\ pc["worker"] = "spawn" => pc["read"] = "none"
  BY DEF IInv, Reader
<1>2. QED
  BY <1>1, Invariant, PTL DEF SafeSpec, OneReadTask

(* ssh_client_disconnect deletes the mutex while nobody waits on it.       *)
THEOREM MutexUnused == SafeSpec => MutexReplacedUnused
<1>1. IInv /\ (\E t \in Tasks : pc[t] = "kill" /\ pc'[t] = "cleanup")
        => pc["shell"] \notin {"sendtake", "sendhold"}
  BY DEF IInv, TypeOK, PcOK, Roles, Tasks, ReadLabels, HeldLabels
<1>2. QED
  BY <1>1, Invariant, PTL DEF SafeSpec, MutexReplacedUnused

-----------------------------------------------------------------------------
(* How a session ends. The invariant above says who may run; this one says *)
(* what the flags tell of the far end, and rests on it.                    *)
Closing(t) == pc[t] \in CloseLabels

(* Of a session that ends: s_clean_eof is what the read task saw of the    *)
(* far end, from the start of an attempt on.                               *)
EofSeen ==
  /\ cleanEof => remote = "eof" /\ queue = 0
  /\ pc["worker"] \in {"tcp", "handshake", "auth", "open"} => ~cleanEof

(* Which sessions there are, and whose socket a cancel has shut.           *)
Cancelled ==
  /\ cancelled => pc["shell"] = "connecting"
  /\ sock = "shut" => cancelled \/ pc["shell"] = "undo" \/ Closing("shell")
  /\ pc["worker"] = "resolve" => sock = "none"
  /\ pc["worker"] \in {"store", "publish"} /\ outcome # "OK" => sock = "none"
  /\ phase = "done" => IF result = "OK" THEN channel ELSE sock = "none"
  /\ pc["shell"] \in {"session", "sendcheck", "sendtake", "sendhold"} => channel
  /\ connected => channel

(* Why a session that nobody is closing has dropped.                       *)
Why == sock = "shut" \/ remote = "lost" \/ cleanEof
Dropped ==
  /\ pc["read"] = "dropping" => Why
  /\ channel /\ ~connected /\ ~Closing("shell") /\ ~Closing("worker") => Why

(* The output that has been read and not presented is in a wake that has   *)
(* still to flush it, or behind a synchronized update.                     *)
Presented ==
  pc["read"] \in {"check", "delay", "exit", "unlink"} \/ drained = 0 => (unshown => sync)

Ending == EofSeen /\ Cancelled /\ Dropped /\ Presented

(* The worker: it starts from a session that is released.                  *)
LEMMA WorkerEnding ==
  ASSUME IInv, Ending, WorkerStep
  PROVE  Ending'
<1> USE DEF IInv, TypeOK, PcOK, RangeOK, FlagOK, Roles, Reader, Attempt, Tasks, Ending,
     EofSeen, Cancelled, Dropped, Why, Presented, Closing, CloseLabels, Goto, others, attempt, flags, reader, line
<1>1. CASE WorkerBegin
  BY <1>1 DEF WorkerBegin, BeginClose
<1>2. CASE PollDone("worker")
  BY <1>2 DEF PollDone
<1>3. CASE PollTimeout("worker")
  BY <1>3 DEF PollTimeout
<1>4. CASE ForceDelete("worker")
  BY <1>4 DEF ForceDelete
<1>5. CASE FinishClose("worker", "resolve")
  BY <1>5 DEF FinishClose, Cleanup
<1>6. CASE Resolve
  BY <1>6 DEF Resolve
<1>7. CASE TcpConnect
  BY <1>7 DEF TcpConnect, GiveUp, Cleanup
<1>8. CASE Handshake
  BY <1>8 DEF Handshake, GiveUp, Cleanup
<1>9. CASE Authenticate
  BY <1>9 DEF Authenticate, GiveUp, Cleanup
<1>10. CASE OpenShell
  BY <1>10 DEF OpenShell, GiveUp, Cleanup
<1>11. CASE Spawn
  <2>1. CASE Goto("worker", "store")
    <3>1. pc'["worker"] = "store" /\ pc'["read"] = pc["read"] /\ pc'["shell"] = pc["shell"]
      BY <2>1
    <3>2. /\ ~channel' /\ sock' = "none" /\ ~connected' /\ phase = "pending"
          /\ UNCHANGED <<phase, cancelled, cleanEof, remote, queue, drained, unshown, sync>>
      BY <1>11, <2>1 DEF Spawn, Cleanup
    <3>3. pc["shell"] = "connecting"
      BY <3>2
    <3>4. EofSeen' /\ Presented'
      BY <3>1, <3>2
    <3>5. Cancelled'
      BY <3>1, <3>2, <3>3
    <3>6. Dropped'
      BY <1>11, <3>1, <3>2 DEF Spawn
    <3>7. QED
      BY <3>4, <3>5, <3>6
  <2>2. CASE pc' = [pc EXCEPT !["worker"] = "assign", !["read"] = "check"]
    <3>1. pc'["worker"] = "assign" /\ pc'["read"] = "check" /\ pc'["shell"] = pc["shell"]
      BY <2>2
    <3>2. UNCHANGED <<attempt, flags, sock, channel, line>> /\ unshown' = FALSE
      BY <1>11, <3>1 DEF Spawn
    <3>3. EofSeen' /\ Cancelled' /\ Presented'
      BY <1>11, <3>1, <3>2
    <3>4. Dropped'
      <4>1. channel /\ ~connected /\ ~Closing("shell") => Why
        BY <1>11 DEF Spawn
      <4>2. Why' <=> Why
        BY <3>2
      <4>3. QED
        BY <3>1, <3>2, <4>1, <4>2
    <3>5. QED
      BY <3>3, <3>4
  <2>3. QED
    BY <1>11, <2>1, <2>2 DEF Spawn
<1>12. CASE Assign
  BY <1>12 DEF Assign
<1>13. CASE StoreResult
  BY <1>13 DEF StoreResult
<1>14. CASE Publish
  BY <1>14 DEF Publish
<1>15. QED
  BY <1>1, <1>2, <1>3, <1>4, <1>5, <1>6, <1>7, <1>8, <1>9, <1>10, <1>11, <1>12, <1>13, <1>14
     DEF WorkerStep, Close

(* The read task: it raises the flag before it drops the session.          *)
LEMMA ReadEnding ==
  ASSUME IInv, Ending, ReadTake \/ ReadRun
  PROVE  Ending'
<1> USE DEF IInv, TypeOK, PcOK, RangeOK, FlagOK, Roles, Reader, Attempt, Tasks, Ending,
     EofSeen, Cancelled, Dropped, Why, Presented, Closing, CloseLabels, Goto, others, attempt, flags, reader, line
<1>1. CASE ReadTake
  BY <1>1 DEF ReadTake
<1>2. CASE ReadCheck
  BY <1>2 DEF ReadCheck
<1>3. CASE ReadData
  BY <1>3 DEF ReadData
<1>4. CASE ReadAgain
  BY <1>4 DEF ReadAgain
<1>5. CASE ReadEof
  BY <1>5 DEF ReadEof
<1>6. CASE ReadError
  BY <1>6 DEF ReadError
<1>7. CASE ReadDrop
  BY <1>7 DEF ReadDrop
<1>8. CASE ReadSettle
  BY <1>8 DEF ReadSettle
<1>9. CASE ReadFlush
  BY <1>9 DEF ReadFlush
<1>10. CASE ReadWake
  BY <1>10 DEF ReadWake
<1>11. CASE ReadExit
  BY <1>11 DEF ReadExit
<1>12. CASE ReadUnlink
  BY <1>12 DEF ReadUnlink
<1>13. QED
  BY <1>1, <1>2, <1>3, <1>4, <1>5, <1>6, <1>7, <1>8, <1>9, <1>10, <1>11, <1>12
     DEF ReadRun

(* The shell: a session it drops itself is one it is closing.              *)
LEMMA ShellEnding ==
  ASSUME IInv, Ending, ShellRun \/ SendTake \/ ShellUser
  PROVE  Ending'
<1> USE DEF IInv, TypeOK, PcOK, RangeOK, FlagOK, Roles, Reader, Attempt, Tasks, Ending,
     EofSeen, Cancelled, Dropped, Why, Presented, Closing, CloseLabels, Goto, others, attempt, flags, reader, line
<1>1. CASE ShellTake
  BY <1>1 DEF ShellTake
<1>2. CASE ShellUndo
  BY <1>2 DEF ShellUndo, BeginClose
<1>3. CASE ShellNotice
  BY <1>3 DEF ShellNotice, BeginClose
<1>4. CASE PollDone("shell")
  BY <1>4 DEF PollDone
<1>5. CASE PollTimeout("shell")
  BY <1>5 DEF PollTimeout
<1>6. CASE ForceDelete("shell")
  BY <1>6 DEF ForceDelete
<1>7. CASE FinishClose("shell", "home")
  BY <1>7 DEF FinishClose, Cleanup
<1>8. CASE SendCheck
  BY <1>8 DEF SendCheck
<1>9. CASE SendTake
  BY <1>9 DEF SendTake
<1>10. CASE SendWrite
  BY <1>10 DEF SendWrite
<1>11. CASE ShellStart
  BY <1>11 DEF ShellStart
<1>12. CASE ShellCancel
  BY <1>12 DEF ShellCancel
<1>13. CASE ShellDisconnect
  BY <1>13 DEF ShellDisconnect, BeginClose
<1>14. CASE ShellLeave
  BY <1>14 DEF ShellLeave
<1>15. CASE ShellResume
  BY <1>15 DEF ShellResume
<1>16. CASE ShellSend
  BY <1>16 DEF ShellSend
<1>17. QED
  BY <1>1, <1>2, <1>3, <1>4, <1>5, <1>6, <1>7, <1>8, <1>9, <1>10, <1>11, <1>12, <1>13, <1>14, <1>15, <1>16
     DEF ShellRun, ShellUser, Close

(* The far end: what it says last is never taken back.                     *)
LEMMA RemoteEnding ==
  ASSUME IInv, Ending, RemoteSends \/ RemoteCloses \/ RemoteLost \/ WindowOpens
  PROVE  Ending'
<1> USE DEF IInv, TypeOK, PcOK, RangeOK, FlagOK, Roles, Reader, Attempt, Tasks, Ending,
     EofSeen, Cancelled, Dropped, Why, Presented, Closing, CloseLabels, Goto, others, attempt, flags, reader, line
<1>1. CASE RemoteSends
  BY <1>1 DEF RemoteSends
<1>2. CASE RemoteCloses
  BY <1>2 DEF RemoteCloses
<1>3. CASE RemoteLost
  BY <1>3 DEF RemoteLost
<1>4. CASE WindowOpens
  BY <1>4 DEF WindowOpens
<1>5. QED
  BY <1>1, <1>2, <1>3, <1>4
     DEF Next

LEMMA NextEnding == IInv /\ Ending /\ [Next]_vars => Ending'
<1>1. ASSUME Ending, UNCHANGED vars PROVE Ending'
  BY <1>1 DEF vars, attempt, flags, reader, line, Ending, EofSeen, Cancelled, Dropped, Why,
              Presented, Closing
<1>2. QED
  BY <1>1, WorkerEnding, ReadEnding, ShellEnding, RemoteEnding DEF Next

(* How a session ends is known, in every state the client reaches.         *)
THEOREM EndingInvariant == SafeSpec => []Ending
<1>1. Init => Ending
  BY DEF Init, Ending, EofSeen, Cancelled, Dropped, Presented, Closing, CloseLabels, Tasks
<1>2. QED
  BY <1>1, Invariant, NextEnding, PTL DEF SafeSpec

(* A logout is told from a dropped link: when the shell finds the session  *)
(* gone, s_clean_eof is set if and only if the far end closed the channel, *)
(* so session_tick reconnects after a loss and not after an exit           *)
(* (ssh_client.c:331, 347, 906).                                           *)
THEOREM VerdictIsRight == SafeSpec => []SessionVerdict
<1>1. IInv /\ Ending => SessionVerdict
  BY DEF IInv, TypeOK, FlagOK, PcOK, Roles, Ending, EofSeen, Cancelled, Dropped, Why,
         Closing, CloseLabels, SessionVerdict
<1>2. QED
  BY <1>1, Invariant, EndingInvariant, PTL

(* What the far end sent before it closed the channel has been read when   *)
(* the read task ends, and is on the display unless the far end left a     *)
(* synchronized update open (ssh_client.c:327-362, vterm.c:215-216).       *)
THEOREM TailIsShown == SafeSpec => []TailShown
<1>1. Ending => TailShown
  BY DEF Ending, EofSeen, Presented, TailShown
<1>2. QED
  BY <1>1, EndingInvariant, PTL

-----------------------------------------------------------------------------
(* Refinement. Under IInv each action of the client is an action of        *)
(* SshSession or leaves its variables alone.                               *)
LEMMA InitSession == Init => Session!Init
  BY DEF Init, Session!Init

LEMMA GiveUpSession ==
  ASSUME IInv, ~channel, NEW r, GiveUp(r), UNCHANGED pin
  PROVE  UNCHANGED Session!vars
  BY DEF Session!vars, GiveUp, Cleanup

LEMMA WorkerSession ==
  ASSUME IInv, WorkerStep
  PROVE  Session!Next \/ UNCHANGED Session!vars
<1> USE DEF IInv, TypeOK, PcOK, FlagOK, Roles, Attempt, others, attempt, flags, line, Goto, Tasks
<1>1. CASE WorkerBegin
  BY <1>1 DEF WorkerBegin, BeginClose, Session!vars, Session!Next, Session!Drop
<1>2. CASE PollDone("worker")
  BY <1>2 DEF PollDone, Session!vars
<1>3. CASE PollTimeout("worker")
  BY <1>3 DEF PollTimeout, Session!vars
<1>4. CASE ForceDelete("worker")
  BY <1>4 DEF ForceDelete, Session!vars
<1>5. CASE FinishClose("worker", "resolve")
  BY <1>5 DEF FinishClose, Cleanup, Session!vars, Session!Next, Session!Release
<1>6. CASE Resolve
  BY <1>6 DEF Resolve, Session!vars
<1>7. CASE TcpConnect
  BY <1>7 DEF TcpConnect, GiveUp, Cleanup, Session!vars
<1>8. CASE Handshake
  BY <1>8 DEF Handshake, GiveUp, Cleanup, Session!vars
<1>9. CASE Authenticate
  BY <1>9 DEF Authenticate, GiveUp, Cleanup, Session!vars
<1>10. CASE OpenShell
  BY <1>10 DEF OpenShell, GiveUp, Cleanup, Session!vars, Session!Next, Session!Establish
<1>11. CASE Spawn
  <2>1. CASE Goto("worker", "store")
    <3>1. phase = "pending" /\ phase' = "pending" /\ pin' = pin
      BY <1>11 DEF Spawn
    <3>2. channel /\ ~channel'
      BY <1>11, <2>1 DEF Spawn, Cleanup
    <3>3. Session!Release
      BY <3>1, <3>2 DEF Session!Release
    <3>4. QED
      BY <3>3 DEF Session!Next
  <2>2. CASE UNCHANGED <<attempt, flags, channel, line>>
    BY <2>2 DEF Session!vars
  <2>3. QED
    BY <1>11, <2>1, <2>2 DEF Spawn
<1>12. CASE Assign
  BY <1>12 DEF Assign, Session!vars
<1>13. CASE StoreResult
  BY <1>13 DEF StoreResult, Session!vars
<1>14. CASE Publish
  BY <1>14 DEF Publish, RangeOK, Results, Failures, Session!vars, Session!Next,
               Session!Finish, Session!Outcomes
<1>15. QED
  BY <1>1, <1>2, <1>3, <1>4, <1>5, <1>6, <1>7, <1>8, <1>9, <1>10, <1>11, <1>12, <1>13,
     <1>14 DEF WorkerStep, Close

LEMMA ReadSession ==
  ASSUME IInv, ReadTake \/ ReadRun
  PROVE  Session!Next \/ UNCHANGED Session!vars
<1> USE DEF others, attempt, flags, line, Session!vars
<1>1. CASE ReadDrop
  BY <1>1 DEF ReadDrop, IInv, TypeOK, FlagOK, Session!Next, Session!Drop
<1>2. CASE ReadTake \/ ReadCheck \/ ReadData \/ ReadAgain \/ ReadEof \/ ReadError
  BY <1>2 DEF ReadTake, ReadCheck, ReadData, ReadAgain, ReadEof, ReadError
<1>3. CASE ReadSettle \/ ReadFlush \/ ReadWake \/ ReadExit \/ ReadUnlink
  BY <1>3 DEF ReadSettle, ReadFlush, ReadWake, ReadExit, ReadUnlink
<1>4. QED
  BY <1>1, <1>2, <1>3 DEF ReadRun

LEMMA ShellSession ==
  ASSUME IInv, ShellRun \/ SendTake \/ ShellUser
  PROVE  Session!Next \/ UNCHANGED Session!vars
<1> USE DEF IInv, TypeOK, PcOK, FlagOK, Roles, others, attempt, flags, line, Session!vars
<1>1. CASE ShellTake
  BY <1>1 DEF ShellTake, Session!Next, Session!Take
<1>2. CASE ShellUndo \/ ShellNotice \/ ShellDisconnect
  BY <1>2 DEF ShellUndo, ShellNotice, ShellDisconnect, BeginClose, Session!Next,
              Session!Drop
<1>3. CASE PollDone("shell") \/ PollTimeout("shell") \/ ForceDelete("shell")
  BY <1>3 DEF PollDone, PollTimeout, ForceDelete
<1>4. CASE FinishClose("shell", "home")
  BY <1>4 DEF FinishClose, Cleanup, Session!Next, Session!Release
<1>5. CASE SendCheck \/ SendTake \/ SendWrite
  <2>1. UNCHANGED <<attempt, flags, channel, hostKey>>
    BY <1>5 DEF SendCheck, SendTake, SendWrite
  <2>2. QED
    BY <2>1
<1>6. CASE ShellStart
  BY <1>6 DEF ShellStart, Session!Next, Session!Start, Session!StartFails
<1>7. CASE ShellCancel \/ ShellLeave \/ ShellResume \/ ShellSend
  BY <1>7 DEF ShellCancel, ShellLeave, ShellResume, ShellSend
<1>8. QED
  BY <1>1, <1>2, <1>3, <1>4, <1>5, <1>6, <1>7 DEF ShellRun, ShellUser, Close

LEMMA NextSession ==
  ASSUME IInv, [Next]_vars
  PROVE  Session!Next \/ UNCHANGED Session!vars
<1>1. CASE RemoteSends \/ RemoteCloses \/ RemoteLost \/ WindowOpens
  BY <1>1 DEF RemoteSends, RemoteCloses, RemoteLost, WindowOpens, attempt, flags,
              Session!vars
<1>2. CASE UNCHANGED vars
  BY <1>2 DEF vars, attempt, flags, line, Session!vars
<1>3. QED
  BY <1>1, <1>2, WorkerSession, ReadSession, ShellSession DEF Next

(* The safety half of the promise: a link comes up only out of an attempt  *)
(* that met its pinned host key, a successful result always has a session  *)
(* behind it and a failed one never has, and no second attempt starts      *)
(* before the first is over.                                               *)
THEOREM SessionRefinement == SafeSpec => SessionSafe
<1>1. IInv /\ [Next]_vars => [Session!Next]_(Session!vars)
  BY NextSession
<1>2. QED
  BY <1>1, InitSession, Invariant, PTL DEF SafeSpec, SessionSafe, Session!SafeSpec
=============================================================================
