---------------------------- MODULE ProviderProofs ----------------------------
(***************************************************************************)
(* Proofs about the credential provider.                                   *)
(*                                                                         *)
(* Its tile: m_scanning tells the truth, no thread outlives UnAdvise, and  *)
(* the tile implements TileOffer, for every set of failure reasons and     *)
(* whenever LogonUI presses submit.                                        *)
(*                                                                         *)
(* How it reads the service's answers: what the JSON reader makes of a     *)
(* reply is what the service meant, for all names, passwords and prompts.  *)
(***************************************************************************)
EXTENDS FaceTile, ReplyParser, WellFoundedInduction, SequenceTheorems, TLAPS

Live == worker \in Running

\* StartWorker between raising m_scanning and creating the thread.
Starting == ui = "create" \/ (ui \in {"set", "show"} /\ uiThen = "create")

\* The flag, and who holds the thread; a stranded flag has none.
FlagInv ==
  /\ scanning <=> (Live \/ Starting \/ stranded)
  /\ ui \in {"join", "begin", "lower", "create"} \/ Starting => ~Live
  /\ Live => joinable \/ ui \in {"keep", "join for stop"}
  /\ stranded => ~Live /\ ~Starting /\ ui \notin {"join", "begin", "keep"}

\* A call that starts or submits something found a sink; a thread without one
\* is being joined.
SinkInv ==
  /\ ui \in {"autologon", "pack", "join", "begin", "keep"} \/ Starting => advised
  /\ ~advised /\ Live => ui \in {"stop", "join for stop"}
  /\ ui = "gone" => ~advised
  /\ ui \in {"set", "show"} => uiThen \in {"idle", "create"}
  /\ ui \in {"stop", "join for stop", "lower"} => uiThen \in {"idle", "gone"}
  /\ ui \in {"stop", "join for stop", "lower"} => ~advised

\* What GetSerialization saw still holds when the thread is created, a scan
\* that has no outcome has stored nothing, and a deselected one is abandoned.
ScanInv ==
  /\ ui \in {"join", "begin"} \/ Starting => ~haveResult /\ ~disabled /\ selected
  /\ ui = "autologon" => selected
  /\ Starting => ~abort
  /\ worker \in Deciding => ~haveResult /\ (selected \/ abort)
  /\ disabled => ~haveResult

Inv == TypeOK /\ FlagInv /\ SinkInv /\ ScanInv

USE DEF flags, ui_vars

\* The names of the lines, of the steps of a call and of the stages of a scan.
LEMMA TextFacts ==
  /\ "look" \in Texts /\ "press" \in Texts /\ "scanning" \in Texts
  /\ "prompt" \in Texts /\ "verified" \in Texts /\ "packing failed" \in Texts
  /\ "password rejected" \in Texts /\ "unavailable" \in Texts
  BY DEF Texts

LEMMA StepFacts ==
  /\ "idle" \in UiSteps /\ "autologon" \in UiSteps /\ "set" \in UiSteps
  /\ "show" \in UiSteps /\ "pack" \in UiSteps /\ "join" \in UiSteps
  /\ "begin" \in UiSteps /\ "create" \in UiSteps /\ "keep" \in UiSteps
  /\ "stop" \in UiSteps /\ "join for stop" \in UiSteps
  /\ "lower" \in UiSteps /\ "gone" \in UiSteps /\ "starved" \in UiSteps
  BY DEF UiSteps

LEMMA StageFacts ==
  /\ "phase1" \in Deciding /\ "prompt" \in Deciding /\ "show prompt" \in Deciding
  /\ "gate" \in Deciding /\ "phase2" \in Deciding /\ "publish" \in Deciding
  /\ "failing" \in Deciding
  /\ "show failure" \notin Deciding /\ "announce" \notin Deciding
  /\ "show verified" \notin Deciding /\ "notify" \notin Deciding
  /\ "failing late" \notin Deciding /\ "tail" \notin Deciding
  /\ "ended" \notin Deciding /\ "ended" \notin Running
  /\ "show failure" \in Running /\ "announce" \in Running
  /\ "show verified" \in Running /\ "notify" \in Running
  /\ "failing late" \in Running /\ "tail" \in Running
  /\ \A w \in Deciding : w \in Running
  BY DEF Deciding, Leaving, Running

LEMMA TextOfFailure == \A r \in Reasons : FailureText(r) \in Texts
  BY DEF FailureText, Texts

-----------------------------------------------------------------------------

LEMMA InvInit == Init => Inv
  BY TextFacts, StepFacts, StageFacts
  DEF Init, Inv, TypeOK, FlagInv, SinkInv, ScanInv, Live, Starting

\* Every action keeps the types.
LEMMA LogonUITypes == ASSUME Inv, LogonUI PROVE TypeOK'
<1> USE TextFacts, StepFacts, StageFacts DEF Inv, TypeOK, SinkInv, GoTo, Say, SayThen
<1>1. CASE Advise
  <2>1. /\ advised' = TRUE /\ shown' = status
        /\ UNCHANGED <<ui, uiText, uiThen, selected, abort, scanning, haveResult>>
        /\ UNCHANGED <<disabled, joinable, worker, text, stranded, status, logon>>
        /\ UNCHANGED notified
    BY ONLY <1>1 DEF Advise
  <2> QED
    BY ONLY TypeOK, StepFacts, <2>1, ZenonT(60) DEF TypeOK
<1>2. CASE Unhook
  BY <1>2 DEF Unhook
<1>3. CASE SetSelected
  BY <1>3 DEF SetSelected, SetSelectedText
<1>4. CASE SetDeselected
  BY <1>4 DEF SetDeselected
<1>5. CASE Submit
  <2>1. CASE GetSerialization
    BY <1>5, <2>1 DEF Submit, GetSerialization
  <2>2. CASE CopyThrows
    BY <1>5, <2>2 DEF Submit, CopyThrows
  <2> QED
    BY <1>5, <2>1, <2>2 DEF Submit
<1>6. CASE Enumerate
  BY <1>6 DEF Enumerate
<1>7. CASE ReportSuccess
  <2>1. /\ logon' = "none" /\ UNCHANGED <<ui, uiText, uiThen, advised, selected>>
        /\ UNCHANGED <<abort, scanning, haveResult, disabled, joinable, worker, text>>
        /\ UNCHANGED <<stranded, status, shown, notified>>
    BY ONLY <1>7 DEF ReportSuccess, flags
  <2> QED
    BY ONLY TypeOK, StepFacts, <2>1, ZenonT(60) DEF TypeOK
<1>8. CASE ReportFailure
  BY <1>8 DEF ReportFailure
<1> QED
  BY <1>1, <1>2, <1>3, <1>4, <1>5, <1>6, <1>7, <1>8
  DEF LogonUI

LEMMA UiTypes == ASSUME Inv, UiStep \/ SetStatusThrows PROVE TypeOK'
<1> USE TextFacts, StepFacts, StageFacts DEF Inv, TypeOK, SinkInv, GoTo, Say, SayThen
<1>1. CASE SetStatus
  <2>1. /\ ui' \in UiSteps /\ UNCHANGED <<uiText, uiThen, advised, selected, abort>>
        /\ UNCHANGED <<scanning, haveResult, disabled, joinable, worker, text>>
        /\ status' \in Texts /\ shown' \in Texts
        /\ UNCHANGED <<logon, notified, stranded>>
    BY <1>1 DEF SetStatus
  <2> QED
    BY ONLY TypeOK, StepFacts, <2>1, ZenonT(60) DEF TypeOK
<1>2. CASE SetFieldString
  <2>1. /\ ui' \in UiSteps /\ UNCHANGED <<uiText, uiThen, advised, selected, abort>>
        /\ UNCHANGED <<scanning, haveResult, disabled, joinable, worker, text>>
        /\ status' \in Texts /\ shown' \in Texts
        /\ UNCHANGED <<logon, notified, stranded>>
    BY <1>2 DEF SetFieldString
  <2> QED
    BY ONLY TypeOK, StepFacts, <2>1, ZenonT(60) DEF TypeOK
<1>3. CASE AutoLogon
  <2>1. CASE GetSerialization
    BY <1>3, <2>1 DEF AutoLogon, GetSerialization
  <2>2. CASE CopyThrows
    BY <1>3, <2>2 DEF AutoLogon, CopyThrows
  <2> QED
    BY <1>3, <2>1, <2>2 DEF AutoLogon
<1>4. CASE Pack
  BY <1>4 DEF Pack
<1>5. CASE JoinStale
  <2>1. /\ ui' = "begin" /\ UNCHANGED <<uiText, uiThen, advised, selected, abort>>
        /\ UNCHANGED <<scanning, haveResult, disabled, joinable, worker, text>>
        /\ UNCHANGED <<status, shown, logon, notified, stranded>>
    BY ONLY <1>5 DEF JoinStale, GoTo, flags
  <2> QED
    BY ONLY TypeOK, StepFacts, <2>1, ZenonT(60) DEF TypeOK
<1>6. CASE BeginScan
  BY <1>6 DEF BeginScan
<1>7. CASE CreateThread
  <2>1. /\ ui' \in UiSteps /\ worker' \in Running \union {"ended"}
        /\ UNCHANGED <<uiText, uiThen, advised, selected, abort, scanning>>
        /\ UNCHANGED <<haveResult, disabled, joinable, text, status, shown>>
        /\ UNCHANGED <<logon, notified, stranded>>
    BY ONLY StepFacts, StageFacts, <1>7 DEF CreateThread, GoTo, flags
  <2> QED
    BY ONLY TypeOK, <2>1, ZenonT(60) DEF TypeOK
<1>8. CASE NoThread
  BY <1>8 DEF NoThread
<1>9. CASE KeepThread
  BY <1>9 DEF KeepThread
<1>10. CASE StopWorker
  BY <1>10 DEF StopWorker
<1>11. CASE JoinStopped
  <2>1. /\ ui' = "lower" /\ UNCHANGED <<uiText, uiThen, advised, selected, abort>>
        /\ UNCHANGED <<scanning, haveResult, disabled, joinable, worker, text>>
        /\ UNCHANGED <<status, shown, logon, notified, stranded>>
    BY ONLY <1>11 DEF JoinStopped, GoTo, flags
  <2> QED
    BY ONLY TypeOK, StepFacts, <2>1, ZenonT(60) DEF TypeOK
<1>12. CASE Lowered
  BY <1>12 DEF Lowered
<1>13. CASE Starved
  <2>1. /\ ui' = "idle" /\ UNCHANGED <<uiText, uiThen, advised, selected, abort>>
        /\ UNCHANGED <<scanning, haveResult, disabled, joinable, worker, text>>
        /\ UNCHANGED <<status, shown, logon, notified, stranded>>
    BY <1>13 DEF Starved
  <2> QED
    BY ONLY TypeOK, StepFacts, <2>1, ZenonT(60) DEF TypeOK
<1>14. CASE SetStatusThrows
  BY <1>14 DEF SetStatusThrows
<1> QED
  BY <1>1, <1>2, <1>3, <1>4, <1>5, <1>6, <1>7, <1>8, <1>9, <1>10, <1>11, <1>12, <1>13,
     <1>14
  DEF UiStep

LEMMA WorkerTypes == ASSUME Inv, WorkerStep PROVE TypeOK'
<1> USE TextFacts, StageFacts DEF Inv, TypeOK
<1>1. CASE Phase1
  <2>1. text' \in Texts /\ worker' \in Running
    BY <1>1, TextOfFailure DEF Phase1, FailWith
  <2> QED
    BY <1>1, <2>1 DEF Phase1
<1>2. CASE Prompt
  BY <1>2 DEF Prompt, WorkerSetStatus
<1>3. CASE Gate
  BY <1>3 DEF Gate
<1>4. CASE Phase2
  <2>1. text' \in Texts /\ worker' \in Running
    BY <1>4, TextOfFailure DEF Phase2, FailWith
  <2> QED
    BY <1>4, <2>1 DEF Phase2
<1>5. CASE ScanThrows
  BY <1>5 DEF ScanThrows
<1>6. CASE Failing
  BY <1>6 DEF Failing, WorkerSetStatus
<1>7. CASE FailingLate
  BY <1>7 DEF FailingLate, WorkerSetStatus
<1>8. CASE WorkerShow
  <2>1. worker' \in {"phase2", "tail", "notify"}
    BY <1>8 DEF WorkerShow
  <2>2. worker' \in Running
    BY <2>1
  <2> QED
    BY <1>8, <2>2 DEF WorkerShow
<1>9. CASE Publish
  BY <1>9 DEF Publish
<1>10. CASE Announce
  BY <1>10 DEF Announce, WorkerSetStatus
<1>11. CASE Notify
  BY <1>11 DEF Notify
<1>12. CASE Finish
  BY <1>12 DEF Finish
<1> QED
  BY <1>1, <1>2, <1>3, <1>4, <1>5, <1>6, <1>7, <1>8, <1>9, <1>10, <1>11, <1>12
  DEF WorkerStep, ScanStep

\* Every action keeps the flag true to the thread.
LEMMA LogonUIFlag == ASSUME Inv, LogonUI PROVE FlagInv'
<1> USE StageFacts DEF Inv, TypeOK, FlagInv, Live, Starting, GoTo, Say, SayThen
<1>1. CASE Advise
  BY <1>1 DEF Advise
<1>2. CASE Unhook
  BY <1>2 DEF Unhook
<1>3. CASE SetSelected
  BY <1>3 DEF SetSelected, SetSelectedText
<1>4. CASE SetDeselected
  BY <1>4 DEF SetDeselected
<1>5. CASE Submit
  <2>1. CASE GetSerialization
    BY <1>5, <2>1 DEF Submit, GetSerialization
  <2>2. CASE CopyThrows
    BY <1>5, <2>2 DEF Submit, CopyThrows
  <2> QED
    BY <1>5, <2>1, <2>2 DEF Submit
<1>6. CASE Enumerate
  BY <1>6 DEF Enumerate
<1>7. CASE ReportSuccess
  BY <1>7 DEF ReportSuccess
<1>8. CASE ReportFailure
  BY <1>8 DEF ReportFailure
<1> QED
  BY <1>1, <1>2, <1>3, <1>4, <1>5, <1>6, <1>7, <1>8
  DEF LogonUI

LEMMA UiFlag == ASSUME Inv, UiStep \/ SetStatusThrows PROVE FlagInv'
<1> USE StageFacts DEF Inv, TypeOK, FlagInv, SinkInv, Live, Starting, GoTo, Say, SayThen
<1>1. CASE SetStatus
  BY <1>1 DEF SetStatus
<1>2. CASE SetFieldString
  BY <1>2 DEF SetFieldString
<1>3. CASE AutoLogon
  <2>1. CASE GetSerialization
    BY <1>3, <2>1 DEF AutoLogon, GetSerialization
  <2>2. CASE CopyThrows
    BY <1>3, <2>2 DEF AutoLogon, CopyThrows
  <2> QED
    BY <1>3, <2>1, <2>2 DEF AutoLogon
<1>4. CASE Pack
  BY <1>4 DEF Pack
<1>5. CASE JoinStale
  BY <1>5 DEF JoinStale
<1>6. CASE BeginScan
  BY <1>6 DEF BeginScan
<1>7. CASE CreateThread
  BY <1>7 DEF CreateThread
<1>8. CASE NoThread
  BY <1>8 DEF NoThread
<1>9. CASE KeepThread
  BY <1>9 DEF KeepThread
<1>10. CASE StopWorker
  BY <1>10 DEF StopWorker
<1>11. CASE JoinStopped
  BY <1>11 DEF JoinStopped
<1>12. CASE Lowered
  BY <1>12 DEF Lowered
<1>13. CASE Starved
  BY <1>13 DEF Starved
<1>14. CASE SetStatusThrows
  BY <1>14 DEF SetStatusThrows
<1> QED
  BY <1>1, <1>2, <1>3, <1>4, <1>5, <1>6, <1>7, <1>8, <1>9, <1>10, <1>11, <1>12, <1>13,
     <1>14
  DEF UiStep

LEMMA WorkerFlag == ASSUME Inv, WorkerStep PROVE FlagInv'
<1> USE StageFacts DEF Inv, TypeOK, FlagInv, Live, Starting
<1>1. CASE Phase1
  BY <1>1 DEF Phase1, FailWith
<1>2. CASE Prompt
  BY <1>2 DEF Prompt, WorkerSetStatus
<1>3. CASE Gate
  BY <1>3 DEF Gate
<1>4. CASE Phase2
  BY <1>4 DEF Phase2, FailWith
<1>5. CASE ScanThrows
  BY <1>5 DEF ScanThrows
<1>6. CASE Failing
  BY <1>6 DEF Failing, WorkerSetStatus
<1>7. CASE FailingLate
  BY <1>7 DEF FailingLate, WorkerSetStatus
<1>8. CASE WorkerShow
  BY <1>8 DEF WorkerShow
<1>9. CASE Publish
  BY <1>9 DEF Publish
<1>10. CASE Announce
  BY <1>10 DEF Announce, WorkerSetStatus
<1>11. CASE Notify
  BY <1>11 DEF Notify
<1>12. CASE Finish
  BY <1>12 DEF Finish
<1> QED
  BY <1>1, <1>2, <1>3, <1>4, <1>5, <1>6, <1>7, <1>8, <1>9, <1>10, <1>11, <1>12
  DEF WorkerStep, ScanStep

\* Every action leaves a thread only where it is joined.
LEMMA LogonUISink == ASSUME Inv, LogonUI PROVE SinkInv'
<1> USE StageFacts DEF Inv, TypeOK, SinkInv, Live, Starting, GoTo, Say, SayThen
<1>1. CASE Advise
  BY <1>1 DEF Advise
<1>2. CASE Unhook
  BY <1>2 DEF Unhook
<1>3. CASE SetSelected
  BY <1>3 DEF SetSelected, SetSelectedText
<1>4. CASE SetDeselected
  BY <1>4 DEF SetDeselected
<1>5. CASE Submit
  <2>1. CASE GetSerialization
    BY <1>5, <2>1 DEF Submit, GetSerialization
  <2>2. CASE CopyThrows
    BY <1>5, <2>2 DEF Submit, CopyThrows
  <2> QED
    BY <1>5, <2>1, <2>2 DEF Submit
<1>6. CASE Enumerate
  BY <1>6 DEF Enumerate
<1>7. CASE ReportSuccess
  BY <1>7 DEF ReportSuccess
<1>8. CASE ReportFailure
  BY <1>8 DEF ReportFailure
<1> QED
  BY <1>1, <1>2, <1>3, <1>4, <1>5, <1>6, <1>7, <1>8
  DEF LogonUI

LEMMA UiSink == ASSUME Inv, UiStep \/ SetStatusThrows PROVE SinkInv'
<1> USE StageFacts DEF Inv, TypeOK, FlagInv, SinkInv, Live, Starting, GoTo, Say, SayThen
<1>1. CASE SetStatus
  BY <1>1 DEF SetStatus
<1>2. CASE SetFieldString
  BY <1>2 DEF SetFieldString
<1>3. CASE AutoLogon
  <2>1. CASE GetSerialization
    BY <1>3, <2>1 DEF AutoLogon, GetSerialization
  <2>2. CASE CopyThrows
    BY <1>3, <2>2 DEF AutoLogon, CopyThrows
  <2> QED
    BY <1>3, <2>1, <2>2 DEF AutoLogon
<1>4. CASE Pack
  BY <1>4 DEF Pack
<1>5. CASE JoinStale
  BY <1>5 DEF JoinStale
<1>6. CASE BeginScan
  BY <1>6 DEF BeginScan
<1>7. CASE CreateThread
  BY <1>7 DEF CreateThread
<1>8. CASE NoThread
  BY <1>8 DEF NoThread
<1>9. CASE KeepThread
  BY <1>9 DEF KeepThread
<1>10. CASE StopWorker
  BY <1>10 DEF StopWorker
<1>11. CASE JoinStopped
  BY <1>11 DEF JoinStopped
<1>12. CASE Lowered
  BY <1>12 DEF Lowered
<1>13. CASE Starved
  BY <1>13 DEF Starved
<1>14. CASE SetStatusThrows
  BY <1>14 DEF SetStatusThrows
<1> QED
  BY <1>1, <1>2, <1>3, <1>4, <1>5, <1>6, <1>7, <1>8, <1>9, <1>10, <1>11, <1>12, <1>13,
     <1>14
  DEF UiStep

LEMMA WorkerSink == ASSUME Inv, WorkerStep PROVE SinkInv'
<1> USE StageFacts DEF Inv, TypeOK, SinkInv, Live, Starting
<1>1. CASE Phase1
  BY <1>1 DEF Phase1, FailWith
<1>2. CASE Prompt
  BY <1>2 DEF Prompt, WorkerSetStatus
<1>3. CASE Gate
  BY <1>3 DEF Gate
<1>4. CASE Phase2
  BY <1>4 DEF Phase2, FailWith
<1>5. CASE ScanThrows
  BY <1>5 DEF ScanThrows
<1>6. CASE Failing
  BY <1>6 DEF Failing, WorkerSetStatus
<1>7. CASE FailingLate
  BY <1>7 DEF FailingLate, WorkerSetStatus
<1>8. CASE WorkerShow
  BY <1>8 DEF WorkerShow
<1>9. CASE Publish
  BY <1>9 DEF Publish
<1>10. CASE Announce
  BY <1>10 DEF Announce, WorkerSetStatus
<1>11. CASE Notify
  BY <1>11 DEF Notify
<1>12. CASE Finish
  BY <1>12 DEF Finish
<1> QED
  BY <1>1, <1>2, <1>3, <1>4, <1>5, <1>6, <1>7, <1>8, <1>9, <1>10, <1>11, <1>12
  DEF WorkerStep, ScanStep

\* Every action keeps what a scan relies on.
LEMMA LogonUIScan == ASSUME Inv, LogonUI PROVE ScanInv'
<1> USE StageFacts DEF Inv, TypeOK, FlagInv, ScanInv, Live, Starting, GoTo, Say, SayThen
<1>1. CASE Advise
  BY <1>1 DEF Advise
<1>2. CASE Unhook
  BY <1>2 DEF Unhook
<1>3. CASE SetSelected
  BY <1>3 DEF SetSelected, SetSelectedText
<1>4. CASE SetDeselected
  BY <1>4 DEF SetDeselected
<1>5. CASE Submit
  <2>1. CASE GetSerialization
    BY <1>5, <2>1 DEF Submit, GetSerialization
  <2>2. CASE CopyThrows
    BY <1>5, <2>2 DEF Submit, CopyThrows
  <2> QED
    BY <1>5, <2>1, <2>2 DEF Submit
<1>6. CASE Enumerate
  BY <1>6 DEF Enumerate
<1>7. CASE ReportSuccess
  BY <1>7 DEF ReportSuccess
<1>8. CASE ReportFailure
  BY <1>8 DEF ReportFailure
<1> QED
  BY <1>1, <1>2, <1>3, <1>4, <1>5, <1>6, <1>7, <1>8
  DEF LogonUI

LEMMA UiScan == ASSUME Inv, UiStep \/ SetStatusThrows PROVE ScanInv'
<1> USE StageFacts DEF Inv, TypeOK, FlagInv, SinkInv, ScanInv, Live, Starting, GoTo, Say, SayThen
<1>1. CASE SetStatus
  BY <1>1 DEF SetStatus
<1>2. CASE SetFieldString
  BY <1>2 DEF SetFieldString
<1>3. CASE AutoLogon
  <2>1. CASE GetSerialization
    BY <1>3, <2>1 DEF AutoLogon, GetSerialization
  <2>2. CASE CopyThrows
    BY <1>3, <2>2 DEF AutoLogon, CopyThrows
  <2> QED
    BY <1>3, <2>1, <2>2 DEF AutoLogon
<1>4. CASE Pack
  BY <1>4 DEF Pack
<1>5. CASE JoinStale
  BY <1>5 DEF JoinStale
<1>6. CASE BeginScan
  BY <1>6 DEF BeginScan
<1>7. CASE CreateThread
  BY <1>7 DEF CreateThread
<1>8. CASE NoThread
  BY <1>8 DEF NoThread
<1>9. CASE KeepThread
  BY <1>9 DEF KeepThread
<1>10. CASE StopWorker
  BY <1>10 DEF StopWorker
<1>11. CASE JoinStopped
  BY <1>11 DEF JoinStopped
<1>12. CASE Lowered
  BY <1>12 DEF Lowered
<1>13. CASE Starved
  BY <1>13 DEF Starved
<1>14. CASE SetStatusThrows
  BY <1>14 DEF SetStatusThrows
<1> QED
  BY <1>1, <1>2, <1>3, <1>4, <1>5, <1>6, <1>7, <1>8, <1>9, <1>10, <1>11, <1>12, <1>13,
     <1>14
  DEF UiStep

LEMMA WorkerScan == ASSUME Inv, WorkerStep PROVE ScanInv'
<1> USE StageFacts DEF Inv, TypeOK, FlagInv, ScanInv, Live, Starting, Abandoned
<1>1. CASE Phase1
  BY <1>1 DEF Phase1, FailWith
<1>2. CASE Prompt
  BY <1>2 DEF Prompt, WorkerSetStatus
<1>3. CASE Gate
  BY <1>3 DEF Gate
<1>4. CASE Phase2
  BY <1>4 DEF Phase2, FailWith
<1>5. CASE ScanThrows
  BY <1>5 DEF ScanThrows
<1>6. CASE Failing
  BY <1>6 DEF Failing, WorkerSetStatus
<1>7. CASE FailingLate
  BY <1>7 DEF FailingLate, WorkerSetStatus
<1>8. CASE WorkerShow
  BY <1>8 DEF WorkerShow
<1>9. CASE Publish
  BY <1>9 DEF Publish
<1>10. CASE Announce
  BY <1>10 DEF Announce, WorkerSetStatus
<1>11. CASE Notify
  BY <1>11 DEF Notify
<1>12. CASE Finish
  BY <1>12 DEF Finish
<1> QED
  BY <1>1, <1>2, <1>3, <1>4, <1>5, <1>6, <1>7, <1>8, <1>9, <1>10, <1>11, <1>12
  DEF WorkerStep, ScanStep

LEMMA InvStep == Inv /\ [Next]_vars => Inv'
<1> SUFFICES ASSUME Inv, [Next]_vars PROVE Inv'
  OBVIOUS
<1>1. CASE UNCHANGED vars
  <2> USE <1>1 DEF vars, Inv
  <2>1. TypeOK'
    BY DEF TypeOK
  <2>2. FlagInv'
    BY DEF FlagInv, Live, Starting
  <2>3. SinkInv'
    BY DEF SinkInv, Live, Starting
  <2>4. ScanInv'
    BY DEF ScanInv, Starting
  <2> QED
    BY <2>1, <2>2, <2>3, <2>4
<1> QED
  BY <1>1, LogonUITypes, LogonUIFlag, LogonUISink, LogonUIScan, UiTypes, UiFlag,
     UiSink, UiScan, WorkerTypes, WorkerFlag, WorkerSink, WorkerScan
  DEF Next, Gone, Inv

LEMMA InvAlways == Spec => []Inv
  BY InvInit, InvStep, PTL DEF Spec

\* Every variable keeps its type.
THEOREM TypeCorrect == Spec => []TypeOK
<1>1. Inv => TypeOK
  BY DEF Inv
<1> QED
  BY <1>1, InvAlways, PTL

\* m_scanning is up exactly while a scan's thread runs, whenever LogonUI may
\* call, except when memory ran out for StartWorker's line after it was raised:
\* then it has no thread, until UnAdvise.  No second scan runs beside one; and
\* when UnAdvise or the destructor has returned, the tile has no thread.
THEOREM ScansAreOwned == Spec => []ScanOwned
<1>1. Inv => (ui = "idle" => (scanning <=> worker \in Running \/ stranded))
  BY DEF Inv, FlagInv, Live, Starting
<1>3. Inv => (stranded => worker = "ended")
  BY DEF Inv, TypeOK, FlagInv, Live
<1>2. Inv => (ui \in {"idle", "gone"} /\ ~advised => worker = "ended")
  BY DEF Inv, TypeOK, SinkInv, Live
<1> QED
  BY <1>1, <1>2, <1>3, InvAlways, PTL DEF ScanOwned

-----------------------------------------------------------------------------
(* The tile implements TileOffer.                                          *)

LEMMA OfferInit == Init => Offer!Init
  BY StageFacts DEF Init, Offer!Init, Scan

\* The calls that leave the promise where it was.
LEMMA UiIsStutter ==
  ASSUME Inv,
         \/ Advise \/ Unhook \/ SetSelected \/ Submit \/ Enumerate \/ ReportSuccess
         \/ SetStatus \/ SetFieldString \/ AutoLogon \/ JoinStale \/ NoThread
         \/ KeepThread \/ JoinStopped \/ Starved \/ SetStatusThrows
  PROVE  UNCHANGED Offer!vars
<1>1. worker' = worker /\ abort' = abort /\ disabled' = disabled
  BY DEF Advise, Unhook, SetSelected, Submit, Enumerate, ReportSuccess, SetStatus,
         SetFieldString, AutoLogon, JoinStale, NoThread, KeepThread, JoinStopped,
         GetSerialization, CopyThrows, Starved, SetStatusThrows
<1>2. selected' = selected \/ selected' = TRUE
  <2>1. CASE SetSelected \/ Enumerate
    BY <2>1 DEF SetSelected, Enumerate
  <2>2. CASE ~(SetSelected \/ Enumerate)
    BY <2>2 DEF Advise, Unhook, Submit, ReportSuccess, SetStatus, SetFieldString,
                AutoLogon, JoinStale, NoThread, KeepThread, JoinStopped,
                GetSerialization, CopyThrows, Starved, SetStatusThrows
  <2> QED
    BY <2>1, <2>2
<1>3. haveResult' = haveResult
  <2>1. CASE Submit \/ AutoLogon
    BY <2>1 DEF Submit, AutoLogon, GetSerialization, CopyThrows, Inv, ScanInv, TypeOK
  <2>2. CASE ~(Submit \/ AutoLogon)
    BY <2>2 DEF Advise, Unhook, SetSelected, Enumerate, ReportSuccess, SetStatus,
                SetFieldString, JoinStale, NoThread, KeepThread, JoinStopped, Starved,
                SetStatusThrows
  <2> QED
    BY <2>1, <2>2
<1>4. Scan' = Scan
  BY <1>1, <1>2 DEF Scan, Abandoned, Inv, ScanInv, TypeOK
<1> QED
  BY <1>1, <1>3, <1>4 DEF Offer!vars

LEMMA UiIsOffer ==
  ASSUME Inv, UiStep \/ SetStatusThrows \/ LogonUI
  PROVE  Offer!Next \/ UNCHANGED Offer!vars
<1> USE StageFacts DEF Offer!vars, Scan, Abandoned, GoTo, Say, SayThen
<1>1. ASSUME SetDeselected PROVE Offer!WalkAway \/ UNCHANGED Offer!vars
  BY <1>1 DEF SetDeselected, Offer!WalkAway
<1>2. ASSUME StopWorker PROVE Offer!WalkAway \/ UNCHANGED Offer!vars
  BY <1>2 DEF StopWorker, Offer!WalkAway
<1>3. ASSUME Pack PROVE Offer!Take \/ UNCHANGED Offer!vars
  BY <1>3 DEF Pack, Offer!Take, Inv, TypeOK
<1>4. ASSUME Lowered PROVE Offer!Take \/ UNCHANGED Offer!vars
  <2>1. haveResult' = FALSE \/ haveResult' = haveResult
    BY <1>4 DEF Lowered, Inv, TypeOK
  <2> QED
    BY <1>4, <2>1 DEF Lowered, Offer!Take, Inv, TypeOK
<1>5. ASSUME ReportFailure PROVE Offer!Bar \/ UNCHANGED Offer!vars
  BY <1>5 DEF ReportFailure, Offer!Bar, Inv, ScanInv, TypeOK
<1>6. ASSUME BeginScan PROVE UNCHANGED Offer!vars
  BY <1>6 DEF BeginScan, Inv, FlagInv, Live
<1>7. ASSUME CreateThread PROVE Offer!Begin
  BY <1>7 DEF CreateThread, Offer!Begin, Inv, FlagInv, ScanInv, Live, Starting
<1> QED
  BY <1>1, <1>2, <1>3, <1>4, <1>5, <1>6, <1>7, UiIsStutter
  DEF UiStep, LogonUI, Offer!Next

LEMMA WorkerIsOffer ==
  ASSUME Inv, WorkerStep
  PROVE  Offer!Next \/ UNCHANGED Offer!vars
<1> USE StageFacts DEF Offer!vars, Scan, Abandoned
<1>1. ASSUME Phase1 PROVE UNCHANGED Offer!vars
  BY <1>1 DEF Phase1, FailWith
<1>2. ASSUME Phase2 PROVE UNCHANGED Offer!vars
  BY <1>2 DEF Phase2, FailWith
<1>3. ASSUME Gate \/ Prompt \/ Failing PROVE Offer!Fail \/ UNCHANGED Offer!vars
  <2>1. CASE Gate
    BY <2>1 DEF Gate, Offer!Fail
  <2>2. CASE Prompt
    BY <2>2 DEF Prompt, WorkerSetStatus, Offer!Fail
  <2>3. CASE Failing
    BY <2>3 DEF Failing, WorkerSetStatus, Offer!Fail
  <2> QED
    BY <1>3, <2>1, <2>2, <2>3
<1>4. ASSUME FailingLate \/ Announce PROVE UNCHANGED Offer!vars
  BY <1>4 DEF FailingLate, Announce, WorkerSetStatus
<1>5. ASSUME ScanThrows PROVE Offer!Fail \/ UNCHANGED Offer!vars
  BY <1>5 DEF ScanThrows, Offer!Fail
<1>6. ASSUME WorkerShow PROVE Offer!Fail \/ UNCHANGED Offer!vars
  BY <1>6 DEF WorkerShow, Offer!Fail
<1>7. ASSUME Publish PROVE Offer!Publish \/ Offer!Fail
  BY <1>7 DEF Publish, Offer!Publish, Offer!Fail, Inv, ScanInv, TypeOK
<1>8. ASSUME Notify \/ Finish PROVE UNCHANGED Offer!vars
  BY <1>8 DEF Notify, Finish
<1> QED
  BY <1>1, <1>2, <1>3, <1>4, <1>5, <1>6, <1>7, <1>8 DEF WorkerStep, ScanStep, Offer!Next

LEMMA OfferStep == Inv /\ [Next]_vars => [Offer!Next]_(Offer!vars)
<1> SUFFICES ASSUME Inv, [Next]_vars
             PROVE  Offer!Next \/ UNCHANGED Offer!vars
  OBVIOUS
<1>1. CASE UNCHANGED vars
  BY <1>1 DEF vars, Offer!vars, Scan, Abandoned
<1> QED
  BY <1>1, UiIsOffer, WorkerIsOffer DEF Next, Gone

\* The two threads and their flags offer what TileOffer promises: one
\* credential per scan, none for a scan the user left, none after a rejection.
THEOREM ImplementsOffer == Spec => IsATile
  BY InvAlways, OfferInit, OfferStep, PTL DEF Spec, IsATile, Offer!Spec

HIDE DEF flags, ui_vars

-----------------------------------------------------------------------------
(***************************************************************************)
(* Flattening a sequence of sequences, and induction over the naturals,    *)
(* which the well-founded order on them gives.                             *)
(***************************************************************************)

\* Less-than on the naturals, as the relation the library proves well-founded.
LEMMA LessRelation == OpToRel(<, Nat) = {ss \in Nat \X Nat : ss[1] < ss[2]}
BY DEF OpToRel

\* A set of naturals with a member has a smallest one.
LEMMA Smallest ==
  ASSUME NEW T \in SUBSET Nat, T # {}
  PROVE  \E x \in T : \A y \in T : x <= y
<1> DEFINE R == {ss \in Nat \X Nat : ss[1] < ss[2]}
<1>1. IsWellFoundedOn(R, Nat)
  BY NatLessThanWellFounded, LessRelation, Zenon
<1>4. ASSUME NEW i \in Nat, NEW j \in Nat, i < j PROVE <<i, j>> \in R
  BY <1>4
<1>2. PICK x \in T : \A y \in T : ~(<<y, x>> \in R)
  <2> HIDE DEF R
  <2> QED BY <1>1, WFMin, Zenon
<1>3. ASSUME NEW y \in T PROVE x <= y
  <2> HIDE DEF R
  <2>1. x \in Nat /\ y \in Nat /\ <<y, x>> \notin R
    BY <1>2
  <2> QED BY <2>1, <1>4
<1> QED BY <1>3

\* What holds of 0, and of the next number whenever of one, holds of all.
LEMMA EveryNatural ==
  ASSUME NEW Q \in SUBSET Nat, 0 \in Q, \A n \in Q : n + 1 \in Q
  PROVE  Q = Nat
<1> SUFFICES ASSUME Nat \ Q # {} PROVE FALSE
  OBVIOUS
<1>1. PICK x \in Nat \ Q : \A y \in Nat \ Q : x <= y
  BY Smallest
<1>2. x # 0 /\ x - 1 \in Nat /\ x - 1 \in Q
  BY <1>1
<1> QED BY <1>2

\* What holds at a and passes from each number to the next holds up to b.
LEMMA EveryUpTo ==
  ASSUME NEW a \in Nat, NEW b \in Nat, a <= b, NEW Q \in SUBSET Nat, a \in Q,
         \A n \in (a + 1) .. b : n - 1 \in Q => n \in Q
  PROVE  b \in Q
<1> DEFINE R == {n \in Nat : a + n <= b => a + n \in Q}
<1>1. 0 \in R
  OBVIOUS
<1>2. ASSUME NEW n \in R PROVE n + 1 \in R
  <2> SUFFICES ASSUME a + (n + 1) <= b PROVE a + (n + 1) \in Q
    OBVIOUS
  <2>1. a + n \in Q /\ a + (n + 1) \in (a + 1) .. b /\ (a + (n + 1)) - 1 = a + n
    OBVIOUS
  <2> QED BY <2>1
<1>3. R = Nat
  <2> HIDE DEF R
  <2>1. R \in SUBSET Nat
    BY DEF R
  <2> QED BY <1>1, <1>2, <2>1, EveryNatural
<1>4. b - a \in Nat /\ a + (b - a) = b
  OBVIOUS
<1>5. b - a \in R
  BY <1>3, <1>4
<1> QED BY <1>4, <1>5

\* the table behind FlattenSeq
Table(ss, f) == f = [i \in 1 .. Len(ss) |-> IF i = 1 THEN ss[i] ELSE f[i - 1] \o ss[i]]

\* The table behind FlattenSeq: what each first part of ss flattens to.
LEMMA TableExists ==
  ASSUME NEW S, NEW ss \in Seq(Seq(S))
  PROVE  \E f : Table(ss, f)
<1> DEFINE Upto(n, f) == f = [i \in 1 .. n |-> IF i = 1 THEN ss[i] ELSE f[i - 1] \o ss[i]]
           Some(n) == \E f : Upto(n, f)
           Q == {n \in Nat : Some(n)}
<1>1. Some(0)
  <2>1. Upto(0, [i \in 1 .. 0 |-> <<>>])
    OBVIOUS
  <2> QED BY <2>1
<1>2. ASSUME NEW n \in Nat, Some(n) PROVE Some(n + 1)
  <2>2. PICK f : Upto(n, f)
    BY <1>2
  <2> DEFINE g == [i \in 1 .. n + 1 |-> IF i = 1 THEN ss[i] ELSE f[i - 1] \o ss[i]]
  <2>3. ASSUME NEW i \in 1 .. n PROVE g[i] = f[i]
    <3>1. g[i] = IF i = 1 THEN ss[i] ELSE f[i - 1] \o ss[i]
      OBVIOUS
    <3>2. f[i] = IF i = 1 THEN ss[i] ELSE f[i - 1] \o ss[i]
      BY <2>2, Zenon
    <3> QED BY <3>1, <3>2
  <2>4. ASSUME NEW i \in 1 .. n + 1, i # 1 PROVE g[i - 1] = f[i - 1]
    <3>1. i - 1 \in 1 .. n
      BY <2>4
    <3> HIDE DEF g
    <3> QED BY <2>3, <3>1
  <2>5. g = [i \in 1 .. n + 1 |-> IF i = 1 THEN ss[i] ELSE g[i - 1] \o ss[i]]
    <3> DEFINE h == [i \in 1 .. n + 1 |-> IF i = 1 THEN ss[i] ELSE g[i - 1] \o ss[i]]
    <3>1. ASSUME NEW i \in 1 .. n + 1 PROVE h[i] = g[i]
      <4>1. h[i] = IF i = 1 THEN ss[i] ELSE g[i - 1] \o ss[i]
        BY Zenon
      <4>2. g[i] = IF i = 1 THEN ss[i] ELSE f[i - 1] \o ss[i]
        BY Zenon
      <4> HIDE DEF g, h
      <4> QED BY <4>1, <4>2, <2>4
    <3> QED BY <3>1
  <2> QED BY <2>5, Zenon
<1>3. Q = Nat
  <2>1. 0 \in Q /\ \A n \in Q : n + 1 \in Q
    <3> HIDE DEF Some
    <3> QED BY <1>1, <1>2
  <2> HIDE DEF Q
  <2>2. Q \in SUBSET Nat
    BY DEF Q
  <2> QED BY <2>1, <2>2, EveryNatural, Zenon
<1>4. Some(Len(ss))
  <2> HIDE DEF Some
  <2> QED BY <1>3
<1> QED BY <1>4, Zenon DEF Table

\* Nothing flattens to nothing.
LEMMA FlattenNone == FlattenSeq(<<>>) = <<>>
BY DEF FlattenSeq

\* FlattenSeq reads the last entry of that table.
LEMMA FlattenTable ==
  ASSUME NEW S, NEW ss \in Seq(Seq(S)), ss # <<>>
  PROVE  \E f : Table(ss, f) /\ FlattenSeq(ss) = f[Len(ss)]
<1> DEFINE F == CHOOSE f : Table(ss, f)
<1>1. Table(ss, F)
  BY TableExists
<1>2. FlattenSeq(ss) = F[Len(ss)]
  BY DEF FlattenSeq, Table
<1> QED BY <1>1, <1>2

\* The first i of a sequence.
LEMMA PrefixGrows ==
  ASSUME NEW S, NEW s \in Seq(S), NEW i \in 1 .. Len(s)
  PROVE  /\ SubSeq(s, 1, i) = Append(SubSeq(s, 1, i - 1), s[i])
         /\ SubSeq(s, 1, i) \in Seq(S) /\ SubSeq(s, 1, i - 1) \in Seq(S)
         /\ SubSeq(s, 1, 0) = <<>> /\ SubSeq(s, 1, Len(s)) = s
OBVIOUS

\* One sequence more puts its elements at the end.
LEMMA FlattenAppend ==
  ASSUME NEW S, NEW ss \in Seq(Seq(S)), NEW x \in Seq(S)
  PROVE  FlattenSeq(Append(ss, x)) = FlattenSeq(ss) \o x
<1> DEFINE tt == Append(ss, x)
<1>1. tt \in Seq(Seq(S)) /\ tt # <<>> /\ Len(tt) = Len(ss) + 1 /\ tt[Len(ss) + 1] = x
  BY AppendProperties
<1>2. \A i \in 1 .. Len(ss) : tt[i] = ss[i]
  OBVIOUS
<1> HIDE DEF tt
<1>3. PICK g : Table(tt, g) /\ FlattenSeq(tt) = g[Len(ss) + 1]
  BY <1>1, FlattenTable
<1>4. ASSUME NEW i \in 1 .. Len(ss) + 1
      PROVE  g[i] = IF i = 1 THEN tt[i] ELSE g[i - 1] \o tt[i]
  BY <1>3, <1>1 DEF Table
<1>5. CASE ss = <<>>
  <2>1. FlattenSeq(tt) = x
    BY <1>3, <1>4, <1>1, <1>5
  <2>2. <<>> \o x = x
    OBVIOUS
  <2> QED BY <2>1, <2>2, <1>5, FlattenNone DEF tt
<1>6. CASE ss # <<>>
  <2>1. PICK f : Table(ss, f) /\ FlattenSeq(ss) = f[Len(ss)]
    BY <1>6, FlattenTable
  <2>2. ASSUME NEW i \in 1 .. Len(ss)
        PROVE  f[i] = IF i = 1 THEN ss[i] ELSE f[i - 1] \o ss[i]
    BY <2>1 DEF Table
  <2> DEFINE Q == {n \in Nat : f[n] = g[n]}
  <2>0. Len(ss) \in Nat /\ 1 <= Len(ss)
    BY <1>6
  <2>3. 1 \in Q
    <3>1. 1 \in 1 .. Len(ss) /\ 1 \in 1 .. Len(ss) + 1
      BY <2>0
    <3>2. f[1] = ss[1] /\ g[1] = tt[1]
      BY <2>2, <1>4, <3>1
    <3> QED BY <3>1, <3>2, <1>2
  <2>4. ASSUME NEW n \in 2 .. Len(ss), n - 1 \in Q PROVE n \in Q
    <3>1. f[n - 1] = g[n - 1] /\ n \in 1 .. Len(ss) /\ n \in 1 .. Len(ss) + 1 /\ n # 1
      BY <2>4
    <3>2. f[n] = f[n - 1] \o ss[n] /\ g[n] = g[n - 1] \o tt[n]
      BY <2>2, <1>4, <3>1, Zenon
    <3>3. tt[n] = ss[n]
      BY <1>2, <3>1
    <3>4. f[n] = g[n]
      BY <3>1, <3>2, <3>3, Zenon
    <3>5. n \in Nat
      BY <2>0
    <3> QED BY <3>4, <3>5, Zenon
  <2>5. Len(ss) \in Q
    <3>1. Len(ss) \in Nat /\ 1 <= Len(ss)
      BY <1>6
    <3>2. Q \in SUBSET Nat
      OBVIOUS
    <3> HIDE DEF Q
    <3>3. \A n \in (1 + 1) .. Len(ss) : n - 1 \in Q => n \in Q
      BY <2>4
    <3> QED BY <2>3, <3>1, <3>2, <3>3, EveryUpTo
  <2>7. f[Len(ss)] = g[Len(ss)]
    BY <2>5
  <2>8. g[Len(ss) + 1] = g[Len(ss)] \o x
    <3>1. Len(ss) + 1 \in 1 .. Len(ss) + 1 /\ Len(ss) + 1 # 1 /\ (Len(ss) + 1) - 1 = Len(ss)
      BY <1>6
    <3> QED BY <1>4, <3>1, <1>1
  <2> QED BY <2>7, <2>8, <2>1, <1>3 DEF tt
<1> QED BY <1>5, <1>6

\* Sequences over S flatten to a sequence over S.
LEMMA FlattenTyped ==
  ASSUME NEW S, NEW ss \in Seq(Seq(S))
  PROVE  FlattenSeq(ss) \in Seq(S)
<1> DEFINE Flat(n) == FlattenSeq(SubSeq(ss, 1, n))
           Q == {n \in Nat : Flat(n) \in Seq(S)}
<1>1. Flat(0) \in Seq(S)
  <2>1. SubSeq(ss, 1, 0) = <<>> /\ <<>> \in Seq(S)
    OBVIOUS
  <2> QED BY <2>1, FlattenNone
<1>2. ASSUME NEW n \in 1 .. Len(ss), Flat(n - 1) \in Seq(S)
      PROVE  Flat(n) \in Seq(S)
  <2>1. /\ SubSeq(ss, 1, n) = Append(SubSeq(ss, 1, n - 1), ss[n])
        /\ SubSeq(ss, 1, n - 1) \in Seq(Seq(S)) /\ ss[n] \in Seq(S)
    OBVIOUS
  <2>2. Flat(n) = Flat(n - 1) \o ss[n]
    BY <2>1, FlattenAppend
  <2>3. Flat(n - 1) \in Seq(S)
    BY <1>2
  <2> HIDE DEF Flat
  <2> QED BY <2>3, <2>1, <2>2
<1>3. Len(ss) \in Q
  <2> HIDE DEF Flat
  <2>1. 0 \in Q /\ Q \in SUBSET Nat /\ Len(ss) \in Nat
    BY <1>1
  <2>2. \A n \in (0 + 1) .. Len(ss) : n - 1 \in Q => n \in Q
    BY <1>2
  <2> HIDE DEF Q
  <2> QED BY <2>1, <2>2, EveryUpTo
<1>4. Flat(Len(ss)) = FlattenSeq(ss)
  <2>1. SubSeq(ss, 1, Len(ss)) = ss
    OBVIOUS
  <2> QED BY <2>1
<1> HIDE DEF Flat
<1> QED BY <1>3, <1>4

\* Where the elements of two sequences are in their concatenation.
LEMMA ConcatAt ==
  ASSUME NEW S, NEW a \in Seq(S), NEW b \in Seq(S)
  PROVE  /\ a \o b \in Seq(S) /\ Len(a \o b) = Len(a) + Len(b)
         /\ Len(a) \in Nat /\ Len(b) \in Nat
         /\ \A q \in 1 .. Len(a) : (a \o b)[q] = a[q]
         /\ \A q \in 1 .. Len(b) : (a \o b)[Len(a) + q] = b[q]
OBVIOUS

\* Where the elements of ss begin in the flat sequence.
Off(ss, i) == Len(FlattenSeq(SubSeq(ss, 1, i)))

\* The first i sequences flattened, from the first i - 1.
LEMMA FlattenStep ==
  ASSUME NEW S, NEW ss \in Seq(Seq(S)), NEW i \in 1 .. Len(ss)
  PROVE  /\ FlattenSeq(SubSeq(ss, 1, i)) = FlattenSeq(SubSeq(ss, 1, i - 1)) \o ss[i]
         /\ FlattenSeq(SubSeq(ss, 1, i)) \in Seq(S)
         /\ FlattenSeq(SubSeq(ss, 1, i - 1)) \in Seq(S)
         /\ Off(ss, i) = Off(ss, i - 1) + Len(ss[i])
         /\ Off(ss, i) \in Nat /\ Off(ss, i - 1) \in Nat
<1>1. SubSeq(ss, 1, i) = Append(SubSeq(ss, 1, i - 1), ss[i])
  OBVIOUS
<1>2. SubSeq(ss, 1, i) \in Seq(Seq(S)) /\ SubSeq(ss, 1, i - 1) \in Seq(Seq(S)) /\ ss[i] \in Seq(S)
  OBVIOUS
<1>3. FlattenSeq(SubSeq(ss, 1, i)) = FlattenSeq(SubSeq(ss, 1, i - 1)) \o ss[i]
  BY <1>1, <1>2, FlattenAppend
<1>4. FlattenSeq(SubSeq(ss, 1, i)) \in Seq(S) /\ FlattenSeq(SubSeq(ss, 1, i - 1)) \in Seq(S)
  BY <1>2, FlattenTyped
<1> DEFINE before == FlattenSeq(SubSeq(ss, 1, i - 1))
           upto == FlattenSeq(SubSeq(ss, 1, i))
<1>5. upto = before \o ss[i] /\ upto \in Seq(S) /\ before \in Seq(S) /\ ss[i] \in Seq(S)
  BY <1>2, <1>3, <1>4
<1>6. Off(ss, i) = Len(upto) /\ Off(ss, i - 1) = Len(before)
  BY Zenon DEF Off
<1> HIDE DEF before, upto
<1>7. Len(upto) = Len(before) + Len(ss[i]) /\ Len(upto) \in Nat /\ Len(before) \in Nat
  BY <1>5, ConcatAt
<1> QED BY <1>5, <1>6, <1>7 DEF before, upto

\* Where the first begins, and where the last ends.
LEMMA OffEnds ==
  ASSUME NEW S, NEW ss \in Seq(Seq(S))
  PROVE  Off(ss, 0) = 0 /\ Off(ss, Len(ss)) = Len(FlattenSeq(ss))
<1>1. SubSeq(ss, 1, 0) = <<>> /\ SubSeq(ss, 1, Len(ss)) = ss
  OBVIOUS
<1>2. Off(ss, 0) = Len(<<>>)
  BY <1>1, FlattenNone, Zenon DEF Off
<1> QED BY <1>1, <1>2, Zenon, EmptySeq DEF Off

\* Element k of the i-th sequence, in the flat one.
LEMMA FlattenAt ==
  ASSUME NEW S, NEW ss \in Seq(Seq(S)), NEW i \in 1 .. Len(ss), NEW k \in 1 .. Len(ss[i])
  PROVE  /\ FlattenSeq(ss)[Off(ss, i - 1) + k] = ss[i][k]
         /\ Off(ss, i - 1) + k \in 1 .. Len(FlattenSeq(ss))
<1> DEFINE p == Off(ss, i - 1) + k
           Flat(m) == FlattenSeq(SubSeq(ss, 1, m))
           Shown(n) == Flat(n)[p] = ss[i][k] /\ p \in 1 .. Len(Flat(n))
           Q == {n \in Nat : Shown(n)}
<1>0. ss[i] \in Seq(S) /\ k \in Nat /\ k >= 1 /\ k <= Len(ss[i]) /\ Len(ss[i]) \in Nat
  OBVIOUS
<1>p. p = Len(Flat(i - 1)) + k /\ p \in Nat /\ p >= 1
  BY FlattenStep, <1>0 DEF Off
<1>1. Shown(i)
  <2>1. Flat(i) = Flat(i - 1) \o ss[i] /\ Flat(i - 1) \in Seq(S)
    BY FlattenStep
  <2> HIDE DEF Flat, p
  <2>5. Len(Flat(i)) = Len(Flat(i - 1)) + Len(ss[i]) /\ Len(Flat(i - 1)) \in Nat
    BY <2>1, <1>0, ConcatAt
  <2>6. Flat(i)[Len(Flat(i - 1)) + k] = ss[i][k]
    BY <2>1, <1>0, ConcatAt
  <2> QED BY <2>5, <2>6, <1>0, <1>p
<1>2. ASSUME NEW m \in (i + 1) .. Len(ss), Shown(m - 1) PROVE Shown(m)
  <2>1. m \in 1 .. Len(ss) /\ ss[m] \in Seq(S)
    OBVIOUS
  <2>2. Flat(m) = Flat(m - 1) \o ss[m] /\ Flat(m - 1) \in Seq(S)
    BY <2>1, FlattenStep
  <2> DEFINE a == Flat(m - 1)
             b == ss[m]
  <2>3. a[p] = ss[i][k] /\ p \in 1 .. Len(a)
    BY <1>2
  <2>4. Flat(m) = a \o b /\ a \in Seq(S) /\ b \in Seq(S)
    BY <2>1, <2>2
  <2> HIDE DEF Flat, p, a, b
  <2>5. Len(a \o b) = Len(a) + Len(b) /\ Len(a) \in Nat /\ Len(b) \in Nat
    BY <2>4, ConcatAt
  <2>6. (a \o b)[p] = a[p]
    BY <2>4, <2>3, ConcatAt
  <2>7. p \in 1 .. Len(a \o b)
    BY <2>3, <2>5
  <2> QED BY <2>3, <2>4, <2>6, <2>7
<1>3. Len(ss) \in Q
  <2>1. i \in Nat /\ Len(ss) \in Nat /\ i <= Len(ss)
    OBVIOUS
  <2> HIDE DEF Shown
  <2>2. i \in Q /\ Q \in SUBSET Nat
    BY <1>1, <2>1
  <2>3. \A n \in (i + 1) .. Len(ss) : n - 1 \in Q => n \in Q
    BY <1>2
  <2> HIDE DEF Q
  <2> QED BY <2>1, <2>2, <2>3, EveryUpTo
<1>4. Shown(Len(ss))
  <2> HIDE DEF Shown
  <2> QED BY <1>3
<1>5. Flat(Len(ss)) = FlattenSeq(ss)
  <2>1. SubSeq(ss, 1, Len(ss)) = ss
    OBVIOUS
  <2> QED BY <2>1
<1> HIDE DEF Flat
<1> QED BY <1>4, <1>5

-----------------------------------------------------------------------------
(***************************************************************************)
(* Tokens, characters and texts.                                           *)
(***************************************************************************)

\* The fields' names, the values that are no texts, and the texts the service always sends.
KeyNames == {"ok", "username", "password", "domain", "reason", "distance", "real",
             "gesture", "token", "prompt", "ttl_s"}
Literals == {"true", "false", "0.5", "15"}
Constants == {"needs-gesture", "nod", "f0"}

\* The characters json.dumps escapes.
Named == {"quote", "backslash", "newline", "nul", "accent", "high", "low", "astral"}

\* Every token and every character.
Symbols ==
  Alphabet \cup Refusals \cup KeyNames \cup Literals \cup Constants \cup Named
    \cup {"{", "}", ":", ",", " ", "\n", "u", "n", "0000", "00E9", Quote, Backslash,
          High, Low, Unpaired}

\* What a text is made of.
Chars == {c \in Symbols : PlainText(c) \/ c \in Named}

\* Their escapes.
LEMMA EscapedNamed ==
  /\ DOMAIN Escapes = Named
  /\ Escaped("quote") = <<Backslash, Quote>>
  /\ Escaped("backslash") = <<Backslash, Backslash>>
  /\ Escaped("newline") = <<Backslash, "n">>
  /\ Escaped("nul") = <<Backslash, "u", "0000">>
  /\ Escaped("accent") = <<Backslash, "u", "00E9">>
  /\ Escaped("high") = <<Backslash, "u", High>>
  /\ Escaped("low") = <<Backslash, "u", Low>>
  /\ Escaped("astral") = <<Backslash, "u", High, Backslash, "u", Low>>
BY DEF Escaped, Escapes, Named

\* What stands for itself.
LEMMA EscapedPlain ==
  ASSUME NEW c, PlainText(c)
  PROVE  /\ Escaped(c) = <<c>> /\ c \notin Named
         /\ c # Quote /\ c # Backslash /\ c # Unpaired
BY EscapedNamed DEF Escaped, PlainText

\* Short tuples are sequences.
LEMMA TupleTyped ==
  ASSUME NEW S, NEW a \in S
  PROVE  /\ <<a>> \in Seq(S) /\ Len(<<a>>) = 1 /\ <<a>>[1] = a
         /\ \A b \in S : <<a, b>> \in Seq(S) /\ Len(<<a, b>>) = 2
         /\ \A b, c \in S : <<a, b, c>> \in Seq(S) /\ Len(<<a, b, c>>) = 3
         /\ \A b, c, d \in S : /\ <<a, b, c, a, b, d>> \in Seq(S)
                               /\ Len(<<a, b, c, a, b, d>>) = 6
OBVIOUS

\* A character is one, two, three or six tokens.
LEMMA EscapedTyped ==
  ASSUME NEW c \in Chars
  PROVE  Escaped(c) \in Seq(Symbols) /\ Len(Escaped(c)) \in {1, 2, 3, 6}
<1>1. {"n", "u", "0000", "00E9", High, Low, Quote, Backslash} \subseteq Symbols
      /\ c \in Symbols
  BY DEF Symbols, Chars
<1>2. CASE PlainText(c)
  <2>1. Escaped(c) = <<c>>
    BY <1>2, EscapedPlain
  <2>2. <<c>> \in Seq(Symbols) /\ Len(<<c>>) = 1
    BY <1>1, TupleTyped
  <2> QED BY <2>1, <2>2
<1>3. CASE c \in {"quote", "backslash", "newline"}
  <2>1. \E b \in Symbols : Escaped(c) = <<Backslash, b>>
    BY <1>1, <1>3, EscapedNamed
  <2> QED BY <1>1, <2>1, TupleTyped
<1>4. CASE c \in {"nul", "accent", "high", "low"}
  <2>1. \E b \in Symbols : Escaped(c) = <<Backslash, "u", b>>
    BY <1>1, <1>4, EscapedNamed
  <2> QED BY <1>1, <2>1, TupleTyped
<1>5. CASE c = "astral"
  <2>1. Escaped(c) = <<Backslash, "u", High, Backslash, "u", Low>>
    BY <1>5, EscapedNamed
  <2> QED BY <1>1, <2>1, TupleTyped
<1> QED BY <1>2, <1>3, <1>4, <1>5 DEF Named, Chars

\* No name or fixed text of the service needs an escape.
LEMMA NamesPlain ==
  ASSUME NEW k \in KeyNames \cup Constants
  PROVE  PlainText(k) /\ k \in Chars
<1>1. k \notin Named
  BY DEF KeyNames, Constants, Named
<1>2. k # Quote /\ k # Backslash /\ k # Unpaired
  BY DEF KeyNames, Constants, Quote, Backslash, Unpaired
<1>3. k \in Symbols
  BY DEF Symbols
<1> QED BY <1>1, <1>2, <1>3, EscapedNamed DEF PlainText, Chars

\* The texts a service may hold are made of characters.
LEMMA GivenChars == Alphabet \cup Refusals \subseteq Chars
BY ReplyAssumption, EscapedNamed DEF Chars, Symbols

\* The tokens of a text's characters.
Escaping(s) == [i \in DOMAIN s |-> Escaped(s[i])]

\* They are tokens, character by character.
LEMMA EscapingTyped ==
  ASSUME NEW s \in Seq(Chars)
  PROVE  /\ Escaping(s) \in Seq(Seq(Symbols)) /\ Len(Escaping(s)) = Len(s)
         /\ \A i \in 1 .. Len(s) : Escaping(s)[i] = Escaped(s[i]) /\ s[i] \in Chars
<1>1. DOMAIN s = 1 .. Len(s) /\ Len(s) \in Nat /\ \A i \in 1 .. Len(s) : s[i] \in Chars
  OBVIOUS
<1>3. \A i \in 1 .. Len(s) : Escaped(s[i]) \in Seq(Symbols)
  BY <1>1, EscapedTyped
<1>4. Escaping(s) = [i \in 1 .. Len(s) |-> Escaped(s[i])]
  BY <1>1, Zenon DEF Escaping
<1> QED BY <1>1, <1>3, <1>4

\* A quoted text: where its characters are.
LEMMA QuotedAt ==
  ASSUME NEW s \in Seq(Chars), NEW E, E = Escaping(s)
  PROVE  /\ Quoted(s) \in Seq(Symbols) /\ Len(Quoted(s)) = Off(E, Len(s)) + 2
         /\ Quoted(s)[1] = Quote /\ Quoted(s)[Off(E, Len(s)) + 2] = Quote
         /\ Off(E, 0) = 0 /\ Off(E, Len(s)) \in Nat
         /\ \A j \in 1 .. Len(s) :
              /\ Off(E, j) = Off(E, j - 1) + Len(Escaped(s[j]))
              /\ Off(E, j) \in Nat /\ Off(E, j - 1) \in Nat
              /\ Off(E, j) <= Off(E, Len(s))
              /\ \A k \in 1 .. Len(Escaped(s[j])) :
                   Quoted(s)[1 + Off(E, j - 1) + k] = Escaped(s[j])[k]
<1> DEFINE F == FlattenSeq(E)
<1>1. E \in Seq(Seq(Symbols)) /\ Len(E) = Len(s) /\ Len(s) \in Nat
  BY EscapingTyped
<1>2. Quoted(s) = <<Quote>> \o F \o <<Quote>>
  BY Zenon DEF Quoted, Escaping
<1>3. F \in Seq(Symbols) /\ Off(E, 0) = 0 /\ Off(E, Len(s)) = Len(F) /\ Len(F) \in Nat
  BY <1>1, FlattenTyped, OffEnds
<1>4. Quote \in Symbols
  BY DEF Symbols
<1>5. ASSUME NEW i \in 1 .. Len(s)
      PROVE  /\ E[i] = Escaped(s[i]) /\ i \in 1 .. Len(E)
             /\ Len(E[i]) \in Nat /\ Len(E[i]) >= 1 /\ Len(E[i]) \in 1 .. Len(E[i])
  <2>1. s[i] \in Chars /\ E[i] = Escaped(s[i]) /\ i \in 1 .. Len(E)
    BY EscapingTyped, <1>1
  <2>2. Len(E[i]) \in {1, 2, 3, 6}
    BY <2>1, EscapedTyped
  <2>3. ASSUME NEW n \in {1, 2, 3, 6} PROVE n \in Nat /\ n >= 1 /\ n \in 1 .. n
    OBVIOUS
  <2> QED BY <2>1, <2>2, <2>3, Zenon
<1>6. ASSUME NEW i \in 1 .. Len(s), NEW k \in 1 .. Len(E[i])
      PROVE  /\ F[Off(E, i - 1) + k] = E[i][k]
             /\ Off(E, i - 1) + k \in 1 .. Len(F)
  BY <1>5, <1>1, FlattenAt, Zenon
<1>7. ASSUME NEW i \in 1 .. Len(s)
      PROVE  /\ Off(E, i) = Off(E, i - 1) + Len(E[i])
             /\ Off(E, i) \in Nat /\ Off(E, i - 1) \in Nat
             /\ Off(E, i) <= Off(E, Len(s))
  <2>1. Off(E, i) = Off(E, i - 1) + Len(E[i]) /\ Off(E, i) \in Nat /\ Off(E, i - 1) \in Nat
    BY <1>5, <1>1, FlattenStep, Zenon
  <2>2. Off(E, i - 1) + Len(E[i]) \in 1 .. Len(F)
    BY <1>5, <1>6, Zenon
  <2> HIDE DEF F
  <2> QED BY <2>1, <2>2, <1>3
<1> HIDE DEF F
<1>8. Quoted(s) \in Seq(Symbols) /\ Len(Quoted(s)) = Len(F) + 2 /\ Quoted(s)[1] = Quote
      /\ Quoted(s)[Len(F) + 2] = Quote
      /\ \A q \in 1 .. Len(F) : Quoted(s)[1 + q] = F[q]
  BY <1>2, <1>3, <1>4
<1>9. ASSUME NEW i \in 1 .. Len(s), NEW k \in 1 .. Len(E[i])
      PROVE  Quoted(s)[1 + Off(E, i - 1) + k] = E[i][k]
  <2>1. PICK q : q = Off(E, i - 1) + k
    OBVIOUS
  <2>2. F[q] = E[i][k] /\ q \in 1 .. Len(F)
    BY <2>1, <1>6
  <2>3. 1 + Off(E, i - 1) + k = 1 + q
    BY <2>1, <1>7, <1>5
  <2> QED BY <2>2, <2>3, <1>8
<1>10. ASSUME NEW i \in 1 .. Len(s)
       PROVE  \A k \in 1 .. Len(Escaped(s[i])) :
                   Quoted(s)[1 + Off(E, i - 1) + k] = Escaped(s[i])[k]
  BY <1>9, <1>5
<1> QED BY <1>3, <1>5, <1>7, <1>8, <1>10

-----------------------------------------------------------------------------
(***************************************************************************)
(* The fields of a reply.                                                  *)
(***************************************************************************)

\* The number of fields, and the name and the value of each.
Count(r) == IF r.kind = "gesture" THEN 6 ELSE 4
Key(r, i) == Fields(r)[i][1]
Val(r, i) == Fields(r)[i][2]

\* Fields that are texts, and what they say.
IsText(r, i) ==
  \/ r.kind = "grant" /\ i # 1
  \/ r.kind = "refusal" /\ i = 2
  \/ r.kind = "gesture" /\ i \notin {1, 6}
Said(r, i) ==
  IF r.kind = "grant" THEN IF i = 2 THEN r.user ELSE IF i = 3 THEN r.word ELSE r.domain
  ELSE IF r.kind = "refusal" THEN <<r.reason>>
  ELSE IF i = 2 THEN <<"needs-gesture">> ELSE IF i = 3 THEN <<"nod">>
  ELSE IF i = 4 THEN <<"f0">> ELSE r.word

\* The three kinds of reply.
LEMMA Kinds ==
  ASSUME NEW r \in Replies
  PROVE  \/ r.kind = "grant" /\ r.user \in Accounts /\ r.word \in Words /\ r.domain \in Accounts
         \/ r.kind = "refusal" /\ r.reason \in Refusals
         \/ r.kind = "gesture" /\ r.word \in Words
BY DEF Replies

\* Names and words are texts.
LEMMA GivenTexts == Accounts \cup Words \subseteq Seq(Chars)
<1>1. ASSUME NEW w \in Accounts \cup Words PROVE w \in Seq(Chars)
  <2>1. w \in Seq(Alphabet) /\ Alphabet \subseteq Chars
    BY ReplyAssumption, GivenChars
  <2>2. w \in [1 .. Len(w) -> Alphabet] /\ Len(w) \in Nat
    BY <2>1
  <2>3. w \in [1 .. Len(w) -> Chars]
    BY <2>1, <2>2
  <2> QED BY <2>2, <2>3
<1> QED BY <1>1

\* What a field says is a text.
LEMMA SaidTyped ==
  ASSUME NEW r \in Replies, NEW i \in 1 .. Count(r), IsText(r, i)
  PROVE  Said(r, i) \in Seq(Chars)
<1>1. \A k \in Constants \cup Refusals : <<k>> \in Seq(Chars)
  BY NamesPlain, GivenChars, TupleTyped
<1>2. {"needs-gesture", "nod", "f0"} = Constants
  BY DEF Constants
<1>3. CASE r.kind = "grant"
  BY <1>3, Kinds, GivenTexts DEF Said
<1>4. CASE r.kind = "refusal"
  BY <1>4, <1>1, Kinds DEF Said
<1>5. CASE r.kind = "gesture"
  BY <1>5, <1>1, <1>2, Kinds, GivenTexts DEF Said
<1> QED BY <1>3, <1>4, <1>5, Kinds

\* The fields of a grant.
LEMMA GrantFields ==
  ASSUME NEW r \in Replies, r.kind = "grant"
  PROVE  /\ Count(r) = 4 /\ DOMAIN Fields(r) = 1 .. 4
         /\ Key(r, 1) = "ok" /\ Key(r, 2) = "username" /\ Key(r, 3) = "password"
         /\ Key(r, 4) = "domain" /\ Val(r, 1) = <<"true">> /\ Val(r, 2) = Quoted(r.user)
         /\ Val(r, 3) = Quoted(r.word) /\ Val(r, 4) = Quoted(r.domain)
         /\ ~IsText(r, 1) /\ IsText(r, 2) /\ IsText(r, 3) /\ IsText(r, 4)
         /\ Said(r, 2) = r.user /\ Said(r, 3) = r.word /\ Said(r, 4) = r.domain
<1>1. Fields(r) = << <<"ok", <<"true">> >>, <<"username", Quoted(r.user)>>,
                     <<"password", Quoted(r.word)>>, <<"domain", Quoted(r.domain)>> >>
  BY Zenon DEF Fields
<1> QED BY <1>1 DEF Count, Key, Val, IsText, Said

\* The fields of a refusal.
LEMMA RefusalFields ==
  ASSUME NEW r \in Replies, r.kind = "refusal"
  PROVE  /\ Count(r) = 4 /\ DOMAIN Fields(r) = 1 .. 4
         /\ Key(r, 1) = "ok" /\ Key(r, 2) = "reason" /\ Key(r, 3) = "distance"
         /\ Key(r, 4) = "real" /\ Val(r, 1) = <<"false">> /\ Val(r, 2) = Quoted(<<r.reason>>)
         /\ Val(r, 3) = <<"0.5">> /\ Val(r, 4) = <<"true">>
         /\ ~IsText(r, 1) /\ IsText(r, 2) /\ ~IsText(r, 3) /\ ~IsText(r, 4)
         /\ Said(r, 2) = <<r.reason>>
<1>1. Fields(r) = << <<"ok", <<"false">> >>, <<"reason", Quoted(<<r.reason>>)>>,
                     <<"distance", <<"0.5">> >>, <<"real", <<"true">> >> >>
  BY Zenon DEF Fields
<1> QED BY <1>1 DEF Count, Key, Val, IsText, Said

\* The fields of a request for a gesture.
LEMMA GestureFields ==
  ASSUME NEW r \in Replies, r.kind = "gesture"
  PROVE  /\ Count(r) = 6 /\ DOMAIN Fields(r) = 1 .. 6
         /\ Key(r, 1) = "ok" /\ Key(r, 2) = "reason" /\ Key(r, 3) = "gesture"
         /\ Key(r, 4) = "token" /\ Key(r, 5) = "prompt" /\ Key(r, 6) = "ttl_s"
         /\ Val(r, 1) = <<"false">> /\ Val(r, 2) = Quoted(<<"needs-gesture">>)
         /\ Val(r, 3) = Quoted(<<"nod">>) /\ Val(r, 4) = Quoted(<<"f0">>)
         /\ Val(r, 5) = Quoted(r.word) /\ Val(r, 6) = <<"15">>
         /\ ~IsText(r, 1) /\ IsText(r, 2) /\ IsText(r, 3) /\ IsText(r, 4) /\ IsText(r, 5)
         /\ ~IsText(r, 6)
         /\ Said(r, 2) = <<"needs-gesture">> /\ Said(r, 3) = <<"nod">>
         /\ Said(r, 4) = <<"f0">> /\ Said(r, 5) = r.word
<1>1. Fields(r) = << <<"ok", <<"false">> >>, <<"reason", Quoted(<<"needs-gesture">>)>>,
                     <<"gesture", Quoted(<<"nod">>)>>, <<"token", Quoted(<<"f0">>)>>,
                     <<"prompt", Quoted(r.word)>>, <<"ttl_s", <<"15">> >> >>
  BY Zenon DEF Fields
<1> QED BY <1>1 DEF Count, Key, Val, IsText, Said

\* Every field has a name of its own, and a text or one literal for a value.
LEMMA FieldShape ==
  ASSUME NEW r \in Replies
  PROVE  /\ DOMAIN Fields(r) = 1 .. Count(r) /\ Count(r) \in {4, 6}
         /\ \A i \in 1 .. Count(r) :
              /\ Key(r, i) \in KeyNames
              /\ IF IsText(r, i) THEN Val(r, i) = Quoted(Said(r, i))
                 ELSE \E lit \in Literals : Val(r, i) = <<lit>>
         /\ \A i, j \in 1 .. Count(r) : i # j => Key(r, i) # Key(r, j)
<1>0. 1 .. 4 = {1, 2, 3, 4} /\ 1 .. 6 = {1, 2, 3, 4, 5, 6}
  OBVIOUS
<1>1. CASE r.kind = "grant"
  <2>1. DOMAIN Fields(r) = 1 .. Count(r) /\ Count(r) \in {4, 6} /\ 1 .. Count(r) = {1, 2, 3, 4}
    BY <1>1, <1>0, GrantFields
  <2>2. \A i \in {1, 2, 3, 4} : Key(r, i) \in KeyNames
    BY <1>1, GrantFields DEF KeyNames
  <2>3. \A i, j \in {1, 2, 3, 4} : i # j => Key(r, i) # Key(r, j)
    BY <1>1, GrantFields
  <2>4. \A i \in {1, 2, 3, 4} : IF IsText(r, i) THEN Val(r, i) = Quoted(Said(r, i))
                              ELSE \E lit \in Literals : Val(r, i) = <<lit>>
    <3>1. {"true"} \subseteq Literals
      BY DEF Literals
    <3> QED BY <3>1, <1>1, GrantFields
  <2> QED BY <2>1, <2>2, <2>3, <2>4
<1>2. CASE r.kind = "refusal"
  <2>1. DOMAIN Fields(r) = 1 .. Count(r) /\ Count(r) \in {4, 6} /\ 1 .. Count(r) = {1, 2, 3, 4}
    BY <1>2, <1>0, RefusalFields
  <2>2. \A i \in {1, 2, 3, 4} : Key(r, i) \in KeyNames
    BY <1>2, RefusalFields DEF KeyNames
  <2>3. \A i, j \in {1, 2, 3, 4} : i # j => Key(r, i) # Key(r, j)
    BY <1>2, RefusalFields
  <2>4. \A i \in {1, 2, 3, 4} : IF IsText(r, i) THEN Val(r, i) = Quoted(Said(r, i))
                              ELSE \E lit \in Literals : Val(r, i) = <<lit>>
    <3>1. {"false", "0.5", "true"} \subseteq Literals
      BY DEF Literals
    <3> QED BY <3>1, <1>2, RefusalFields
  <2> QED BY <2>1, <2>2, <2>3, <2>4
<1>3. CASE r.kind = "gesture"
  <2>1. DOMAIN Fields(r) = 1 .. Count(r) /\ Count(r) \in {4, 6} /\ 1 .. Count(r) = {1, 2, 3, 4, 5, 6}
    BY <1>3, <1>0, GestureFields
  <2>2. \A i \in {1, 2, 3, 4, 5, 6} : Key(r, i) \in KeyNames
    BY <1>3, GestureFields DEF KeyNames
  <2>3. \A i, j \in {1, 2, 3, 4, 5, 6} : i # j => Key(r, i) # Key(r, j)
    BY <1>3, GestureFields
  <2>4. \A i \in {1, 2, 3, 4, 5, 6} : IF IsText(r, i) THEN Val(r, i) = Quoted(Said(r, i))
                              ELSE \E lit \in Literals : Val(r, i) = <<lit>>
    <3>1. {"false", "15"} \subseteq Literals
      BY DEF Literals
    <3> QED BY <3>1, <1>3, GestureFields
  <2> QED BY <2>1, <2>2, <2>3, <2>4
<1> QED BY <1>1, <1>2, <1>3, Kinds

-----------------------------------------------------------------------------
(***************************************************************************)
(* Its JSON, field after field.                                            *)
(***************************************************************************)

\* The fields of a reply as json.dumps writes them.
Piece(r, i) ==
  (IF i = 1 THEN <<>> ELSE <<",", " ">>)
    \o Quoted(<<Key(r, i)>>) \o <<":", " ">> \o Val(r, i)
Pieces(r) == [i \in DOMAIN Fields(r) |-> Piece(r, i)]

\* Where field i starts (the blank before it), and where it ends.
End(r, i) == Off(Pieces(r), i) + 2
Start(r, i) == IF i = 1 THEN 1 ELSE End(r, i - 1) + 1

\* A reply's JSON is its fields between braces.
LEMMA DumpsPieces ==
  ASSUME NEW r \in Replies
  PROVE  Dumps(Fields(r)) = <<"{">> \o FlattenSeq(Pieces(r)) \o <<"}", "\n">>
BY Zenon DEF Dumps, Pieces, Piece, Key, Val

\* A sequence of three is a tuple.
LEMMA ThreeTuple ==
  ASSUME NEW S, NEW s \in Seq(S), Len(s) = 3
  PROVE  s = <<s[1], s[2], s[3]>>
OBVIOUS

\* One element between two others.
LEMMA Between ==
  ASSUME NEW S, NEW a \in Seq(S), NEW b \in Seq(S), Len(a) = 1, Len(b) = 1
  PROVE  a \o b \o a = <<a[1], b[1], a[1]>>
<1> DEFINE c == a \o b
           d == c \o a
<1>1. c \in Seq(S) /\ Len(c) = 2 /\ c[1] = a[1] /\ c[2] = b[1]
  <2>1. 1 \in 1 .. Len(a) /\ 1 \in 1 .. Len(b) /\ Len(a) + 1 = 2
    OBVIOUS
  <2> QED BY <2>1, ConcatAt
<1> HIDE DEF c
<1>2. d \in Seq(S) /\ Len(d) = 3 /\ d[1] = c[1] /\ d[2] = c[2] /\ d[3] = a[1]
  <2>1. 1 \in 1 .. Len(a) /\ 1 \in 1 .. Len(c) /\ 2 \in 1 .. Len(c) /\ Len(c) + 1 = 3
    BY <1>1
  <2>2. /\ c \o a \in Seq(S) /\ Len(c \o a) = Len(c) + Len(a)
        /\ \A q \in 1 .. Len(c) : (c \o a)[q] = c[q]
        /\ \A q \in 1 .. Len(a) : (c \o a)[Len(c) + q] = a[q]
    BY <1>1, ConcatAt
  <2> QED BY <2>1, <2>2, <1>1
<1> HIDE DEF d
<1>3. d = <<a[1], b[1], a[1]>>
  BY <1>1, <1>2, ThreeTuple
<1> QED BY <1>3 DEF d, c

\* From d on, a field stands in p: its quoted name, the colon and its value.
FieldAt(p, d, k, v) ==
  /\ Len(p) = d + 5 + Len(v)
  /\ p[d + 1] = Quote /\ p[d + 2] = k /\ p[d + 3] = Quote
  /\ p[d + 4] = ":" /\ p[d + 5] = " "
  /\ \A j \in 1 .. Len(v) : p[d + 5 + j] = v[j]

\* The first field: its quoted name, a colon, its value.
LEMMA FirstPiece ==
  ASSUME NEW S, NEW k \in S, NEW q \in S, NEW c \in S, NEW b \in S, NEW v \in Seq(S), NEW p,
         p = <<>> \o <<q, k, q>> \o <<c, b>> \o v
  PROVE  /\ p \in Seq(S) /\ Len(p) = 0 + 5 + Len(v)
         /\ p[0 + 1] = q /\ p[0 + 2] = k /\ p[0 + 3] = q /\ p[0 + 4] = c /\ p[0 + 5] = b
         /\ \A j \in 1 .. Len(v) : p[0 + 5 + j] = v[j]
OBVIOUS

\* The others follow a comma and a blank.
LEMMA NextPiece ==
  ASSUME NEW S, NEW k \in S, NEW q \in S, NEW c \in S, NEW b \in S, NEW m \in S,
         NEW v \in Seq(S), NEW p,
         p = <<m, b>> \o <<q, k, q>> \o <<c, b>> \o v
  PROVE  /\ p \in Seq(S) /\ Len(p) = 2 + 5 + Len(v) /\ p[1] = m /\ p[2] = b
         /\ p[2 + 1] = q /\ p[2 + 2] = k /\ p[2 + 3] = q /\ p[2 + 4] = c /\ p[2 + 5] = b
         /\ \A j \in 1 .. Len(v) : p[2 + 5 + j] = v[j]
OBVIOUS

\* A name is quoted as it is.
LEMMA QuotedKey ==
  ASSUME NEW k \in Chars, PlainText(k)
  PROVE  Quoted(<<k>>) = <<Quote, k, Quote>>
<1>1. Escaping(<<k>>) = << <<k>> >>
  <2>1. DOMAIN <<k>> = {1} /\ <<k>>[1] = k
    OBVIOUS
  <2>2. Escaped(k) = <<k>>
    BY EscapedPlain
  <2> QED BY <2>1, <2>2 DEF Escaping
<1>2. FlattenSeq(<< <<k>> >>) = <<k>>
  <2>1. << <<k>> >> = Append(<<>>, <<k>>) /\ <<>> \in Seq(Seq(Chars)) /\ <<k>> \in Seq(Chars)
    OBVIOUS
  <2>2. FlattenSeq(Append(<<>>, <<k>>)) = FlattenSeq(<<>>) \o <<k>>
    BY <2>1, FlattenAppend
  <2>3. <<>> \o <<k>> = <<k>>
    OBVIOUS
  <2> QED BY <2>1, <2>2, <2>3, FlattenNone
<1>3. Quoted(<<k>>) = <<Quote>> \o FlattenSeq(Escaping(<<k>>)) \o <<Quote>>
  BY Zenon DEF Quoted, Escaping
<1>4. <<Quote>> \o <<k>> \o <<Quote>> = <<Quote, k, Quote>>
  <2>1. PICK S : S = Chars \cup {Quote}
    OBVIOUS
  <2>2. PICK a, b : a = <<Quote>> /\ b = <<k>>
    OBVIOUS
  <2>3. a \in Seq(S) /\ Len(a) = 1 /\ a[1] = Quote /\ b \in Seq(S) /\ Len(b) = 1 /\ b[1] = k
    BY <2>1, <2>2
  <2>4. a \o b \o a = <<a[1], b[1], a[1]>>
    BY <2>3, Between
  <2> QED BY <2>2, <2>3, <2>4, Zenon
<1> QED BY <1>1, <1>2, <1>3, <1>4

\* A value is at least one token.
LEMMA ValTyped ==
  ASSUME NEW r \in Replies, NEW i \in 1 .. Count(r)
  PROVE  Val(r, i) \in Seq(Symbols) /\ Len(Val(r, i)) \in Nat /\ Len(Val(r, i)) >= 1
<1>1. CASE IsText(r, i)
  <2>1. Val(r, i) = Quoted(Said(r, i))
    BY <1>1, FieldShape
  <2>2. Said(r, i) \in Seq(Chars)
    BY <1>1, SaidTyped
  <2>3. PICK E : E = Escaping(Said(r, i))
    OBVIOUS
  <2>4. /\ Quoted(Said(r, i)) \in Seq(Symbols)
        /\ Len(Quoted(Said(r, i))) = Off(E, Len(Said(r, i))) + 2
        /\ Off(E, Len(Said(r, i))) \in Nat
    BY <2>2, <2>3, QuotedAt
  <2> QED BY <2>1, <2>4
<1>2. CASE ~IsText(r, i)
  <2>1. PICK lit \in Literals : Val(r, i) = <<lit>>
    BY <1>2, FieldShape
  <2>2. lit \in Symbols
    BY DEF Symbols
  <2> QED BY <2>1, <2>2, TupleTyped
<1> QED BY <1>1, <1>2

\* The tokens of each field.
LEMMA PieceShape ==
  ASSUME NEW r \in Replies, NEW i \in 1 .. Count(r), NEW p, p = Piece(r, i)
  PROVE  /\ p \in Seq(Symbols)
         /\ FieldAt(p, IF i = 1 THEN 0 ELSE 2, Key(r, i), Val(r, i))
         /\ i # 1 => p[1] = "," /\ p[2] = " "
<1>1. Key(r, i) \in KeyNames
  BY FieldShape
<1>2. PICK k : k = Key(r, i) /\ k \in Symbols /\ Quoted(<<Key(r, i)>>) = <<Quote, k, Quote>>
  BY <1>1, NamesPlain, QuotedKey DEF Chars
<1>3. PICK v : v = Val(r, i) /\ v \in Seq(Symbols)
  BY ValTyped
<1>4. PICK q \in Symbols, c \in Symbols, b \in Symbols, m \in Symbols :
        q = Quote /\ c = ":" /\ b = " " /\ m = ","
  <2>1. "," \in Symbols /\ " " \in Symbols /\ ":" \in Symbols /\ Quote \in Symbols
    BY DEF Symbols
  <2> QED BY <2>1, Zenon
<1>5. CASE i = 1
  <2>1. p = <<>> \o <<q, k, q>> \o <<c, b>> \o v
    BY <1>2, <1>3, <1>4, <1>5, Zenon DEF Piece
  <2>2. /\ p \in Seq(Symbols) /\ Len(p) = 0 + 5 + Len(v)
        /\ p[0 + 1] = q /\ p[0 + 2] = k /\ p[0 + 3] = q /\ p[0 + 4] = c /\ p[0 + 5] = b
        /\ \A j \in 1 .. Len(v) : p[0 + 5 + j] = v[j]
    BY <2>1, <1>2, <1>3, FirstPiece
  <2>3. FieldAt(p, 0, k, v)
    BY <2>2, <1>4, Zenon DEF FieldAt
  <2> QED BY <2>2, <2>3, <1>2, <1>3, <1>5, Zenon
<1>6. CASE i # 1
  <2>1. p = <<m, b>> \o <<q, k, q>> \o <<c, b>> \o v
    BY <1>2, <1>3, <1>4, <1>6, Zenon DEF Piece
  <2>2. /\ p \in Seq(Symbols) /\ Len(p) = 2 + 5 + Len(v) /\ p[1] = m /\ p[2] = b
        /\ p[2 + 1] = q /\ p[2 + 2] = k /\ p[2 + 3] = q /\ p[2 + 4] = c /\ p[2 + 5] = b
        /\ \A j \in 1 .. Len(v) : p[2 + 5 + j] = v[j]
    BY <2>1, <1>2, <1>3, NextPiece
  <2>3. FieldAt(p, 2, k, v) /\ p[1] = "," /\ p[2] = " "
    BY <2>2, <1>4, Zenon DEF FieldAt
  <2> QED BY <2>2, <2>3, <1>2, <1>3, <1>6, Zenon
<1> QED BY <1>5, <1>6

\* All of them are tokens.
LEMMA PiecesTyped ==
  ASSUME NEW r \in Replies
  PROVE  /\ Pieces(r) \in Seq(Seq(Symbols)) /\ Len(Pieces(r)) = Count(r) /\ Count(r) \in Nat
         /\ \A i \in 1 .. Count(r) : Pieces(r)[i] = Piece(r, i)
<1>1. DOMAIN Fields(r) = 1 .. Count(r) /\ Count(r) \in Nat
  BY FieldShape
<1>2. \A i \in 1 .. Count(r) : Piece(r, i) \in Seq(Symbols)
  BY PieceShape
<1>3. Pieces(r) = [i \in 1 .. Count(r) |-> Piece(r, i)]
  BY <1>1, Zenon DEF Pieces
<1> QED BY <1>1, <1>2, <1>3

\* What stands between the braces.
LEMMA Framed ==
  ASSUME NEW S, NEW a \in S, NEW b \in S, NEW c \in S, NEW f \in Seq(S), NEW t,
         t = <<a>> \o f \o <<b, c>>
  PROVE  /\ t \in Seq(S) /\ Len(t) = Len(f) + 3 /\ t[1] = a
         /\ t[Len(f) + 2] = b
         /\ \A q \in 1 .. Len(f) : t[q + 1] = f[q]
OBVIOUS

\* Field i of a reply in its text, and what follows it.
FieldIn(r, t, i) ==
  LET s == Start(r, i) IN
  /\ s \in Nat /\ s >= 1
  /\ t[s + 1] = Quote /\ t[s + 2] = Key(r, i) /\ t[s + 3] = Quote
  /\ t[s + 4] = ":" /\ t[s + 5] = " "
  /\ \A k \in 1 .. Len(Val(r, i)) : t[s + 5 + k] = Val(r, i)[k]
  /\ End(r, i) = s + 6 + Len(Val(r, i)) /\ End(r, i) \in Nat /\ End(r, i) < Len(t)
  /\ i = Count(r) => t[End(r, i)] = "}" /\ Len(t) = End(r, i) + 1
  /\ i < Count(r) => t[End(r, i)] = "," /\ t[End(r, i) + 1] = " "

\* The text of a reply is laid out field after field.
LEMMA Layout ==
  ASSUME NEW r \in Replies, NEW t, t = Dumps(Fields(r))
  PROVE  t \in Seq(Symbols) /\ t[1] = "{" /\ \A i \in 1 .. Count(r) : FieldIn(r, t, i)
<1>1. PICK P : P = Pieces(r) /\ P \in Seq(Seq(Symbols)) /\ Len(P) = Count(r)
                /\ \A i \in 1 .. Count(r) : P[i] = Piece(r, i)
  BY PiecesTyped, Zenon
<1>2. PICK f : f = FlattenSeq(P)
  OBVIOUS
<1>3. f \in Seq(Symbols) /\ Off(P, 0) = 0 /\ Off(P, Count(r)) = Len(f) /\ Len(f) \in Nat
  BY <1>1, <1>2, FlattenTyped, OffEnds
<1>n. Count(r) \in {4, 6}
  BY FieldShape
<1>4. t \in Seq(Symbols) /\ Len(t) = Len(f) + 3 /\ t[1] = "{" /\ t[Len(f) + 2] = "}"
      /\ \A q \in 1 .. Len(f) : t[q + 1] = f[q]
  <2>1. PICK a \in Symbols, b \in Symbols, c \in Symbols : a = "{" /\ b = "}" /\ c = "\n"
    <3>1. "{" \in Symbols /\ "}" \in Symbols /\ "\n" \in Symbols
      BY DEF Symbols
    <3> QED BY <3>1, Zenon
  <2>2. t = <<a>> \o f \o <<b, c>>
    BY <2>1, <1>1, <1>2, DumpsPieces, Zenon
  <2>3. /\ t \in Seq(Symbols) /\ Len(t) = Len(f) + 3 /\ t[1] = a /\ t[Len(f) + 2] = b
        /\ \A q \in 1 .. Len(f) : t[q + 1] = f[q]
    BY <2>2, <1>3, Framed
  <2> QED BY <2>1, <2>3, Zenon
<1>5. ASSUME NEW i \in 1 .. Count(r)
      PROVE  /\ Off(P, i) = Off(P, i - 1) + Len(P[i])
             /\ Off(P, i) \in Nat /\ Off(P, i - 1) \in Nat
             /\ FieldAt(P[i], IF i = 1 THEN 0 ELSE 2, Key(r, i), Val(r, i))
             /\ i # 1 => P[i][1] = "," /\ P[i][2] = " "
             /\ Len(Val(r, i)) \in Nat /\ Len(Val(r, i)) >= 1
             /\ \A k \in 1 .. Len(P[i]) : t[1 + Off(P, i - 1) + k] = P[i][k]
                  /\ Off(P, i - 1) + k \in 1 .. Len(f)
  <2>1. Off(P, i) = Off(P, i - 1) + Len(P[i]) /\ Off(P, i) \in Nat /\ Off(P, i - 1) \in Nat
    BY <1>1, FlattenStep
  <2>2. P[i] = Piece(r, i)
    BY <1>1
  <2>3. FieldAt(P[i], IF i = 1 THEN 0 ELSE 2, Key(r, i), Val(r, i))
        /\ (i # 1 => P[i][1] = "," /\ P[i][2] = " ")
    BY <2>2, PieceShape
  <2>4. Len(Val(r, i)) \in Nat /\ Len(Val(r, i)) >= 1
    BY ValTyped
  <2>5. ASSUME NEW k \in 1 .. Len(P[i])
        PROVE  /\ t[1 + Off(P, i - 1) + k] = P[i][k]
               /\ Off(P, i - 1) + k \in 1 .. Len(f)
    <3>1. PICK q : q = Off(P, i - 1) + k
      OBVIOUS
    <3>2. f[q] = P[i][k] /\ q \in 1 .. Len(f)
      BY <3>1, <1>1, <1>2, FlattenAt
    <3>3. 1 + Off(P, i - 1) + k = q + 1
      <4>1. k \in Nat
        BY <1>1
      <4> QED BY <4>1, <3>1, <2>1
    <3> QED BY <3>1, <3>2, <3>3, <1>4
  <2> QED BY <2>1, <2>3, <2>4, <2>5
<1>6. ASSUME NEW i \in 1 .. Count(r) PROVE FieldIn(r, t, i)
  <2> DEFINE d == IF i = 1 THEN 0 ELSE 2
             v == Val(r, i)
  <2>1. Start(r, i) = 1 + Off(P, i - 1) + d
    <3>1. CASE i = 1
      <4>1. i - 1 = 0 /\ d = 0 /\ Start(r, i) = 1
        BY <3>1 DEF Start
      <4> QED BY <4>1, <1>3
    <3>2. CASE i # 1
      <4>1. d = 2 /\ Start(r, i) = Off(P, i - 1) + 2 + 1 /\ Off(P, i - 1) \in Nat
        BY <3>2, <1>1, <1>5, Zenon DEF Start, End
      <4> HIDE DEF d
      <4> QED BY <4>1
    <3> QED BY <3>1, <3>2
  <2>2. Len(P[i]) = d + 5 + Len(v) /\ d \in Nat /\ Len(v) \in Nat
    BY <1>5 DEF FieldAt
  <2>3. ASSUME NEW k \in 1 .. 5 + Len(v)
        PROVE  t[Start(r, i) + k] = P[i][d + k] /\ Off(P, i - 1) + d + k <= Len(f)
    <3>1. d + k \in 1 .. Len(P[i])
      BY <2>2
    <3> HIDE DEF d, v
    <3>2. Start(r, i) + k = 1 + Off(P, i - 1) + (d + k)
          /\ Off(P, i - 1) + (d + k) = Off(P, i - 1) + d + k
      <4> DEFINE o == Off(P, i - 1)
                 e == Start(r, i)
      <4>1. k \in Nat /\ d \in Nat
        BY <2>2
      <4>2. o \in Nat /\ e = 1 + o + d
        BY <2>1, <1>5
      <4> HIDE DEF o, e
      <4>3. e + k = 1 + o + (d + k) /\ o + (d + k) = o + d + k
        BY <4>1, <4>2
      <4> QED BY <4>3, Zenon DEF o, e
    <3>4. t[1 + Off(P, i - 1) + (d + k)] = P[i][d + k] /\ Off(P, i - 1) + (d + k) \in 1 .. Len(f)
      BY <3>1, <1>5
    <3> QED BY <3>2, <3>4, <1>3
  <2>4. /\ P[i][d + 1] = Quote /\ P[i][d + 2] = Key(r, i) /\ P[i][d + 3] = Quote
        /\ P[i][d + 4] = ":" /\ P[i][d + 5] = " "
        /\ \A k \in 1 .. Len(v) : P[i][d + 5 + k] = v[k]
    BY <1>5, Zenon DEF FieldAt
  <2>5. /\ Off(P, i) = Off(P, i - 1) + Len(P[i]) /\ Off(P, i) \in Nat /\ Off(P, i - 1) \in Nat
        /\ Len(v) >= 1
    BY <1>5
  <2>6. End(r, i) = Off(P, i) + 2
    BY <1>1 DEF End
  <2>7. i < Count(r) => t[End(r, i)] = "," /\ t[End(r, i) + 1] = " "
    <3> SUFFICES ASSUME i < Count(r) PROVE t[End(r, i)] = "," /\ t[End(r, i) + 1] = " "
      OBVIOUS
    <3>1. i + 1 \in 1 .. Count(r) /\ i + 1 # 1 /\ (i + 1) - 1 = i
      BY <1>n
    <3>2. P[i + 1][1] = "," /\ P[i + 1][2] = " " /\ Len(P[i + 1]) \in Nat /\ Len(P[i + 1]) >= 2
      <4> DEFINE j == i + 1
      <4>0. j \in 1 .. Count(r) /\ j # 1
        BY <3>1
      <4> HIDE DEF j
      <4>1. Len(P[j]) = 2 + 5 + Len(Val(r, j)) /\ Len(Val(r, j)) \in Nat
            /\ P[j][1] = "," /\ P[j][2] = " "
        BY <1>5, <4>0 DEF FieldAt
      <4>2. Len(P[j]) \in Nat /\ Len(P[j]) >= 2
        <5> DEFINE m == Len(Val(r, j))
                   p == Len(P[j])
        <5>1. p = 2 + 5 + m /\ m \in Nat
          BY <4>1
        <5> HIDE DEF m, p
        <5>2. p \in Nat /\ p >= 2
          BY <5>1
        <5> QED BY <5>2, Zenon DEF p
      <4> QED BY <4>1, <4>2, Zenon DEF j
    <3>4. t[1 + Off(P, i) + 1] = P[i + 1][1] /\ t[1 + Off(P, i) + 2] = P[i + 1][2]
      <4> DEFINE j == i + 1
      <4>0. j \in 1 .. Count(r) /\ j - 1 = i
        BY <3>1
      <4>1. Len(P[j]) \in Nat /\ Len(P[j]) >= 2
        BY <3>2
      <4> HIDE DEF j
      <4>2. 1 \in 1 .. Len(P[j]) /\ 2 \in 1 .. Len(P[j])
        BY <4>1
      <4>3. t[1 + Off(P, j - 1) + 1] = P[j][1] /\ t[1 + Off(P, j - 1) + 2] = P[j][2]
        BY <4>0, <4>2, <1>5
      <4> QED BY <4>0, <4>3 DEF j
    <3>5. End(r, i) = 1 + Off(P, i) + 1 /\ End(r, i) + 1 = 1 + Off(P, i) + 2
      BY <2>5, <2>6
    <3> QED BY <3>2, <3>4, <3>5
  <2>8. i = Count(r) => t[End(r, i)] = "}" /\ Len(t) = End(r, i) + 1
    <3> SUFFICES ASSUME i = Count(r) PROVE t[End(r, i)] = "}" /\ Len(t) = End(r, i) + 1
      OBVIOUS
    <3>1. End(r, i) = Len(f) + 2
      BY <1>3, <2>6
    <3>2. Len(t) = Len(f) + 3 /\ t[Len(f) + 2] = "}" /\ Len(f) \in Nat
      BY <1>3, <1>4, Zenon
    <3>3. Len(f) + 3 = (Len(f) + 2) + 1
      <4>1. \A n \in Nat : n + 3 = (n + 2) + 1
        OBVIOUS
      <4> QED BY <4>1, <3>2, Zenon
    <3> QED BY <3>1, <3>2, <3>3, Zenon
  <2>9. Off(P, i) <= Len(f)
    <3>1. Len(P[i]) \in 1 .. Len(P[i])
      BY <2>2
    <3>2. Off(P, i - 1) + Len(P[i]) \in 1 .. Len(f)
      BY <3>1, <1>5
    <3> QED BY <3>2, <2>5, <1>3
  <2>10. End(r, i) = Start(r, i) + 6 + Len(v) /\ End(r, i) \in Nat /\ End(r, i) < Len(t)
    <3> DEFINE o == Off(P, i)
               b == Off(P, i - 1)
               m == Len(v)
    <3>1. /\ o = b + (d + 5 + m) /\ b \in Nat /\ d \in Nat /\ m \in Nat
          /\ End(r, i) = o + 2 /\ Start(r, i) = 1 + b + d /\ o <= Len(f)
      BY <2>1, <2>2, <2>5, <2>6, <2>9, Zenon
    <3>2. Len(t) = Len(f) + 3 /\ Len(f) \in Nat
      BY <1>3, <1>4, Zenon
    <3> HIDE DEF d, v, o, b, m
    <3>3. End(r, i) = Start(r, i) + 6 + m /\ End(r, i) \in Nat /\ End(r, i) < Len(t)
      BY <3>1, <3>2
    <3> QED BY <3>3 DEF m
  <2>11. Start(r, i) \in Nat /\ Start(r, i) >= 1
    <3> HIDE DEF d, v
    <3> QED BY <2>1, <2>2, <2>5
  <2>12. /\ t[Start(r, i) + 1] = Quote /\ t[Start(r, i) + 2] = Key(r, i)
         /\ t[Start(r, i) + 3] = Quote /\ t[Start(r, i) + 4] = ":" /\ t[Start(r, i) + 5] = " "
    <3>1. 1 \in 1 .. 5 + Len(v) /\ 2 \in 1 .. 5 + Len(v) /\ 3 \in 1 .. 5 + Len(v)
          /\ 4 \in 1 .. 5 + Len(v) /\ 5 \in 1 .. 5 + Len(v)
      <4> HIDE DEF v
      <4> QED BY <2>2
    <3> HIDE DEF d, v
    <3> QED BY <3>1, <2>3, <2>4
  <2>13. ASSUME NEW k \in 1 .. Len(v) PROVE t[Start(r, i) + 5 + k] = v[k]
    <3>1. 5 + k \in 1 .. 5 + Len(v) /\ Start(r, i) + 5 + k = Start(r, i) + (5 + k)
          /\ d + 5 + k = d + (5 + k)
      <4> HIDE DEF v, d
      <4> QED BY <2>2, <2>11
    <3> HIDE DEF d, v
    <3> QED BY <3>1, <2>3, <2>4
  <2> QED BY <2>7, <2>8, <2>10, <2>11, <2>12, <2>13, Zenon DEF FieldIn
<1> QED BY <1>4, <1>6

-----------------------------------------------------------------------------
(***************************************************************************)
(* What a text decodes to, and how many bytes that takes.                  *)
(***************************************************************************)

\* The high half at i has its low half after it.
Joined(s, i) == i >= 1 /\ i < Len(s) /\ s[i] = "high" /\ s[i + 1] = "low"

\* What the i-th character of s is as UTF-16 can carry it, and the first j.
Unit(s, i) ==
  IF Joined(s, i) THEN <<"astral">>
  ELSE IF i > 1 /\ Joined(s, i - 1) THEN <<>>
  ELSE IF s[i] \in {"high", "low"} THEN <<Unpaired>> ELSE <<s[i]>>
Units(s) == [i \in DOMAIN s |-> Unit(s, i)]
Decoded(s, j) == FlattenSeq(SubSeq(Units(s), 1, j))

\* AsUtf16 is what these units make.
LEMMA AsUnits ==
  ASSUME NEW s \in Seq(Chars)
  PROVE  AsUtf16(s) = Wide(FlattenSeq(Units(s)))
<1> DEFINE after(i) == i < Len(s) /\ s[i] = "high" /\ s[i + 1] = "low"
           unit(i) == IF after(i) THEN <<"astral">>
                      ELSE IF i > 1 /\ after(i - 1) THEN <<>>
                      ELSE IF s[i] \in {"high", "low"} THEN <<Unpaired>> ELSE <<s[i]>>
<1>1. AsUtf16(s) = Wide(FlattenSeq([i \in DOMAIN s |-> unit(i)]))
  BY Zenon DEF AsUtf16
<1>2. ASSUME NEW i \in DOMAIN s PROVE unit(i) = Unit(s, i)
  <2>1. i \in Nat /\ i >= 1
    OBVIOUS
  <2>2. after(i) <=> Joined(s, i)
    BY <2>1 DEF Joined
  <2>3. i > 1 => (after(i - 1) <=> Joined(s, i - 1))
    BY <2>1 DEF Joined
  <2> HIDE DEF after
  <2> QED BY <2>2, <2>3, Zenon DEF Unit
<1>3. [i \in DOMAIN s |-> unit(i)] = Units(s)
  <2> HIDE DEF unit
  <2> QED BY <1>2, Zenon DEF Units
<1> QED BY <1>1, <1>3, Zenon

\* A unit is a sequence of characters.
LEMMA UnitTyped ==
  ASSUME NEW s \in Seq(Chars), NEW i \in 1 .. Len(s)
  PROVE  Unit(s, i) \in Seq(Symbols)
<1>1. s[i] \in Symbols /\ Unpaired \in Symbols /\ "astral" \in Symbols
  <2>1. s[i] \in Chars
    OBVIOUS
  <2> QED BY <2>1 DEF Chars, Symbols, Named
<1>2. <<>> \in Seq(Symbols) /\ \A a \in Symbols : <<a>> \in Seq(Symbols)
  OBVIOUS
<1> QED BY <1>1, <1>2, Zenon DEF Unit

\* So a text's units are sequences of characters.
LEMMA UnitsTyped ==
  ASSUME NEW s \in Seq(Chars)
  PROVE  /\ Units(s) \in Seq(Seq(Symbols)) /\ Len(Units(s)) = Len(s) /\ Len(s) \in Nat
         /\ \A i \in 1 .. Len(s) : Units(s)[i] = Unit(s, i)
<1>1. DOMAIN s = 1 .. Len(s) /\ Len(s) \in Nat
  OBVIOUS
<1>2. \A i \in 1 .. Len(s) : Unit(s, i) \in Seq(Symbols)
  BY UnitTyped
<1>3. Units(s) = [i \in 1 .. Len(s) |-> Unit(s, i)]
  BY <1>1, Zenon DEF Units
<1> QED BY <1>1, <1>2, <1>3

\* Decoding one character more adds its unit.
LEMMA DecodedStep ==
  ASSUME NEW s \in Seq(Chars)
  PROVE  /\ Decoded(s, 0) = <<>> /\ Decoded(s, Len(s)) = FlattenSeq(Units(s))
         /\ \A j \in 0 .. Len(s) : Decoded(s, j) \in Seq(Symbols)
         /\ \A j \in 1 .. Len(s) : Decoded(s, j) = Decoded(s, j - 1) \o Unit(s, j)
<1>1. PICK U : U = Units(s) /\ U \in Seq(Seq(Symbols)) /\ Len(U) = Len(s) /\ Len(s) \in Nat
                /\ \A i \in 1 .. Len(s) : U[i] = Unit(s, i)
  BY UnitsTyped, Zenon
<1>2. SubSeq(U, 1, 0) = <<>> /\ SubSeq(U, 1, Len(U)) = U
  BY <1>1
<1>3. Decoded(s, 0) = <<>> /\ Decoded(s, Len(s)) = FlattenSeq(Units(s))
  BY <1>1, <1>2, FlattenNone, Zenon DEF Decoded
<1>4. ASSUME NEW j \in 1 .. Len(s)
      PROVE  /\ Decoded(s, j) = Decoded(s, j - 1) \o Unit(s, j)
             /\ Decoded(s, j) \in Seq(Symbols)
  <2>1. j \in 1 .. Len(U) /\ U[j] = Unit(s, j)
    BY <1>1
  <2>2. /\ FlattenSeq(SubSeq(U, 1, j)) = FlattenSeq(SubSeq(U, 1, j - 1)) \o U[j]
        /\ FlattenSeq(SubSeq(U, 1, j)) \in Seq(Symbols)
    BY <2>1, <1>1, FlattenStep
  <2> QED BY <2>1, <2>2, <1>1, Zenon DEF Decoded
<1>5. ASSUME NEW j \in 0 .. Len(s) PROVE Decoded(s, j) \in Seq(Symbols)
  <2>1. <<>> \in Seq(Symbols) /\ (j = 0 \/ j \in 1 .. Len(s))
    BY <1>1
  <2> QED BY <2>1, <1>3, <1>4, Zenon
<1> QED BY <1>3, <1>4, <1>5, Zenon

\* Appending is concatenating one element.
LEMMA AppendOne ==
  ASSUME NEW S, NEW b \in Seq(S), NEW c \in S
  PROVE  b \o <<c>> = Append(b, c) /\ Append(b, c) \in Seq(S) /\ b \o <<>> = b
OBVIOUS

\* A character that is not half of a pair.
LEMMA DecodesOne ==
  ASSUME NEW s \in Seq(Chars), NEW j \in 1 .. Len(s),
         ~Joined(s, j - 1), ~Joined(s, j)
  PROVE  Decoded(s, j) = Append(Decoded(s, j - 1),
                                IF s[j] \in {"high", "low"} THEN Unpaired ELSE s[j])
<1> DEFINE c == IF s[j] \in {"high", "low"} THEN Unpaired ELSE s[j]
<1>1. Unit(s, j) = <<c>>
  BY Zenon DEF Unit
<1>2. c \in Symbols
  <2>1. s[j] \in Symbols /\ Unpaired \in Symbols
    <3>1. s[j] \in Chars
      OBVIOUS
    <3> QED BY <3>1 DEF Chars, Symbols
  <2> QED BY <2>1, Zenon
<1>3. Decoded(s, j) = Decoded(s, j - 1) \o Unit(s, j)
  BY DecodedStep
<1>4. Decoded(s, j - 1) \in Seq(Symbols)
  <2>1. j - 1 \in 0 .. Len(s)
    OBVIOUS
  <2> QED BY <2>1, DecodedStep
<1> HIDE DEF c
<1>5. Decoded(s, j) = Append(Decoded(s, j - 1), c)
  BY <1>1, <1>2, <1>3, <1>4, AppendOne
<1> QED BY <1>5 DEF c

\* The two halves of a pair.
LEMMA DecodesPair ==
  ASSUME NEW s \in Seq(Chars), NEW j \in 1 .. Len(s), ~Joined(s, j - 1), Joined(s, j)
  PROVE  /\ j + 1 \in 1 .. Len(s) /\ ~Joined(s, j + 1)
         /\ Decoded(s, j + 1) = Append(Decoded(s, j - 1), "astral")
<1>1. j + 1 \in 1 .. Len(s) /\ ~Joined(s, j + 1) /\ j + 1 > 1 /\ (j + 1) - 1 = j
  <2>1. j \in Nat /\ Len(s) \in Nat /\ j < Len(s) /\ s[j + 1] = "low"
    BY DEF Joined
  <2> QED BY <2>1 DEF Joined
<1>2. Unit(s, j) = <<"astral">> /\ Unit(s, j + 1) = <<>>
  <2>1. Unit(s, j) = <<"astral">>
    BY Zenon DEF Unit
  <2>2. Joined(s, (j + 1) - 1)
    BY <1>1
  <2> QED BY <2>1, <2>2, <1>1, Zenon DEF Unit
<1>3. Decoded(s, j) = Decoded(s, j - 1) \o <<"astral">>
      /\ Decoded(s, j + 1) = Decoded(s, j) \o <<>>
  <2>1. Decoded(s, j) = Decoded(s, j - 1) \o Unit(s, j)
        /\ Decoded(s, j + 1) = Decoded(s, (j + 1) - 1) \o Unit(s, j + 1)
    BY <1>1, DecodedStep
  <2> QED BY <2>1, <1>1, <1>2
<1>4. Decoded(s, j - 1) \in Seq(Symbols) /\ Decoded(s, j) \in Seq(Symbols)
  <2>1. j - 1 \in 0 .. Len(s) /\ j \in 0 .. Len(s)
    OBVIOUS
  <2> QED BY <2>1, DecodedStep
<1>5. PICK a \in Symbols : a = "astral"
  BY DEF Symbols, Named
<1> QED BY <1>1, <1>3, <1>4, <1>5, AppendOne

\* Each character as often as it has UTF-8 bytes: what Size counts.
Copies(b) == [i \in DOMAIN b |-> [k \in 1 .. Bytes(b[i]) |-> b[i]]]

\* No character has more than four.
LEMMA BytesBound == \A c : Bytes(c) \in 1 .. 4
BY DEF Bytes

\* A sequence is the function of its elements.
LEMMA SeqIsFunction ==
  ASSUME NEW S, NEW s \in Seq(S)
  PROVE  s = [i \in DOMAIN s |-> s[i]]
<1>1. s \in [1 .. Len(s) -> S]
  OBVIOUS
<1> QED BY <1>1

\* The size of a text grows by the size of the character it gets.
LEMMA SizeAppend ==
  ASSUME NEW b \in Seq(Symbols), NEW c \in Symbols
  PROVE  /\ Size(b) \in Nat /\ Size(<<>>) = 0
         /\ Size(Append(b, c)) = Size(b) + Bytes(c)
<1> DEFINE x == [k \in 1 .. Bytes(c) |-> c]
<1>1. x \in Seq(Symbols) /\ Len(x) = Bytes(c) /\ Bytes(c) \in Nat
  <2>1. Bytes(c) \in Nat
    BY BytesBound
  <2> QED BY <2>1
<1>2. Copies(b) \in Seq(Seq(Symbols))
  <2>1. DOMAIN b = 1 .. Len(b) /\ Len(b) \in Nat /\ \A i \in 1 .. Len(b) : b[i] \in Symbols
    OBVIOUS
  <2>2. ASSUME NEW i \in 1 .. Len(b) PROVE [k \in 1 .. Bytes(b[i]) |-> b[i]] \in Seq(Symbols)
    <3>1. Bytes(b[i]) \in Nat
      BY BytesBound
    <3> QED BY <3>1, <2>1
  <2>3. Copies(b) = [i \in 1 .. Len(b) |-> [k \in 1 .. Bytes(b[i]) |-> b[i]]]
    BY <2>1, Zenon DEF Copies
  <2> QED BY <2>1, <2>2, <2>3
<1>3. Copies(Append(b, c)) = Append(Copies(b), x)
  <2> DEFINE d == Append(b, c)
  <2>1. DOMAIN d = 1 .. Len(b) + 1 /\ Len(b) \in Nat /\ d[Len(b) + 1] = c
        /\ \A i \in 1 .. Len(b) : d[i] = b[i]
    OBVIOUS
  <2>2. DOMAIN Copies(b) = 1 .. Len(b) /\ Len(Copies(b)) = Len(b)
        /\ \A i \in 1 .. Len(b) : Copies(b)[i] = [k \in 1 .. Bytes(b[i]) |-> b[i]]
    <3>1. DOMAIN b = 1 .. Len(b)
      OBVIOUS
    <3>2. DOMAIN Copies(b) = DOMAIN b
      BY Zenon DEF Copies
    <3>3. \A i \in 1 .. Len(b) : Copies(b)[i] = [k \in 1 .. Bytes(b[i]) |-> b[i]]
      BY <3>1, Zenon DEF Copies
    <3> QED BY <3>1, <3>2, <3>3, <1>2
  <2> HIDE DEF d, x
  <2>3. DOMAIN Append(Copies(b), x) = 1 .. Len(b) + 1
        /\ Append(Copies(b), x)[Len(b) + 1] = x
        /\ \A i \in 1 .. Len(b) : Append(Copies(b), x)[i] = Copies(b)[i]
    BY <1>1, <1>2, <2>2, AppendProperties
  <2>4. ASSUME NEW i \in 1 .. Len(b) + 1
        PROVE  [k \in 1 .. Bytes(d[i]) |-> d[i]] = Append(Copies(b), x)[i]
    <3>1. i \in 1 .. Len(b) \/ i = Len(b) + 1
      BY <2>1
    <3>2. CASE i \in 1 .. Len(b)
      BY <3>2, <2>1, <2>2, <2>3, Zenon
    <3>3. CASE i = Len(b) + 1
      BY <3>3, <2>1, <2>3, Zenon DEF x
    <3> QED BY <3>1, <3>2, <3>3
  <2>5. Copies(d) = [i \in 1 .. Len(b) + 1 |-> [k \in 1 .. Bytes(d[i]) |-> d[i]]]
    BY <2>1, Zenon DEF Copies
  <2>6. \A f : (f = [i \in DOMAIN f |-> f[i]] /\ DOMAIN f = 1 .. Len(b) + 1
                 /\ \A i \in 1 .. Len(b) + 1 : f[i] = [k \in 1 .. Bytes(d[i]) |-> d[i]])
            => f = Copies(d)
    BY <2>5, Zenon
  <2>7. Append(Copies(b), x) = [i \in DOMAIN Append(Copies(b), x) |-> Append(Copies(b), x)[i]]
    <3>1. Append(Copies(b), x) \in Seq(Seq(Symbols))
      BY <1>1, <1>2, AppendProperties
    <3> QED BY <3>1, SeqIsFunction
  <2> QED BY <2>3, <2>4, <2>6, <2>7 DEF d
<1>4. FlattenSeq(Append(Copies(b), x)) = FlattenSeq(Copies(b)) \o x
  BY <1>1, <1>2, FlattenAppend
<1>5. FlattenSeq(Copies(b)) \in Seq(Symbols)
  BY <1>2, FlattenTyped
<1>6. /\ Size(b) = Len(FlattenSeq(Copies(b)))
      /\ Size(Append(b, c)) = Len(FlattenSeq(Copies(Append(b, c))))
  BY Zenon DEF Size, Copies
<1>7. Size(<<>>) = 0
  <2>1. Copies(<<>>) = <<>>
    BY DEF Copies
  <2>2. Size(<<>>) = Len(FlattenSeq(Copies(<<>>)))
    BY Zenon DEF Size, Copies
  <2> QED BY <2>1, <2>2, FlattenNone
<1> HIDE DEF x
<1>8. Len(FlattenSeq(Copies(b)) \o x) = Len(FlattenSeq(Copies(b))) + Len(x)
      /\ Len(FlattenSeq(Copies(b))) \in Nat
  BY <1>1, <1>5, ConcatAt
<1> QED BY <1>1, <1>3, <1>4, <1>6, <1>7, <1>8, Zenon

-----------------------------------------------------------------------------
(***************************************************************************)
(* Where the characters of a text field are.                               *)
(***************************************************************************)

\* Where the reader stands with j characters of a text field behind it.
Mark(r, i, j) == Start(r, i) + 7 + Off(Escaping(Said(r, i)), j)

\* The tokens of a character, from m on.
TokensAt(t, m, c) == \A k \in 1 .. Len(Escaped(c)) : t[m + (k - 1)] = Escaped(c)[k]

\* A text field: where its characters are.
LEMMA TextIn ==
  ASSUME NEW r \in Replies, NEW t, NEW i \in 1 .. Count(r), FieldIn(r, t, i), IsText(r, i),
         NEW s, s = Said(r, i)
  PROVE  /\ s \in Seq(Chars) /\ Len(s) \in Nat
         /\ t[Start(r, i) + 6] = Quote /\ Mark(r, i, 0) = Start(r, i) + 7
         /\ t[Mark(r, i, Len(s))] = Quote /\ End(r, i) = Mark(r, i, Len(s)) + 1
         /\ \A j \in 0 .. Len(s) :
              /\ Mark(r, i, j) \in Nat /\ Mark(r, i, j) < End(r, i) /\ Mark(r, i, j) >= 1
         /\ \A j \in 0 .. Len(s) - 1 :
              /\ s[j + 1] \in Chars
              /\ Mark(r, i, j + 1) = Mark(r, i, j) + Len(Escaped(s[j + 1]))
              /\ TokensAt(t, Mark(r, i, j), s[j + 1])
<1>1. PICK E : E = Escaping(s)
  OBVIOUS
<1>2. s \in Seq(Chars) /\ Val(r, i) = Quoted(s)
  BY SaidTyped, FieldShape
<1>3. PICK q : q = Quoted(s)
  OBVIOUS
<1>4. PICK n : n = Len(s)
  OBVIOUS
<1>5. /\ q \in Seq(Symbols) /\ Len(q) = Off(E, n) + 2
      /\ q[1] = Quote /\ q[Off(E, n) + 2] = Quote
      /\ Off(E, 0) = 0 /\ Off(E, n) \in Nat
      /\ \A j \in 1 .. n :
           /\ Off(E, j) = Off(E, j - 1) + Len(Escaped(s[j]))
           /\ Off(E, j) \in Nat /\ Off(E, j - 1) \in Nat
           /\ Off(E, j) <= Off(E, n)
           /\ \A k \in 1 .. Len(Escaped(s[j])) :
                q[1 + Off(E, j - 1) + k] = Escaped(s[j])[k]
  <2>1. /\ Quoted(s) \in Seq(Symbols) /\ Len(Quoted(s)) = Off(E, Len(s)) + 2
        /\ Quoted(s)[1] = Quote /\ Quoted(s)[Off(E, Len(s)) + 2] = Quote
        /\ Off(E, 0) = 0 /\ Off(E, Len(s)) \in Nat
        /\ \A j \in 1 .. Len(s) :
             /\ Off(E, j) = Off(E, j - 1) + Len(Escaped(s[j]))
             /\ Off(E, j) \in Nat /\ Off(E, j - 1) \in Nat
             /\ Off(E, j) <= Off(E, Len(s))
             /\ \A k \in 1 .. Len(Escaped(s[j])) :
                  Quoted(s)[1 + Off(E, j - 1) + k] = Escaped(s[j])[k]
    BY ONLY <1>1, <1>2, QuotedAt, Zenon
  <2> QED BY <2>1, <1>3, <1>4, Zenon
<1>6. PICK a : a = Start(r, i)
  OBVIOUS
<1>7. /\ a \in Nat /\ a >= 1 /\ \A k \in 1 .. Off(E, n) + 2 : t[a + 5 + k] = q[k]
      /\ End(r, i) = a + 6 + (Off(E, n) + 2)
  BY <1>2, <1>3, <1>5, <1>6, Zenon DEF FieldIn
<1>8. \A j : Mark(r, i, j) = a + 7 + Off(E, j)
  BY <1>1, <1>6, Zenon DEF Mark
<1>9. n \in Nat /\ \A j \in 1 .. n : s[j] \in Chars
  BY <1>2, <1>4
<1> DEFINE o == Off(E, n)
<1>10. t[a + 6] = Quote
  <2>1. 1 \in 1 .. o + 2 /\ a + 5 + 1 = a + 6
    <3>1. o \in Nat /\ a \in Nat
      BY <1>5, <1>7
    <3> HIDE DEF o
    <3> QED BY <3>1
  <2> QED BY <2>1, <1>5, <1>7
<1>11. t[a + 7 + o] = Quote /\ End(r, i) = a + 7 + o + 1
  <2>1. o + 2 \in 1 .. o + 2 /\ a + 5 + (o + 2) = a + 7 + o /\ a + 6 + (o + 2) = a + 7 + o + 1
    <3>1. o \in Nat /\ a \in Nat
      BY <1>5, <1>7
    <3> HIDE DEF o
    <3> QED BY <3>1
  <2>2. t[a + 5 + (o + 2)] = q[o + 2]
    BY <2>1, <1>7
  <2> QED BY <2>1, <2>2, <1>5, <1>7
<1>12. ASSUME NEW j \in 0 .. n
       PROVE  Off(E, j) \in Nat /\ Off(E, j) <= o
  <2>1. j = 0 \/ j \in 1 .. n
    BY <1>9
  <2> QED BY <2>1, <1>5
<1>13. ASSUME NEW j \in 0 .. n
       PROVE  Mark(r, i, j) \in Nat /\ Mark(r, i, j) < End(r, i) /\ Mark(r, i, j) >= 1
  <2> DEFINE p == Off(E, j)
  <2>1. p \in Nat /\ p <= o /\ o \in Nat /\ a \in Nat /\ Mark(r, i, j) = a + 7 + p
    BY <1>12, <1>5, <1>7, <1>8
  <2> HIDE DEF p, o
  <2> QED BY <2>1, <1>11
<1>14. ASSUME NEW j \in 0 .. n - 1
       PROVE  /\ s[j + 1] \in Chars
              /\ Mark(r, i, j + 1) = Mark(r, i, j) + Len(Escaped(s[j + 1]))
              /\ TokensAt(t, Mark(r, i, j), s[j + 1])
  <2>1. j + 1 \in 1 .. n /\ (j + 1) - 1 = j /\ j \in 0 .. n
    BY <1>9
  <2>2. PICK c : c = s[j + 1] /\ c \in Chars
    BY <2>1, <1>9
  <2> DEFINE p == Off(E, j)
             l == Len(Escaped(c))
             u == Off(E, j + 1)
  <2>3. l \in Nat
    BY <2>2, EscapedTyped
  <2>4. u = p + l /\ p \in Nat /\ u \in Nat /\ u <= o
        /\ \A k \in 1 .. l : q[1 + p + k] = Escaped(c)[k]
    BY <1>5, <2>1, <2>2
  <2>5. Mark(r, i, j) = a + 7 + p /\ Mark(r, i, j + 1) = a + 7 + u
    BY <1>8
  <2>o. o \in Nat
    BY <1>5
  <2>6. ASSUME NEW k \in 1 .. l PROVE t[Mark(r, i, j) + (k - 1)] = Escaped(c)[k]
    <3>1. 1 + p + k \in 1 .. o + 2 /\ a + 5 + (1 + p + k) = a + 7 + p + (k - 1)
      <4> HIDE DEF p, l, u, o
      <4> QED BY <2>3, <2>4, <2>o, <1>7
    <3> HIDE DEF p, l, u
    <3> QED BY <3>1, <2>4, <2>5, <1>7
  <2>7. Mark(r, i, j + 1) = Mark(r, i, j) + l
    <3> HIDE DEF p, l, u
    <3> QED BY <2>3, <2>4, <2>5, <1>7
  <2> QED BY <2>2, <2>6, <2>7 DEF TokensAt
<1>15. Mark(r, i, 0) = a + 7
  BY <1>5, <1>7, <1>8
<1> QED BY <1>2, <1>4, <1>6, <1>8, <1>9, <1>10, <1>11, <1>13, <1>14, <1>15

\* Which tokens a character has.
LEMMA Tokens ==
  ASSUME NEW t, NEW m \in Nat, NEW c \in Chars, TokensAt(t, m, c)
  PROVE  \/ PlainText(c) /\ Len(Escaped(c)) = 1 /\ t[m] = c /\ c # Quote /\ c # Backslash
            /\ c \notin Named
         \/ c = "quote" /\ Len(Escaped(c)) = 2 /\ t[m] = Backslash /\ t[m + 1] = Quote
         \/ c = "backslash" /\ Len(Escaped(c)) = 2 /\ t[m] = Backslash /\ t[m + 1] = Backslash
         \/ c = "newline" /\ Len(Escaped(c)) = 2 /\ t[m] = Backslash /\ t[m + 1] = "n"
         \/ c = "nul" /\ Len(Escaped(c)) = 3 /\ t[m] = Backslash /\ t[m + 1] = "u"
            /\ t[m + 2] = "0000"
         \/ c = "accent" /\ Len(Escaped(c)) = 3 /\ t[m] = Backslash /\ t[m + 1] = "u"
            /\ t[m + 2] = "00E9"
         \/ c = "high" /\ Len(Escaped(c)) = 3 /\ t[m] = Backslash /\ t[m + 1] = "u"
            /\ t[m + 2] = High
         \/ c = "low" /\ Len(Escaped(c)) = 3 /\ t[m] = Backslash /\ t[m + 1] = "u"
            /\ t[m + 2] = Low
         \/ c = "astral" /\ Len(Escaped(c)) = 6 /\ t[m] = Backslash /\ t[m + 1] = "u"
            /\ t[m + 2] = High /\ t[m + 3] = Backslash /\ t[m + 4] = "u" /\ t[m + 5] = Low
<1>0. m + (1 - 1) = m /\ m + (2 - 1) = m + 1 /\ m + (3 - 1) = m + 2
      /\ m + (4 - 1) = m + 3 /\ m + (5 - 1) = m + 4 /\ m + (6 - 1) = m + 5
  OBVIOUS
<1>1. CASE PlainText(c)
  <2>1. Escaped(c) = <<c>> /\ c \notin Named /\ c # Quote /\ c # Backslash
    BY <1>1, EscapedPlain
  <2>2. Len(<<c>>) = 1 /\ 1 \in 1 .. 1 /\ <<c>>[1] = c
    OBVIOUS
  <2>3. t[m + (1 - 1)] = c /\ Len(Escaped(c)) = 1
    BY <2>1, <2>2 DEF TokensAt
  <2> QED BY <2>1, <2>3, <1>0, <1>1
<1>2. CASE c \in {"quote", "backslash", "newline"}
  <2>1. PICK b : Escaped(c) = <<Backslash, b>>
                 /\ b = IF c = "quote" THEN Quote ELSE IF c = "backslash" THEN Backslash ELSE "n"
    BY <1>2, EscapedNamed
  <2>2. Len(<<Backslash, b>>) = 2 /\ 1 \in 1 .. 2 /\ 2 \in 1 .. 2
        /\ <<Backslash, b>>[1] = Backslash /\ <<Backslash, b>>[2] = b
    OBVIOUS
  <2>3. t[m + (1 - 1)] = Backslash /\ t[m + (2 - 1)] = b /\ Len(Escaped(c)) = 2
    BY <2>1, <2>2 DEF TokensAt
  <2> QED BY <2>1, <2>3, <1>0, <1>2
<1>3. CASE c \in {"nul", "accent", "high", "low"}
  <2>1. PICK b : Escaped(c) = <<Backslash, "u", b>>
                 /\ b = IF c = "nul" THEN "0000" ELSE IF c = "accent" THEN "00E9"
                        ELSE IF c = "high" THEN High ELSE Low
    BY <1>3, EscapedNamed
  <2>2. Len(<<Backslash, "u", b>>) = 3 /\ 1 \in 1 .. 3 /\ 2 \in 1 .. 3 /\ 3 \in 1 .. 3
        /\ <<Backslash, "u", b>>[1] = Backslash /\ <<Backslash, "u", b>>[2] = "u"
        /\ <<Backslash, "u", b>>[3] = b
    OBVIOUS
  <2>3. t[m + (1 - 1)] = Backslash /\ t[m + (2 - 1)] = "u" /\ t[m + (3 - 1)] = b
        /\ Len(Escaped(c)) = 3
    BY <2>1, <2>2 DEF TokensAt
  <2> QED BY <2>1, <2>3, <1>0, <1>3
<1>4. CASE c = "astral"
  <2>1. PICK e : e = <<Backslash, "u", High, Backslash, "u", Low>> /\ e = Escaped(c)
    BY <1>4, EscapedNamed
  <2>2. Len(e) = 6 /\ 1 \in 1 .. 6 /\ 2 \in 1 .. 6 /\ 3 \in 1 .. 6 /\ 4 \in 1 .. 6 /\ 5 \in 1 .. 6
        /\ 6 \in 1 .. 6 /\ e[1] = Backslash /\ e[2] = "u" /\ e[3] = High
        /\ e[4] = Backslash /\ e[5] = "u" /\ e[6] = Low
    BY <2>1
  <2>3. t[m + (1 - 1)] = Backslash /\ t[m + (2 - 1)] = "u" /\ t[m + (3 - 1)] = High
        /\ t[m + (4 - 1)] = Backslash /\ t[m + (5 - 1)] = "u" /\ t[m + (6 - 1)] = Low
        /\ Len(Escaped(c)) = 6
    BY <2>1, <2>2, Zenon DEF TokensAt
  <2> QED BY <2>3, <1>0, <1>4
<1>5. PlainText(c) \/ c \in Named
  BY DEF Chars
<1> QED BY <1>1, <1>2, <1>3, <1>4, <1>5 DEF Named

-----------------------------------------------------------------------------
(***************************************************************************)
(* The inductive invariant, and one lemma for each action.                 *)
(***************************************************************************)

\* What field i is stored as, and the map with the first f fields stored.
Value(r, i) ==
  IF IsText(r, i) THEN JsonValue("string", FlattenSeq(Units(Said(r, i))))
  ELSE JsonValue(IF Val(r, i)[1] \in {"true", "false"} THEN "bool" ELSE "number", Val(r, i))
Stored(r, g, f) ==
  /\ DOMAIN g = {Key(r, i) : i \in 1 .. f}
  /\ \A i \in 1 .. f : g[Key(r, i)] = Value(r, i)

\* The reader before the object, and inside it, before the first field.
AtOpen == place = "open" /\ mark = 1 /\ Stored(sent, got, 0)
AtFirst == place = "first" /\ mark = Start(sent, 1) + 1 /\ Stored(sent, got, 0)

\* Before a name; in it; after it; before a value; in one; after one.
AtKey(f) ==
  /\ place = "key" /\ f > 1 /\ mark \in {Start(sent, f), Start(sent, f) + 1}
  /\ Stored(sent, got, f - 1)
InKey(f) ==
  /\ place = "in key" /\ Stored(sent, got, f - 1) /\ Size(buf) <= taken
  /\ \/ mark = Start(sent, f) + 2 /\ buf = <<>>
     \/ mark = Start(sent, f) + 3 /\ buf = <<Key(sent, f)>>
AtColon(f) ==
  /\ place = "colon" /\ mark = Start(sent, f) + 4 /\ field = Key(sent, f)
  /\ Stored(sent, got, f - 1)
AtValue(f) ==
  /\ place = "value" /\ mark \in {Start(sent, f) + 5, Start(sent, f) + 6}
  /\ field = Key(sent, f) /\ Stored(sent, got, f - 1)
InValue(f) ==
  /\ place = "in value" /\ field = Key(sent, f) /\ Stored(sent, got, f - 1)
  /\ IsText(sent, f) /\ Size(buf) <= taken
  /\ \E j \in 0 .. Len(Said(sent, f)) :
       /\ mark = Mark(sent, f, j) /\ buf = Decoded(Said(sent, f), j)
       /\ ~Joined(Said(sent, f), j)
AtSep(f) == place = "sep" /\ mark = End(sent, f) /\ Stored(sent, got, f)

\* After the object, and when it is done.
AtObject == place = "object" /\ mark = Len(json) /\ Stored(sent, got, Count(sent))
AtDone ==
  /\ place = "done" /\ mark \in 1 .. Len(json)
  /\ parsed = IF mark = Len(json) THEN Meant(sent) ELSE Malformed

Within(f) ==
  AtKey(f) \/ InKey(f) \/ AtColon(f) \/ AtValue(f) \/ InValue(f) \/ AtSep(f)

\* The inductive invariant: the reader stands somewhere in the text, with the
\* fields before it stored and the text it is in decoded up to there.
ReadInv ==
  /\ sent \in Replies /\ json = Dumps(Fields(sent)) /\ taken \in Nat
  /\ place # "done" => parsed = Nothing
  /\ \/ AtOpen \/ AtFirst \/ AtObject \/ AtDone
     \/ \E f \in 1 .. Count(sent) : Within(f)

\* The text at the reader's field.
LEMMA Around ==
  ASSUME ReadInv
  PROVE  /\ json \in Seq(Symbols) /\ json[1] = "{" /\ Count(sent) \in {4, 6} /\ Len(json) \in Nat
         /\ Start(sent, 1) = 1
         /\ \A f \in 1 .. Count(sent) :
              /\ FieldIn(sent, json, f)
              /\ f < Count(sent) => Start(sent, f + 1) = End(sent, f) + 1
              /\ Key(sent, f) \in KeyNames /\ Len(Val(sent, f)) \in Nat
              /\ Len(Val(sent, f)) >= 1
<1>1. sent \in Replies /\ json = Dumps(Fields(sent))
  BY DEF ReadInv
<1>2. json \in Seq(Symbols) /\ json[1] = "{" /\ \A i \in 1 .. Count(sent) : FieldIn(sent, json, i)
  BY <1>1, Layout
<1>3. Count(sent) \in {4, 6} /\ \A f \in 1 .. Count(sent) : Key(sent, f) \in KeyNames
  BY <1>1, FieldShape
<1>4. Start(sent, 1) = 1
  BY DEF Start
<1>5. ASSUME NEW f \in 1 .. Count(sent), f < Count(sent)
      PROVE  Start(sent, f + 1) = End(sent, f) + 1
  <2>1. f + 1 # 1 /\ (f + 1) - 1 = f
    BY <1>3
  <2> QED BY <2>1, Zenon DEF Start
<1>6. \A f \in 1 .. Count(sent) : Len(Val(sent, f)) \in Nat /\ Len(Val(sent, f)) >= 1
  BY <1>1, ValTyped
<1>7. Len(json) \in Nat
  BY <1>2, LenProperties
<1> QED BY <1>2, <1>3, <1>4, <1>5, <1>6, <1>7

\* There are four or six fields.
LEMMA Counts == \A n \in {4, 6} : n \in Nat /\ 1 \in 1 .. n
OBVIOUS

\* It holds when the reader begins.
LEMMA InitReads == ReplyInit => ReadInv
<1> SUFFICES ASSUME ReplyInit PROVE ReadInv
  OBVIOUS
<1>1. DOMAIN got = {}
  BY Zenon DEF ReplyInit
<1>3. 1 .. 0 = {}
  OBVIOUS
<1>2. Stored(sent, got, 0)
  BY <1>1, <1>3, Zenon DEF Stored
<1> QED BY <1>2 DEF ReplyInit, ReadInv, AtOpen

\* The first token of a value.
LEMMA ValueToken ==
  ASSUME ReadInv, NEW f \in 1 .. Count(sent)
  PROVE  /\ IsText(sent, f) => json[Start(sent, f) + 6] = Quote
         /\ ~IsText(sent, f) =>
              /\ json[Start(sent, f) + 6] \in Literals
              /\ Val(sent, f) = <<json[Start(sent, f) + 6]>>
              /\ End(sent, f) = Start(sent, f) + 7
<1>1. sent \in Replies /\ FieldIn(sent, json, f)
  BY Around DEF ReadInv
<1>2. CASE IsText(sent, f)
  BY <1>1, <1>2, TextIn
<1>3. CASE ~IsText(sent, f)
  <2>1. PICK lit \in Literals : Val(sent, f) = <<lit>>
    BY <1>1, <1>3, FieldShape
  <2>2. Len(<<lit>>) = 1 /\ <<lit>>[1] = lit /\ 1 \in 1 .. 1
    OBVIOUS
  <2>3. Start(sent, f) \in Nat /\ json[Start(sent, f) + 5 + 1] = lit
        /\ End(sent, f) = Start(sent, f) + 6 + 1
    BY <1>1, <2>1, <2>2, Zenon DEF FieldIn
  <2>4. Start(sent, f) + 5 + 1 = Start(sent, f) + 6 /\ Start(sent, f) + 6 + 1 = Start(sent, f) + 7
    BY <2>3
  <2> QED BY <1>3, <2>1, <2>3, <2>4
<1> QED BY <1>2, <1>3

\* Skipping a blank preserves it.
LEMMA BlankReads == ASSUME ReadInv, Blank PROVE ReadInv'
<1>1. /\ ~OutOfText /\ json[mark] = " "
      /\ place \in {"open", "first", "key", "colon", "value", "sep"}
      /\ mark' = mark + 1 /\ place' = place
      /\ UNCHANGED <<sent, json, field, buf, taken, got, parsed>>
  BY DEF Blank, Here, Go, KeepReply, decoding
<1>2. ~AtObject /\ ~AtDone
  BY <1>1 DEF AtObject, AtDone
<1>3. ~AtOpen
  BY <1>1, Around DEF AtOpen
<1>4. Count(sent) \in Nat /\ 1 \in 1 .. Count(sent)
  BY Around, Counts
<1>5. ~AtFirst
  <2>1. json[Start(sent, 1) + 1] = Quote
    BY <1>4, Around DEF FieldIn
  <2> QED BY <1>1, <2>1 DEF AtFirst, Quote
<1>6. PICK f \in 1 .. Count(sent) : Within(f)
  BY <1>2, <1>3, <1>5 DEF ReadInv
<1>7. FieldIn(sent, json, f) /\ f \in Nat /\ sent \in Replies
  <2>1. f \in Nat
    BY <1>4
  <2> QED BY <2>1, Around, Zenon DEF ReadInv
<1>8. ~AtColon(f) /\ ~AtSep(f) /\ ~InKey(f) /\ ~InValue(f)
  <2>1. ~AtColon(f)
    BY <1>1, <1>7 DEF AtColon, FieldIn
  <2>2. ~AtSep(f)
    <3>1. f = Count(sent) \/ f < Count(sent)
      BY <1>4
    <3>2. json[End(sent, f)] # " "
      BY <1>7, <3>1 DEF FieldIn
    <3> QED BY <1>1, <3>2 DEF AtSep
  <2> QED BY <1>1, <2>1, <2>2 DEF InKey, InValue
<1>9. CASE AtKey(f)
  <2>1. mark = Start(sent, f)
    BY <1>1, <1>7, <1>9 DEF AtKey, FieldIn, Quote
  <2>2. AtKey(f)'
    BY <2>1, <1>1, <1>9 DEF AtKey
  <2> QED BY <1>1, <1>9, <2>2 DEF ReadInv, Within, AtKey
<1>10. CASE AtValue(f)
  <2>1. mark = Start(sent, f) + 5
    <3>1. json[Start(sent, f) + 6] # " "
      BY ValueToken DEF Literals, Quote
    <3> QED BY <1>1, <1>10, <3>1 DEF AtValue
  <2>2. AtValue(f)'
    <3>1. Start(sent, f) \in Nat
      BY <1>7 DEF FieldIn
    <3>2. (Start(sent, f) + 5) + 1 = Start(sent, f) + 6
      BY <3>1
    <3>3. mark' = Start(sent, f) + 6
      BY <3>2, <2>1, <1>1
    <3> QED BY <3>3, <1>1, <1>10 DEF AtValue
  <2> QED BY <1>1, <1>10, <2>2 DEF ReadInv, Within, AtValue
<1> QED BY <1>6, <1>8, <1>9, <1>10 DEF Within

\* Where a step can start from, by the reader's place.
LEMMA Places ==
  ASSUME ReadInv
  PROVE  /\ place = "open" => AtOpen
         /\ place = "first" => AtFirst
         /\ place = "key" => \E f \in 1 .. Count(sent) : AtKey(f)
         /\ place = "in key" => \E f \in 1 .. Count(sent) : InKey(f)
         /\ place = "colon" => \E f \in 1 .. Count(sent) : AtColon(f)
         /\ place = "value" => \E f \in 1 .. Count(sent) : AtValue(f)
         /\ place = "in value" => \E f \in 1 .. Count(sent) : InValue(f)
         /\ place = "sep" => \E f \in 1 .. Count(sent) : AtSep(f)
         /\ place = "object" => AtObject
         /\ place = "done" => AtDone
<1>1. ASSUME NEW f \in 1 .. Count(sent), Within(f)
      PROVE  /\ place = "key" => AtKey(f)
             /\ place = "in key" => InKey(f)
             /\ place = "colon" => AtColon(f)
             /\ place = "value" => AtValue(f)
             /\ place = "in value" => InValue(f)
             /\ place = "sep" => AtSep(f)
             /\ place \in {"key", "in key", "colon", "value", "in value", "sep"}
  BY <1>1 DEF Within, AtKey, InKey, AtColon, AtValue, InValue, AtSep
<1>2. CASE \E f \in 1 .. Count(sent) : Within(f)
  BY <1>1, <1>2
<1>3. CASE AtOpen \/ AtFirst \/ AtObject \/ AtDone
  BY <1>3 DEF AtOpen, AtFirst, AtObject, AtDone
<1> QED BY <1>2, <1>3 DEF ReadInv

\* A field has a next one unless it is the last.
LEMMA Neighbours ==
  ASSUME NEW n \in Nat, NEW f \in 1 .. n
  PROVE  /\ f = n \/ f < n
         /\ f < n => f + 1 \in 1 .. n /\ f + 1 > 1 /\ (f + 1) - 1 = f
         /\ f > 1 => f - 1 \in 1 .. n /\ f - 1 < n /\ (f - 1) + 1 = f
OBVIOUS

\* The facts of a field, named.
LEMMA AtField ==
  ASSUME ReadInv, NEW f \in 1 .. Count(sent)
  PROVE  /\ sent \in Replies /\ FieldIn(sent, json, f) /\ f \in Nat /\ f >= 1
         /\ Count(sent) \in Nat /\ Len(json) \in Nat
         /\ Start(sent, f) \in Nat /\ Start(sent, f) >= 1
         /\ Key(sent, f) \in KeyNames
         /\ json[Start(sent, f) + 1] = Quote /\ json[Start(sent, f) + 2] = Key(sent, f)
         /\ json[Start(sent, f) + 3] = Quote /\ json[Start(sent, f) + 4] = ":"
         /\ json[Start(sent, f) + 5] = " "
         /\ End(sent, f) \in Nat /\ End(sent, f) < Len(json)
         /\ Start(sent, f) + 6 < End(sent, f)
<1>1. Count(sent) \in Nat
  BY Around, Counts
<1>2. f \in Nat /\ f >= 1
  BY <1>1
<1>3. sent \in Replies
  BY DEF ReadInv
<1>4. FieldIn(sent, json, f) /\ Key(sent, f) \in KeyNames /\ Len(json) \in Nat
      /\ Len(Val(sent, f)) \in Nat /\ Len(Val(sent, f)) >= 1
  BY Around, Zenon
<1>5. Start(sent, f) \in Nat /\ End(sent, f) = Start(sent, f) + 6 + Len(Val(sent, f))
  BY <1>4, Zenon DEF FieldIn
<1>6. Start(sent, f) + 6 < End(sent, f)
  <2> DEFINE a == Start(sent, f)
             b == Len(Val(sent, f))
             c == End(sent, f)
  <2>1. a \in Nat /\ b \in Nat /\ b >= 1 /\ c = a + 6 + b
    BY <1>4, <1>5, Zenon
  <2> HIDE DEF a, b, c
  <2>2. a + 6 < c
    BY <2>1
  <2> QED BY <2>2, Zenon DEF a, c
<1> QED BY <1>1, <1>2, <1>3, <1>4, <1>6, Zenon DEF FieldIn

\* There is a first field.
LEMMA FirstField == ASSUME ReadInv PROVE 1 \in 1 .. Count(sent) /\ Start(sent, 1) = 1
BY Around, Counts

\* Sums of small numbers.
LEMMA Sums ==
  \A n \in Nat : /\ (n + 1) + 1 = n + 2 /\ (n + 2) + 1 = n + 3 /\ (n + 3) + 1 = n + 4
                 /\ (n + 4) + 1 = n + 5 /\ (n + 5) + 1 = n + 6 /\ (n + 6) + 1 = n + 7
OBVIOUS

\* A brace, a colon or a comma preserves it.
LEMMA PunctuationReads == ASSUME ReadInv, Punctuation PROVE ReadInv'
<1>1. UNCHANGED <<sent, json, field, buf, taken, got, parsed>>
  BY DEF Punctuation, KeepReply, decoding
<1>r. sent' \in Replies /\ json' = Dumps(Fields(sent')) /\ taken' \in Nat
  BY <1>1 DEF ReadInv
<1>2. CASE place = "open" /\ Here = "{" /\ Go(1, "first")
  <2>1. mark = 1 /\ Stored(sent, got, 0)
    BY <1>2, Places DEF AtOpen
  <2>2. Start(sent, 1) = 1
    BY FirstField
  <2>3. AtFirst'
    BY <1>1, <1>2, <2>1, <2>2 DEF AtFirst, Go
  <2> QED BY <1>1, <1>r, <1>2, <2>3 DEF ReadInv, Go
<1>3. CASE place = "colon" /\ Here = ":" /\ Go(1, "value")
  <2>1. PICK f \in 1 .. Count(sent) : AtColon(f)
    BY <1>3, Places
  <2>2. Start(sent, f) \in Nat
    BY AtField
  <2>3. mark' = Start(sent, f) + 5 /\ place' = "value"
    BY <1>3, <2>1, <2>2, Sums DEF AtColon, Go
  <2>4. AtValue(f)'
    BY <1>1, <2>1, <2>3 DEF AtValue, AtColon
  <2> QED BY <1>1, <1>r, <1>3, <2>3, <2>4 DEF ReadInv, Within
<1>4. CASE place = "sep" /\ Here = "," /\ Go(1, "key")
  <2>1. PICK f \in 1 .. Count(sent) : AtSep(f)
    BY <1>4, Places
  <2>2. /\ FieldIn(sent, json, f) /\ json[End(sent, f)] = "," /\ mark' = End(sent, f) + 1
        /\ place' = "key" /\ f \in Nat /\ f >= 1 /\ Count(sent) \in Nat
    BY <1>4, <2>1, AtField DEF AtSep, Here, Go
  <2>3. f < Count(sent)
    <3>1. f = Count(sent) => json[End(sent, f)] = "}"
      BY <2>2, Zenon DEF FieldIn
    <3> QED BY <3>1, <2>2, Neighbours
  <2>4. f + 1 \in 1 .. Count(sent) /\ f + 1 > 1 /\ (f + 1) - 1 = f
    BY <2>2, <2>3, Neighbours
  <2>5. Start(sent, f + 1) = End(sent, f) + 1
    BY <2>3, Around, Zenon
  <2> DEFINE g == f + 1
  <2>6. mark' = Start(sent, g) /\ g > 1 /\ g - 1 = f /\ g \in 1 .. Count(sent)
    BY <2>2, <2>4, <2>5
  <2> HIDE DEF g
  <2>7. AtKey(g)'
    BY <1>1, <2>1, <2>2, <2>6 DEF AtKey, AtSep
  <2> QED BY <1>1, <1>r, <1>4, <2>2, <2>6, <2>7 DEF ReadInv, Within
<1>5. CASE place \in {"first", "sep"} /\ Here = "}" /\ Go(1, "object")
  <2>1. place # "first"
    <3>1. json[Start(sent, 1) + 1] = Quote
      BY FirstField, AtField
    <3> QED BY <1>5, <3>1, Places DEF AtFirst, Here, Quote
  <2>2. PICK f \in 1 .. Count(sent) : AtSep(f)
    BY <1>5, <2>1, Places
  <2>3. /\ FieldIn(sent, json, f) /\ json[End(sent, f)] = "}" /\ mark' = End(sent, f) + 1
        /\ place' = "object" /\ f \in Nat /\ Count(sent) \in Nat
    BY <1>5, <2>2, AtField DEF AtSep, Here, Go
  <2>4. f = Count(sent)
    <3>1. f < Count(sent) => json[End(sent, f)] = ","
      BY <2>3, Zenon DEF FieldIn
    <3> QED BY <3>1, <2>3, Neighbours
  <2>5. mark' = Len(json)
    BY <2>3, <2>4 DEF FieldIn
  <2>6. AtObject'
    BY <1>1, <2>2, <2>3, <2>4, <2>5 DEF AtObject, AtSep
  <2> QED BY <1>1, <1>r, <1>5, <2>3, <2>6 DEF ReadInv
<1> QED BY <1>2, <1>3, <1>4, <1>5 DEF Punctuation

\* The empty text has no bytes.
LEMMA NoSize == Size(<<>>) = 0
<1>1. <<>> \in Seq(Symbols) /\ Quote \in Symbols
  BY DEF Symbols
<1> QED BY <1>1, SizeAppend

\* The quote that begins a string preserves it.
LEMMA BeginStringReads == ASSUME ReadInv, BeginString PROVE ReadInv'
<1>1. UNCHANGED <<sent, json, field, got, parsed>> /\ buf' = <<>> /\ taken' = 0
      /\ json[mark] = Quote
  BY DEF BeginString, KeepReply, Here
<1>r. sent' \in Replies /\ json' = Dumps(Fields(sent')) /\ taken' \in Nat
      /\ Size(buf') <= taken'
  BY <1>1, NoSize DEF ReadInv
<1>2. ASSUME NEW f \in 1 .. Count(sent), mark = Start(sent, f) + 1, Go(1, "in key"),
             Stored(sent, got, f - 1), place # "done"
      PROVE  ReadInv'
  <2>1. mark' = Start(sent, f) + 2 /\ place' = "in key"
    BY <1>2, AtField, Sums DEF Go
  <2>2. InKey(f)'
    BY <1>1, <1>r, <1>2, <2>1 DEF InKey
  <2> QED BY <1>1, <1>r, <1>2, <2>1, <2>2 DEF ReadInv, Within
<1>3. CASE place = "first" /\ Go(1, "in key")
  <2>1. AtFirst /\ 1 \in 1 .. Count(sent) /\ 1 - 1 = 0
    <3>1. 1 - 1 = 0
      OBVIOUS
    <3> QED BY <1>3, <3>1, Places, FirstField, Zenon
  <2> QED BY <1>2, <1>3, <2>1 DEF AtFirst
<1>4. CASE place = "key" /\ Go(1, "in key")
  <2>1. PICK f \in 1 .. Count(sent) : AtKey(f)
    BY <1>4, Places
  <2>2. mark = Start(sent, f) + 1
    <3>1. json[Start(sent, f)] = " "
      <4> DEFINE g == f - 1
      <4>1. g \in 1 .. Count(sent) /\ g < Count(sent) /\ g + 1 = f
        <5>1. f > 1 /\ Count(sent) \in Nat
          BY <2>1, AtField DEF AtKey
        <5> QED BY <5>1, Neighbours
      <4> HIDE DEF g
      <4>2. Start(sent, f) = End(sent, g) + 1 /\ FieldIn(sent, json, g)
        BY <4>1, Around, Zenon
      <4> QED BY <4>1, <4>2 DEF FieldIn
    <3> QED BY <1>1, <2>1, <3>1 DEF AtKey, Quote
  <2> QED BY <1>2, <1>4, <2>1, <2>2 DEF AtKey
<1>5. CASE place = "value" /\ Go(1, "in value")
  <2>1. PICK f \in 1 .. Count(sent) : AtValue(f)
    BY <1>5, Places
  <2>2. mark = Start(sent, f) + 6
    BY <1>1, <2>1, AtField DEF AtValue, Quote
  <2>3. IsText(sent, f)
    BY <1>1, <2>2, ValueToken DEF Literals, Quote
  <2>4. PICK s : s = Said(sent, f)
    OBVIOUS
  <2>5. s \in Seq(Chars) /\ Len(s) \in Nat /\ Mark(sent, f, 0) = Start(sent, f) + 7
    BY <2>3, <2>4, AtField, TextIn
  <2>6. Decoded(s, 0) = <<>> /\ ~Joined(s, 0) /\ 0 \in 0 .. Len(s)
    BY <2>5, DecodedStep DEF Joined
  <2>7. mark' = Mark(sent, f, 0) /\ place' = "in value"
    BY <1>5, <2>2, <2>5, AtField, Sums DEF Go
  <2>8. \E j \in 0 .. Len(Said(sent, f)) :
           mark' = Mark(sent, f, j) /\ buf' = Decoded(Said(sent, f), j)
             /\ ~Joined(Said(sent, f), j)
    BY <1>1, <2>4, <2>6, <2>7, Zenon
  <2>9. InValue(f)'
    BY <1>1, <1>r, <2>1, <2>3, <2>7, <2>8 DEF InValue, AtValue
  <2> QED BY <1>1, <1>r, <1>5, <2>7, <2>9 DEF ReadInv, Within
<1> QED BY <1>3, <1>4, <1>5 DEF BeginString

\* A text that took no more bytes than characters of the JSON still does.
LEMMA SizeGrows ==
  ASSUME NEW b \in Seq(Symbols), NEW c \in Symbols, NEW n \in Nat, NEW k \in Nat,
         Size(b) <= n, Bytes(c) <= k
  PROVE  Size(Append(b, c)) <= n + k /\ n + k \in Nat
<1>1. Size(Append(b, c)) = Size(b) + Bytes(c) /\ Size(b) \in Nat /\ Bytes(c) \in Nat
  BY SizeAppend, BytesBound
<1> DEFINE x == Size(b)
           y == Bytes(c)
           z == Size(Append(b, c))
<1>2. z = x + y /\ x \in Nat /\ y \in Nat /\ x <= n /\ y <= k
  BY <1>1
<1> HIDE DEF x, y, z
<1>3. z <= n + k /\ n + k \in Nat
  BY <1>2
<1> QED BY <1>3 DEF z

\* Inside a text field, with j characters behind the reader.
Behind(f, j) ==
  /\ mark = Mark(sent, f, j) /\ buf = Decoded(Said(sent, f), j)
  /\ ~Joined(Said(sent, f), j)

\* What the reader sees there.
LEMMA Ahead ==
  ASSUME ReadInv, NEW f \in 1 .. Count(sent), InValue(f), NEW s, s = Said(sent, f),
         NEW j \in 0 .. Len(s), Behind(f, j)
  PROVE  /\ s \in Seq(Chars) /\ Len(s) \in Nat /\ mark \in Nat
         /\ j = Len(s) => json[mark] = Quote /\ mark + 1 = End(sent, f)
         /\ j < Len(s) =>
              /\ j + 1 \in 1 .. Len(s) /\ (j + 1) - 1 = j /\ s[j + 1] \in Chars
              /\ TokensAt(json, mark, s[j + 1])
              /\ Mark(sent, f, j + 1) = mark + Len(Escaped(s[j + 1]))
              /\ mark + Len(Escaped(s[j + 1])) < Len(json)
         /\ j < Len(s) \/ j = Len(s)
<1>1. sent \in Replies /\ FieldIn(sent, json, f) /\ IsText(sent, f) /\ mark = Mark(sent, f, j)
      /\ End(sent, f) < Len(json) /\ End(sent, f) \in Nat /\ Len(json) \in Nat
  BY AtField, Zenon DEF InValue, Behind
<1>2. /\ s \in Seq(Chars) /\ Len(s) \in Nat
      /\ json[Mark(sent, f, Len(s))] = Quote
      /\ End(sent, f) = Mark(sent, f, Len(s)) + 1
      /\ \A i \in 0 .. Len(s) :
           /\ Mark(sent, f, i) \in Nat /\ Mark(sent, f, i) < End(sent, f) /\ Mark(sent, f, i) >= 1
      /\ \A i \in 0 .. Len(s) - 1 :
           /\ s[i + 1] \in Chars
           /\ Mark(sent, f, i + 1) = Mark(sent, f, i) + Len(Escaped(s[i + 1]))
           /\ TokensAt(json, Mark(sent, f, i), s[i + 1])
  BY ONLY <1>1, s = Said(sent, f), f \in 1 .. Count(sent), TextIn
<1>3. ASSUME j < Len(s)
      PROVE  /\ j + 1 \in 1 .. Len(s) /\ (j + 1) - 1 = j /\ s[j + 1] \in Chars
             /\ TokensAt(json, mark, s[j + 1])
             /\ Mark(sent, f, j + 1) = mark + Len(Escaped(s[j + 1]))
             /\ mark + Len(Escaped(s[j + 1])) < Len(json)
  <2>1. j + 1 \in 1 .. Len(s) /\ j + 1 \in 0 .. Len(s) /\ (j + 1) - 1 = j /\ j \in 0 .. Len(s) - 1
    BY <1>2, <1>3
  <2>2. Mark(sent, f, j + 1) < End(sent, f) /\ Mark(sent, f, j + 1) \in Nat
    BY <2>1, <1>2
  <2>3. Mark(sent, f, j + 1) < Len(json)
    BY <2>2, <1>1
  <2>4. /\ s[j + 1] \in Chars
        /\ Mark(sent, f, j + 1) = Mark(sent, f, j) + Len(Escaped(s[j + 1]))
        /\ TokensAt(json, Mark(sent, f, j), s[j + 1])
    BY <2>1, <1>2
  <2> QED BY <2>1, <2>3, <2>4, <1>1
<1>4. j < Len(s) \/ j = Len(s)
  BY <1>2
<1> QED BY <1>1, <1>2, <1>3, <1>4

\* Reading on in a text field to the character i leaves the invariant as it is.
LEMMA ReadsOn ==
  ASSUME ReadInv, NEW f \in 1 .. Count(sent), InValue(f), NEW s, s = Said(sent, f),
         NEW i \in 0 .. Len(s), NEW c \in Symbols, NEW tokens \in Nat, NEW chars \in Nat,
         Decodes(c, tokens, chars),
         mark + tokens = Mark(sent, f, i), Append(buf, c) = Decoded(s, i), ~Joined(s, i),
         Bytes(c) <= chars, buf \in Seq(Symbols)
  PROVE  ReadInv'
<1>1. /\ UNCHANGED <<sent, json, parsed, field, got>> /\ place' = place
      /\ buf' = Append(buf, c) /\ taken' = taken + chars /\ mark' = mark + tokens
  BY DEF Decodes, KeepReply, Go
<1>2. taken \in Nat /\ Size(buf) <= taken
  BY DEF ReadInv, InValue
<1>3. Size(buf') <= taken' /\ taken' \in Nat
  BY <1>1, <1>2, SizeGrows
<1>4. \E j \in 0 .. Len(Said(sent, f)) :
        mark' = Mark(sent, f, j) /\ buf' = Decoded(Said(sent, f), j) /\ ~Joined(Said(sent, f), j)
  BY <1>1, Zenon
<1>5. InValue(f)'
  BY <1>1, <1>3, <1>4 DEF InValue
<1>6. sent' \in Replies /\ json' = Dumps(Fields(sent')) /\ place' # "done" /\ parsed' = Nothing
  BY <1>1 DEF ReadInv, InValue
<1> QED BY <1>1, <1>3, <1>5, <1>6 DEF ReadInv, Within

\* One character read for itself.
LEMMA ReadsOne ==
  ASSUME ReadInv, NEW f \in 1 .. Count(sent), InValue(f), NEW s, s = Said(sent, f),
         NEW j \in 0 .. Len(s), Behind(f, j), j < Len(s), ~Joined(s, j + 1),
         NEW c, c = (IF s[j + 1] \in {"high", "low"} THEN Unpaired ELSE s[j + 1]),
         NEW chars \in Nat, Bytes(c) <= chars,
         Decodes(c, Len(Escaped(s[j + 1])), chars)
  PROVE  ReadInv'
<1>1. /\ s \in Seq(Chars) /\ j + 1 \in 1 .. Len(s) /\ (j + 1) - 1 = j /\ s[j + 1] \in Chars
      /\ Mark(sent, f, j + 1) = mark + Len(Escaped(s[j + 1])) /\ Len(s) \in Nat
  BY ONLY ReadInv, f \in 1 .. Count(sent), InValue(f), s = Said(sent, f),
          j \in 0 .. Len(s), Behind(f, j), j < Len(s), Ahead
<1>2. buf = Decoded(s, j) /\ ~Joined(s, j)
  BY DEF Behind
<1>3. buf \in Seq(Symbols)
  BY <1>1, <1>2, DecodedStep
<1>4. c \in Symbols
  BY <1>1 DEF Chars, Symbols
<1>5. Len(Escaped(s[j + 1])) \in Nat
  BY <1>1, EscapedTyped
<1> DEFINE i == j + 1
<1>6. i \in 1 .. Len(s) /\ i - 1 = j /\ i \in 0 .. Len(s)
  BY <1>1
<1> HIDE DEF i
<1>7. Decoded(s, i) = Append(Decoded(s, i - 1), IF s[i] \in {"high", "low"} THEN Unpaired ELSE s[i])
  <2>1. ~Joined(s, i - 1) /\ ~Joined(s, i)
    BY <1>2, <1>6 DEF i
  <2> QED BY <2>1, <1>1, <1>6, DecodesOne
<1>8. Append(buf, c) = Decoded(s, i) /\ ~Joined(s, i)
      /\ mark + Len(Escaped(s[j + 1])) = Mark(sent, f, i)
  BY <1>1, <1>2, <1>6, <1>7, Zenon DEF i
<1> QED BY <1>3, <1>4, <1>5, <1>6, <1>8, ReadsOn

\* In a field's name there are no escapes, and a quote ends it.
LEMMA InName ==
  ASSUME ReadInv, place = "in key"
  PROVE  \E f \in 1 .. Count(sent) :
           /\ InKey(f) /\ Key(sent, f) # Quote /\ Key(sent, f) # Backslash
           /\ Key(sent, f) \in Symbols /\ Bytes(Key(sent, f)) = 1
           /\ \/ mark = Start(sent, f) + 2 /\ buf = <<>> /\ json[mark] = Key(sent, f)
              \/ mark = Start(sent, f) + 3 /\ buf = <<Key(sent, f)>> /\ json[mark] = Quote
<1>1. PICK f \in 1 .. Count(sent) : InKey(f)
  BY Places
<1>2. Key(sent, f) \in KeyNames /\ json[Start(sent, f) + 2] = Key(sent, f)
      /\ json[Start(sent, f) + 3] = Quote
  BY AtField
<1>3. Key(sent, f) \in Symbols /\ Key(sent, f) # Quote /\ Key(sent, f) # Backslash
      /\ Key(sent, f) # Unpaired /\ Key(sent, f) \notin Named
  BY <1>2, NamesPlain, EscapedPlain DEF Chars
<1>4. Bytes(Key(sent, f)) = 1
  BY <1>3 DEF Bytes, Named
<1> QED BY <1>1, <1>2, <1>3, <1>4 DEF InKey

\* A character that stands for itself preserves it.
LEMMA PlainReads == ASSUME ReadInv, Plain PROVE ReadInv'
<1>1. /\ json[mark] # Quote /\ json[mark] # Backslash /\ Decodes(json[mark], 1, 1)
      /\ place \in {"in key", "in value"}
  BY DEF Plain, InString, Here
<1>2. CASE place = "in key"
  <2>1. PICK f \in 1 .. Count(sent) :
           /\ InKey(f) /\ Key(sent, f) \in Symbols /\ Bytes(Key(sent, f)) = 1
           /\ mark = Start(sent, f) + 2 /\ buf = <<>> /\ json[mark] = Key(sent, f)
    BY <1>1, <1>2, InName
  <2>2. UNCHANGED <<sent, json, parsed, field, got>> /\ place' = place
        /\ buf' = Append(buf, Key(sent, f)) /\ taken' = taken + 1
        /\ mark' = mark + 1
    BY <1>1, <2>1 DEF Decodes, KeepReply, Go
  <2>3. buf \in Seq(Symbols) /\ buf' = <<Key(sent, f)>>
    BY <2>1, <2>2
  <2>4. Size(buf) <= taken /\ taken \in Nat
    BY <2>1 DEF InKey, ReadInv
  <2>5. Size(buf') <= taken' /\ taken' \in Nat
    <3>1. 1 \in Nat /\ Bytes(Key(sent, f)) <= 1
      BY <2>1
    <3> QED BY <2>1, <2>2, <2>3, <2>4, <3>1, SizeGrows
  <2>6. mark' = Start(sent, f) + 3
    BY <2>1, <2>2, AtField, Sums
  <2>7. InKey(f)'
    BY <2>1, <2>2, <2>3, <2>5, <2>6 DEF InKey
  <2> QED BY <1>2, <2>2, <2>5, <2>7 DEF ReadInv, Within
<1>3. CASE place = "in value"
  <2>1. PICK f \in 1 .. Count(sent) : InValue(f)
    BY <1>3, Places
  <2>2. PICK s : s = Said(sent, f)
    OBVIOUS
  <2>3. PICK j \in 0 .. Len(s) : Behind(f, j)
    BY <2>1, <2>2 DEF InValue, Behind
  <2>4. /\ s \in Seq(Chars) /\ mark \in Nat /\ j < Len(s) /\ s[j + 1] \in Chars
        /\ TokensAt(json, mark, s[j + 1])
    BY <1>1, <2>1, <2>2, <2>3, Ahead
  <2>5. /\ s[j + 1] = json[mark] /\ Len(Escaped(s[j + 1])) = 1 /\ s[j + 1] \notin Named
        /\ PlainText(s[j + 1])
    <3>1. PICK c \in Chars : c = s[j + 1] /\ TokensAt(json, mark, c)
      BY <2>4, Zenon
    <3>2. \/ c = json[mark] /\ Len(Escaped(c)) = 1 /\ c \notin Named /\ PlainText(c)
          \/ json[mark] = Backslash
      BY <2>4, <3>1, Tokens
    <3> QED BY <1>1, <3>1, <3>2
  <2>6. ~Joined(s, j + 1) /\ s[j + 1] \notin {"high", "low"}
    BY <2>5 DEF Joined, Named
  <2>7. Bytes(json[mark]) <= 1
    <3>1. json[mark] # Unpaired
      BY <2>5, EscapedPlain
    <3> QED BY <2>5, <3>1 DEF Bytes, Named
  <2>8. 1 \in Nat
    OBVIOUS
  <2>9. json[mark] = IF s[j + 1] \in {"high", "low"} THEN Unpaired ELSE s[j + 1]
    BY <2>5, <2>6
  <2>10. Decodes(json[mark], Len(Escaped(s[j + 1])), 1)
    BY <1>1, <2>5
  <2> QED BY ONLY ReadInv, <2>1, <2>2, <2>3, <2>4, <2>6, <2>7, <2>8, <2>9, <2>10, ReadsOne
<1> QED BY <1>1, <1>2, <1>3

\* A backslash begins the escape of a character of a text field.
AtEscape(f, s, j, c) ==
  /\ InValue(f) /\ s = Said(sent, f) /\ Behind(f, j) /\ j < Len(s) /\ c = s[j + 1]

\* A backslash in a string is the first token of an escape.
LEMMA Escape ==
  ASSUME ReadInv, InString, json[mark] = Backslash
  PROVE  \E f \in 1 .. Count(sent) : \E s :
           \E j \in 0 .. Len(s), c \in Chars : AtEscape(f, s, j, c)
<1>1. place # "in key"
  BY InName DEF Quote, Backslash
<1>2. PICK f \in 1 .. Count(sent) : InValue(f)
  BY <1>1, Places DEF InString
<1>3. PICK s : s = Said(sent, f)
  OBVIOUS
<1>4. PICK j \in 0 .. Len(s) : Behind(f, j)
  BY <1>2, <1>3 DEF InValue, Behind
<1>5. j < Len(s) /\ s[j + 1] \in Chars
  BY <1>2, <1>3, <1>4, Ahead DEF Quote, Backslash
<1> QED BY <1>2, <1>3, <1>4, <1>5, Zenon DEF AtEscape

\* The escape is complete, and the text goes on after it.
LEMMA EscapeShape ==
  ASSUME ReadInv, NEW f \in 1 .. Count(sent), NEW s, NEW j \in 0 .. Len(s), NEW c \in Chars,
         AtEscape(f, s, j, c)
  PROVE  /\ s \in Seq(Chars) /\ Len(s) \in Nat /\ mark \in Nat /\ TokensAt(json, mark, c)
         /\ Len(json) \in Nat
         /\ j + 1 \in 1 .. Len(s) /\ (j + 1) - 1 = j
         /\ Mark(sent, f, j + 1) = mark + Len(Escaped(c)) 
         /\ mark + Len(Escaped(c)) < Len(json)
<1>1. InValue(f) /\ s = Said(sent, f) /\ Behind(f, j) /\ j < Len(s) /\ c = s[j + 1]
  BY DEF AtEscape
<1>2. Len(json) \in Nat
  BY AtField
<1> QED BY ONLY ReadInv, f \in 1 .. Count(sent), j \in 0 .. Len(s), <1>1, <1>2, Ahead

\* Inside the text the reader peeks at its tokens.
LEMMA PeekIn ==
  ASSUME NEW n \in Nat, NEW k \in Nat, mark \in Nat, Len(json) \in Nat,
         mark + n < Len(json), k <= n
  PROVE  Peek(k) = json[mark + k]
<1>1. mark + k <= Len(json)
  <2> DEFINE l == Len(json)
  <2>1. l \in Nat /\ mark + n < l
    OBVIOUS
  <2> HIDE DEF l
  <2>2. mark + k <= l
    BY <2>1
  <2> QED BY <2>2 DEF l
<1> QED BY <1>1, Zenon DEF Peek

\* An escape that is no half of a pair, read for its character.
LEMMA ReadsEscape ==
  ASSUME ReadInv, NEW f \in 1 .. Count(sent), NEW s, NEW j \in 0 .. Len(s), NEW c \in Chars,
         AtEscape(f, s, j, c), c \notin {"high", "low"}, NEW n \in Nat, n = Len(Escaped(c)),
         NEW chars \in Nat, Bytes(c) <= chars, Decodes(c, n, chars)
  PROVE  ReadInv'
<1>1. InValue(f) /\ s = Said(sent, f) /\ Behind(f, j) /\ j < Len(s) /\ c = s[j + 1]
  BY DEF AtEscape
<1>2. ~Joined(s, j + 1)
  BY <1>1 DEF Joined
<1>3. c = IF s[j + 1] \in {"high", "low"} THEN Unpaired ELSE s[j + 1]
  BY <1>1
<1>4. Decodes(c, Len(Escaped(s[j + 1])), chars)
  BY <1>1
<1> QED BY ONLY ReadInv, f \in 1 .. Count(sent), j \in 0 .. Len(s), chars \in Nat,
        Bytes(c) <= chars, <1>1, <1>2, <1>3, <1>4, ReadsOne

\* A quote, a backslash or a line break preserves it.
LEMMA ShortEscapeReads == ASSUME ReadInv, ShortEscape PROVE ReadInv'
<1>1. /\ InString /\ json[mark] = Backslash
      /\ \/ Peek(1) = Quote /\ Decodes("quote", 2, 2)
         \/ Peek(1) = Backslash /\ Decodes("backslash", 2, 2)
         \/ Peek(1) = "n" /\ Decodes("newline", 2, 2)
  BY DEF ShortEscape, Here
<1>0. PICK f \in 1 .. Count(sent) : \E s :
        \E j \in 0 .. Len(s), c \in Chars : AtEscape(f, s, j, c)
  BY <1>1, Escape
<1>2. PICK s : \E j \in 0 .. Len(s), c \in Chars : AtEscape(f, s, j, c)
  BY <1>0
<1>3. PICK j \in 0 .. Len(s), c \in Chars : AtEscape(f, s, j, c)
  BY <1>2
<1>4. /\ mark \in Nat /\ TokensAt(json, mark, c) /\ Len(json) \in Nat
      /\ mark + Len(Escaped(c)) < Len(json)
  BY <1>3, EscapeShape
<1>5. Len(Escaped(c)) \in {1, 2, 3, 6}
  BY EscapedTyped
<1>6. Peek(1) = json[mark + 1]
  <2> DEFINE n == Len(Escaped(c))
  <2>1. n \in Nat /\ 1 \in Nat /\ 1 <= n
    <3> HIDE DEF n
    <3>1. n \in {1, 2, 3, 6} => n \in Nat /\ 1 \in Nat /\ 1 <= n
      OBVIOUS
    <3> QED BY <3>1, <1>5 DEF n
  <2>2. mark + n < Len(json)
    BY <1>4
  <2> HIDE DEF n
  <2> QED BY <2>1, <2>2, <1>4, PeekIn
<1>7. /\ Len(Escaped(c)) = 2 /\ Decodes(c, 2, 2)
      /\ c \in {"quote", "backslash", "newline"}
  <2>1. \/ c = "quote" /\ Len(Escaped(c)) = 2 /\ json[mark + 1] = Quote
        \/ c = "backslash" /\ Len(Escaped(c)) = 2 /\ json[mark + 1] = Backslash
        \/ c = "newline" /\ Len(Escaped(c)) = 2 /\ json[mark + 1] = "n"
        \/ json[mark + 1] = "u"
    BY ONLY <1>1, <1>4, c \in Chars, Tokens
  <2>2. Quote # Backslash /\ Quote # "n" /\ Backslash # "n" /\ Quote # "u" /\ Backslash # "u"
        /\ "n" # "u"
    BY DEF Quote, Backslash
  <2> QED BY <2>1, <2>2, <1>1, <1>6, Zenon
<1>8. c \notin {"high", "low"} /\ Bytes(c) <= 2 /\ 2 \in Nat
  BY <1>7 DEF Bytes, Unpaired
<1> QED BY <1>3, <1>7, <1>8, ReadsEscape

\* The halves of a pair are read as one, wherever the low one follows.
LEMMA ReadsPair ==
  ASSUME ReadInv, NEW f \in 1 .. Count(sent), NEW s, NEW j \in 0 .. Len(s), NEW c \in Chars,
         AtEscape(f, s, j, c), Joined(s, j + 1), Decodes("astral", 6, 12)
  PROVE  ReadInv'
<1>1. InValue(f) /\ s = Said(sent, f) /\ Behind(f, j) /\ j < Len(s) /\ c = s[j + 1]
      /\ buf = Decoded(s, j) /\ ~Joined(s, j)
  BY DEF AtEscape, Behind
<1>2. /\ s \in Seq(Chars) /\ Len(s) \in Nat /\ mark \in Nat
      /\ j + 1 \in 1 .. Len(s) /\ (j + 1) - 1 = j
      /\ Mark(sent, f, j + 1) = mark + Len(Escaped(c))
  BY EscapeShape
<1> DEFINE i == j + 1
<1>3. i \in 1 .. Len(s) /\ i - 1 = j /\ ~Joined(s, i - 1) /\ Joined(s, i)
  BY <1>1, <1>2
<1>4. s[i] = "high" /\ s[i + 1] = "low" /\ i < Len(s) /\ i \in 0 .. Len(s) - 1
  BY <1>2, <1>3 DEF Joined
<1>5. Len(Escaped(s[i])) = 3 /\ Len(Escaped(s[i + 1])) = 3
  <2>1. Escaped("high") = <<Backslash, "u", High>> /\ Escaped("low") = <<Backslash, "u", Low>>
    BY EscapedNamed
  <2>2. \A a, b, d : Len(<<a, b, d>>) = 3
    OBVIOUS
  <2> QED BY <2>1, <2>2, <1>4, Zenon
<1>6. Mark(sent, f, i + 1) = mark + 6
  <2>1. sent \in Replies /\ FieldIn(sent, json, f) /\ IsText(sent, f)
    BY <1>1, AtField DEF InValue
  <2>2. Mark(sent, f, i + 1) = Mark(sent, f, i) + Len(Escaped(s[i + 1]))
    BY ONLY <2>1, <1>1, <1>4, f \in 1 .. Count(sent), TextIn
  <2>3. Mark(sent, f, i) = mark + 3
    BY <1>1, <1>2, <1>5
  <2>4. (mark + 3) + 3 = mark + 6
    BY <1>2
  <2> QED BY <2>2, <2>3, <2>4, <1>5
<1> HIDE DEF i
<1> DEFINE e == i + 1
<1>7. e \in 1 .. Len(s) /\ ~Joined(s, e) /\ Decoded(s, e) = Append(Decoded(s, i - 1), "astral")
  BY <1>2, <1>3, DecodesPair
<1>8. e \in 0 .. Len(s) /\ mark + 6 = Mark(sent, f, e) /\ Append(buf, "astral") = Decoded(s, e)
  BY <1>1, <1>2, <1>3, <1>6, <1>7
<1>9. "astral" \in Symbols /\ Bytes("astral") <= 12 /\ buf \in Seq(Symbols)
      /\ 6 \in Nat /\ 12 \in Nat
  <2>1. buf \in Seq(Symbols)
    BY <1>1, <1>2, DecodedStep
  <2>2. "astral" \in Symbols
    BY DEF Symbols, Named
  <2>3. Bytes("astral") <= 12 /\ 6 \in Nat /\ 12 \in Nat
    BY DEF Bytes
  <2> QED BY <2>1, <2>2, <2>3, Zenon
<1> HIDE DEF e
<1> QED BY ONLY ReadInv, f \in 1 .. Count(sent), <1>1, <1>7, <1>8, <1>9,
        Decodes("astral", 6, 12), ReadsOn

\* A half read on its own.
LEMMA ReadsHalf ==
  ASSUME ReadInv, NEW f \in 1 .. Count(sent), NEW s, NEW j \in 0 .. Len(s), NEW c \in Chars,
         AtEscape(f, s, j, c), c \in {"high", "low"}, ~Joined(s, j + 1),
         Decodes(Unpaired, 3, 6)
  PROVE  ReadInv'
<1>1. InValue(f) /\ s = Said(sent, f) /\ Behind(f, j) /\ j < Len(s) /\ c = s[j + 1]
  BY DEF AtEscape
<1>2. Len(Escaped(c)) = 3
  <2>1. Escaped("high") = <<Backslash, "u", High>> /\ Escaped("low") = <<Backslash, "u", Low>>
    BY EscapedNamed
  <2>2. \A a, b, d : Len(<<a, b, d>>) = 3
    OBVIOUS
  <2> QED BY <2>1, <2>2, Zenon
<1>3. Unpaired = IF s[j + 1] \in {"high", "low"} THEN Unpaired ELSE s[j + 1]
  BY <1>1
<1>4. Decodes(Unpaired, Len(Escaped(s[j + 1])), 6)
  BY <1>1, <1>2
<1>5. Bytes(Unpaired) <= 6 /\ 6 \in Nat
  BY DEF Bytes
<1> QED BY ONLY ReadInv, f \in 1 .. Count(sent), j \in 0 .. Len(s), ~Joined(s, j + 1),
        <1>1, <1>3, <1>4, <1>5, ReadsOne

\* The reader finds a low half after a high one where the text has one.
LEMMA PairSeen ==
  ASSUME ReadInv, NEW f \in 1 .. Count(sent), NEW s, NEW j \in 0 .. Len(s), NEW c \in Chars,
         AtEscape(f, s, j, c), c = "high"
  PROVE  Joined(s, j + 1)
           <=> Peek(3) = Backslash /\ Peek(4) = "u" /\ Peek(5) = Low
<1>1. InValue(f) /\ s = Said(sent, f) /\ Behind(f, j) /\ j < Len(s) /\ c = s[j + 1]
  BY DEF AtEscape
<1>2. /\ s \in Seq(Chars) /\ Len(s) \in Nat /\ mark \in Nat /\ Len(json) \in Nat
      /\ j + 1 \in 1 .. Len(s) /\ (j + 1) - 1 = j
      /\ Mark(sent, f, j + 1) = mark + Len(Escaped(c)) /\ mark + Len(Escaped(c)) < Len(json)
  BY EscapeShape
<1>3. Len(Escaped(c)) = 3
  <2>1. Escaped("high") = <<Backslash, "u", High>>
    BY EscapedNamed
  <2>2. \A a, b, d : Len(<<a, b, d>>) = 3
    OBVIOUS
  <2> QED BY <2>1, <2>2, Zenon
<1>4. /\ sent \in Replies /\ FieldIn(sent, json, f) /\ IsText(sent, f)
      /\ End(sent, f) < Len(json) /\ End(sent, f) \in Nat
  BY <1>1, AtField DEF InValue
<1> DEFINE i == j + 1
<1>5. i \in 1 .. Len(s) /\ i \in 0 .. Len(s) /\ Mark(sent, f, i) = mark + 3 /\ s[i] = "high"
      /\ i \in Nat /\ i >= 1 /\ (i < Len(s) => i \in 0 .. Len(s) - 1) /\ (i = Len(s) \/ i < Len(s))
  <2>1. \A n \in Nat : \A k \in 1 .. n :
          /\ k \in 0 .. n /\ k \in Nat /\ k >= 1 /\ (k < n => k \in 0 .. n - 1)
          /\ (k = n \/ k < n)
    OBVIOUS
  <2> QED BY <2>1, <1>1, <1>2, <1>3, Zenon
<1>6. Peek(3) = json[mark + 3]
  <2>1. 3 \in Nat /\ 3 <= 3 /\ mark + 3 < Len(json)
    <3>1. 3 \in Nat /\ 3 <= 3
      OBVIOUS
    <3> QED BY <3>1, <1>2, <1>3, Zenon
  <2> QED BY <2>1, <1>2, PeekIn
<1> HIDE DEF i
<1>7. CASE i = Len(s)
  <2>1. json[Mark(sent, f, Len(s))] = Quote
    BY ONLY <1>1, <1>4, f \in 1 .. Count(sent), TextIn
  <2>2. Peek(3) # Backslash
    BY <2>1, <1>5, <1>6, <1>7 DEF Quote, Backslash
  <2>3. ~Joined(s, i)
    BY <1>2, <1>7 DEF Joined
  <2> QED BY <2>2, <2>3 DEF i
<1>8. CASE i < Len(s)
  <2>1. PICK d : d = s[i + 1]
    OBVIOUS
  <2>2. /\ s[i + 1] \in Chars
        /\ Mark(sent, f, i + 1) = Mark(sent, f, i) + Len(Escaped(s[i + 1]))
        /\ TokensAt(json, Mark(sent, f, i), s[i + 1])
    BY ONLY <1>1, <1>4, <1>5, <1>8, f \in 1 .. Count(sent), TextIn
  <2> DEFINE m == mark + 3
  <2>3. d \in Chars /\ TokensAt(json, m, d) /\ m \in Nat /\ m = Mark(sent, f, i)
    BY <1>2, <1>5, <2>1, <2>2
  <2>4. m + 1 = mark + 4 /\ m + 2 = mark + 5 /\ mark + 3 = m
    BY <1>2
  <2> HIDE DEF m
  <2>5. Joined(s, i) <=> d = "low"
    BY <1>5, <1>8, <2>1 DEF Joined
  <2>6. d = "low" => Len(Escaped(d)) = 3 /\ json[m] = Backslash /\ json[m + 1] = "u"
                     /\ json[m + 2] = Low
    BY <2>3, Tokens DEF Named
  <2>7. CASE d = "low"
    <3>1. m + 3 < Len(json) /\ 3 \in Nat /\ Len(json) \in Nat
      <4>1. Mark(sent, f, i + 1) < End(sent, f)
        <5>1. i + 1 \in 0 .. Len(s)
          BY <1>2, <1>5, <1>8
        <5> QED BY ONLY <1>1, <1>4, <5>1, f \in 1 .. Count(sent), TextIn
      <4>2. Mark(sent, f, i + 1) = m + 3
        BY <2>1, <2>2, <2>3, <2>6, <2>7
      <4> QED BY <1>2, <1>4, <2>3, <4>1, <4>2
    <3>2. mark + 6 < Len(json) /\ 6 \in Nat /\ 3 <= 6 /\ 4 <= 6 /\ 5 <= 6
      <4>1. m + 3 = mark + 6
        BY <1>2 DEF m
      <4> QED BY <3>1, <4>1
    <3>3. Peek(4) = json[mark + 4] /\ Peek(5) = json[mark + 5]
      BY <3>2, <1>2, PeekIn
    <3> QED BY <1>6, <2>4, <2>5, <2>6, <2>7, <3>3, Zenon DEF i
  <2>8. CASE d # "low"
    <3> SUFFICES ASSUME Peek(3) = Backslash, Peek(4) = "u", Peek(5) = Low PROVE FALSE
      BY <2>5, <2>8, Zenon DEF i
    <3>1. json[m] = Backslash
      BY <1>6, <2>4
    <3>2. /\ Peek(4) = IF mark + 4 <= Len(json) THEN json[mark + 4] ELSE "end"
          /\ Peek(5) = IF mark + 5 <= Len(json) THEN json[mark + 5] ELSE "end"
      BY Zenon DEF Peek
    <3>3. json[m + 1] = "u" /\ json[m + 2] = Low
      BY <2>4, <3>2 DEF Low
    <3>4. \/ json[m] # Backslash
          \/ json[m + 1] \in {Quote, Backslash, "n"}
          \/ json[m + 1] = "u" /\ json[m + 2] \in {"0000", "00E9", High}
      BY <2>3, <2>8, Tokens
    <3> QED BY <3>1, <3>3, <3>4 DEF Quote, Backslash, Low, High
  <2> QED BY <2>7, <2>8
<1> QED BY <1>5, <1>7, <1>8

\* A \u escape, or two that make a pair, preserves it.
LEMMA UnicodeEscapeReads == ASSUME ReadInv, UnicodeEscape PROVE ReadInv'
<1> DEFINE pair == Peek(2) = High /\ Peek(3) = Backslash /\ Peek(4) = "u" /\ Peek(5) = Low
<1>1. /\ InString /\ json[mark] = Backslash /\ Peek(1) = "u"
      /\ \/ pair /\ Decodes("astral", 6, 12)
         \/ ~pair /\ Peek(2) \in {High, Low} /\ Decodes(Unpaired, 3, 6)
         \/ Peek(2) = "0000" /\ Decodes("nul", 3, 6)
         \/ Peek(2) = "00E9" /\ Decodes("accent", 3, 6)
  BY Zenon DEF UnicodeEscape, Here
<1> HIDE DEF pair
<1>0. PICK f \in 1 .. Count(sent) : \E s :
        \E j \in 0 .. Len(s), c \in Chars : AtEscape(f, s, j, c)
  BY <1>1, Escape
<1>2. PICK s : \E j \in 0 .. Len(s), c \in Chars : AtEscape(f, s, j, c)
  BY <1>0
<1>3. PICK j \in 0 .. Len(s), c \in Chars : AtEscape(f, s, j, c)
  BY <1>2
<1>4. /\ mark \in Nat /\ TokensAt(json, mark, c) /\ Len(json) \in Nat
      /\ mark + Len(Escaped(c)) < Len(json)
  BY <1>3, EscapeShape
<1>5. \/ c \in {"quote", "backslash", "newline"} /\ Len(Escaped(c)) = 2
         /\ json[mark + 1] \in {Quote, Backslash, "n"}
      \/ c = "nul" /\ Len(Escaped(c)) = 3 /\ json[mark + 2] = "0000"
      \/ c = "accent" /\ Len(Escaped(c)) = 3 /\ json[mark + 2] = "00E9"
      \/ c = "high" /\ Len(Escaped(c)) = 3 /\ json[mark + 2] = High
      \/ c = "low" /\ Len(Escaped(c)) = 3 /\ json[mark + 2] = Low
      \/ c = "astral" /\ Len(Escaped(c)) = 6 /\ json[mark + 2] = High
         /\ json[mark + 3] = Backslash /\ json[mark + 4] = "u" /\ json[mark + 5] = Low
  BY ONLY <1>1, <1>4, c \in Chars, Tokens
<1>6. ASSUME NEW n \in Nat, n = Len(Escaped(c)), NEW k \in Nat, k <= n
      PROVE  Peek(k) = json[mark + k]
  BY <1>4, <1>6, PeekIn
<1>7. c \notin {"quote", "backslash", "newline"}
  <2> SUFFICES ASSUME c \in {"quote", "backslash", "newline"} PROVE FALSE
    OBVIOUS
  <2>1. Peek(1) = json[mark + 1]
    <3>1. 2 \in Nat /\ 1 \in Nat /\ 1 <= 2
      OBVIOUS
    <3> QED BY <1>5, <1>6, <3>1
  <2> QED BY <1>1, <1>5, <2>1 DEF Quote, Backslash
<1>8. Peek(2) = json[mark + 2]
  <2>1. 3 \in Nat /\ 6 \in Nat /\ 2 \in Nat /\ 2 <= 3 /\ 2 <= 6
    OBVIOUS
  <2> QED BY <1>5, <1>6, <1>7, <2>1
<1>9. High # Low /\ High # "0000" /\ High # "00E9" /\ Low # "0000" /\ Low # "00E9"
      /\ "0000" # "00E9"
  BY DEF High, Low
<1>10. CASE c = "nul"
  <2>1. Decodes("nul", 3, 6)
    BY <1>1, <1>5, <1>8, <1>9, <1>10 DEF pair
  <2>2. c \notin {"high", "low"} /\ Bytes(c) <= 6 /\ 3 \in Nat /\ 6 \in Nat /\ 3 = Len(Escaped(c))
    BY <1>5, <1>10 DEF Bytes, Unpaired
  <2> QED BY <1>3, <1>10, <2>1, <2>2, ReadsEscape
<1>11. CASE c = "accent"
  <2>1. Decodes("accent", 3, 6)
    BY <1>1, <1>5, <1>8, <1>9, <1>11 DEF pair
  <2>2. c \notin {"high", "low"} /\ Bytes(c) <= 6 /\ 3 \in Nat /\ 6 \in Nat /\ 3 = Len(Escaped(c))
    BY <1>5, <1>11 DEF Bytes, Unpaired
  <2> QED BY <1>3, <1>11, <2>1, <2>2, ReadsEscape
<1>12. CASE c = "astral"
  <2>1. pair
    <3>1. 6 \in Nat /\ 3 \in Nat /\ 4 \in Nat /\ 5 \in Nat /\ 3 <= 6 /\ 4 <= 6 /\ 5 <= 6
      OBVIOUS
    <3>2. Peek(3) = json[mark + 3] /\ Peek(4) = json[mark + 4] /\ Peek(5) = json[mark + 5]
      BY <1>5, <1>6, <1>12, <3>1
    <3> QED BY <1>5, <1>8, <1>12, <3>2 DEF pair
  <2>2. Decodes("astral", 6, 12)
    BY <1>1, <1>5, <1>8, <1>9, <1>12, <2>1
  <2>3. c \notin {"high", "low"} /\ Bytes(c) <= 12 /\ 6 \in Nat /\ 12 \in Nat /\ 6 = Len(Escaped(c))
    BY <1>5, <1>12 DEF Bytes
  <2> QED BY <1>3, <1>12, <2>2, <2>3, ReadsEscape
<1>13. CASE c = "high"
  <2>1. Joined(s, j + 1) <=> pair
    BY <1>3, <1>5, <1>8, <1>13, PairSeen DEF pair
  <2>2. CASE Joined(s, j + 1)
    <3>1. Decodes("astral", 6, 12)
      BY <1>1, <1>5, <1>8, <1>9, <1>13, <2>1, <2>2
    <3> QED BY <1>3, <2>2, <3>1, ReadsPair
  <2>3. CASE ~Joined(s, j + 1)
    <3>1. Decodes(Unpaired, 3, 6)
      BY <1>1, <1>5, <1>8, <1>9, <1>13, <2>1, <2>3
    <3> QED BY <1>3, <1>13, <2>3, <3>1, ReadsHalf
  <2> QED BY <2>2, <2>3
<1>14. CASE c = "low"
  <2>1. Decodes(Unpaired, 3, 6)
    BY <1>1, <1>5, <1>8, <1>9, <1>14 DEF pair
  <2>2. ~Joined(s, j + 1)
    BY <1>3, <1>14 DEF AtEscape, Joined
  <2> QED BY <1>3, <1>14, <2>1, <2>2, ReadsHalf
<1> QED BY <1>5, <1>7, <1>10, <1>11, <1>12, <1>13, <1>14

\* Storing the value of the next field.
LEMMA StoresNext ==
  ASSUME NEW r \in Replies, NEW f \in 1 .. Count(r), NEW g, NEW h, NEW v, v = Value(r, f),
         Stored(r, g, f - 1),
         h = [k \in DOMAIN g \cup {Key(r, f)} |-> IF k = Key(r, f) THEN v ELSE g[k]]
  PROVE  Stored(r, h, f)
<1>1. Count(r) \in Nat /\ f \in Nat
  <2>1. Count(r) \in Nat
    BY FieldShape, Counts
  <2> QED BY <2>1
<1>2. ASSUME NEW i \in 1 .. f PROVE i \in 1 .. Count(r) /\ (i \in 1 .. f - 1 \/ i = f)
  BY <1>1
<1>3. \A i \in 1 .. f - 1 : i \in 1 .. f /\ i # f
  BY <1>1
<1>4. f \in 1 .. f
  BY <1>1
<1>5. DOMAIN h = {Key(r, i) : i \in 1 .. f}
  <2>1. DOMAIN h = {Key(r, i) : i \in 1 .. f - 1} \cup {Key(r, f)}
    BY DEF Stored
  <2> QED BY <2>1, <1>2, <1>3, <1>4
<1>6. ASSUME NEW i \in 1 .. f PROVE h[Key(r, i)] = Value(r, i)
  <2>1. Key(r, i) \in DOMAIN h
    BY <1>5
  <2>2. CASE i = f
    BY <2>1, <2>2
  <2>3. CASE i \in 1 .. f - 1
    <3>1. Key(r, i) # Key(r, f)
      BY <1>2, <1>3, <2>3, FieldShape
    <3>2. g[Key(r, i)] = Value(r, i)
      BY <2>3 DEF Stored
    <3> QED BY <2>1, <3>1, <3>2
  <2> QED BY <1>2, <2>2, <2>3
<1> QED BY <1>5, <1>6 DEF Stored

\* The quote that ends a string preserves it.
LEMMA EndStringReads == ASSUME ReadInv, EndString PROVE ReadInv'
<1>1. /\ InString /\ json[mark] = Quote /\ UNCHANGED <<sent, json, parsed>>
      /\ buf' = <<>> /\ taken' = 0
      /\ IF place = "in key"
         THEN field' = buf[1] /\ Go(1, "colon") /\ UNCHANGED got
         ELSE Stores(JsonValue("string", buf)) /\ Go(1, "sep") /\ UNCHANGED field
  BY DEF EndString, KeepReply, Here
<1>r. sent' \in Replies /\ json' = Dumps(Fields(sent')) /\ taken' \in Nat
      /\ (place # "done" => parsed' = Nothing)
  BY <1>1 DEF ReadInv
<1>2. CASE place = "in key"
  <2>1. PICK f \in 1 .. Count(sent) :
          InKey(f) /\ mark = Start(sent, f) + 3 /\ buf = <<Key(sent, f)>>
    BY <1>1, <1>2, InName
  <2>2. field' = Key(sent, f) /\ mark' = Start(sent, f) + 4 /\ place' = "colon" /\ got' = got
    <3>1. <<Key(sent, f)>>[1] = Key(sent, f)
      OBVIOUS
    <3> QED BY <1>1, <1>2, <2>1, <3>1, AtField, Sums DEF Go
  <2>3. AtColon(f)'
    BY <1>1, <2>1, <2>2 DEF AtColon, InKey
  <2> QED BY <1>1, <1>r, <1>2, <2>2, <2>3 DEF ReadInv, Within
<1>3. CASE place = "in value"
  <2>1. PICK f \in 1 .. Count(sent) : InValue(f)
    BY <1>3, Places
  <2>2. PICK s : s = Said(sent, f)
    OBVIOUS
  <2>3. PICK j \in 0 .. Len(s) : Behind(f, j)
    BY <2>1, <2>2 DEF InValue, Behind
  <2>4. s \in Seq(Chars) /\ j = Len(s) /\ mark + 1 = End(sent, f)
    <3>1. /\ s \in Seq(Chars) /\ mark \in Nat
          /\ j = Len(s) => mark + 1 = End(sent, f)
          /\ j < Len(s) => s[j + 1] \in Chars /\ TokensAt(json, mark, s[j + 1])
          /\ j < Len(s) \/ j = Len(s)
      BY <2>1, <2>2, <2>3, Ahead
    <3>2. ~(j < Len(s))
      <4> SUFFICES ASSUME j < Len(s) PROVE FALSE
        OBVIOUS
      <4>1. PICK c \in Chars : TokensAt(json, mark, c)
        BY <3>1, Zenon
      <4>2. json[mark] = Backslash \/ (json[mark] = c /\ c # Quote)
        BY <3>1, <4>1, Tokens
      <4> QED BY <1>1, <4>2 DEF Quote, Backslash
    <3> QED BY <3>1, <3>2
  <2>5. buf = FlattenSeq(Units(s))
    BY <2>3, <2>4, <2>2, DecodedStep DEF Behind
  <2>6. JsonValue("string", buf) = Value(sent, f)
    BY <2>1, <2>2, <2>5 DEF Value, InValue
  <2>7. /\ got' = [k \in DOMAIN got \cup {field} |->
                     IF k = field THEN JsonValue("string", buf) ELSE got[k]]
        /\ mark' = End(sent, f) /\ place' = "sep" /\ field = Key(sent, f)
        /\ Stored(sent, got, f - 1) /\ sent \in Replies
    BY <1>1, <1>3, <2>1, <2>4 DEF Stores, Go, InValue, ReadInv
  <2>8. Stored(sent, got', f)
    BY <2>6, <2>7, StoresNext
  <2>9. AtSep(f)'
    BY <1>1, <2>7, <2>8 DEF AtSep
  <2> QED BY <1>1, <1>r, <1>3, <2>7, <2>9 DEF ReadInv, Within
<1> QED BY <1>1, <1>2, <1>3 DEF InString

\* true, false or a number preserves it.
LEMMA LiteralReads == ASSUME ReadInv, Literal PROVE ReadInv'
<1>1. /\ place = "value" /\ json[mark] \notin {Quote, " "}
      /\ got' = [k \in DOMAIN got \cup {field} |-> IF k = field THEN
           JsonValue(IF json[mark] \in {"true", "false"} THEN "bool" ELSE "number", <<json[mark]>>)
           ELSE got[k]]
      /\ mark' = mark + 1 /\ place' = "sep"
      /\ UNCHANGED <<sent, json, parsed, field, buf, taken>>
  BY DEF Literal, Stores, Here, Go, KeepReply, decoding
<1>2. PICK f \in 1 .. Count(sent) : AtValue(f)
  BY <1>1, Places
<1>3. mark = Start(sent, f) + 6 /\ sent \in Replies
  BY <1>1, <1>2, AtField DEF AtValue
<1>4. ~IsText(sent, f) /\ Val(sent, f) = <<json[mark]>> /\ End(sent, f) = Start(sent, f) + 7
  BY <1>1, <1>3, ValueToken
<1>5. JsonValue(IF json[mark] \in {"true", "false"} THEN "bool" ELSE "number", <<json[mark]>>)
        = Value(sent, f)
  <2>1. <<json[mark]>>[1] = json[mark]
    OBVIOUS
  <2> QED BY <1>4, <2>1, Zenon DEF Value
<1>6. Stored(sent, got', f)
  <2>1. field = Key(sent, f) /\ Stored(sent, got, f - 1)
    BY <1>2 DEF AtValue
  <2>2. PICK v : v = Value(sent, f)
    OBVIOUS
  <2>3. got' = [k \in DOMAIN got \cup {Key(sent, f)} |-> IF k = Key(sent, f) THEN v ELSE got[k]]
    BY <1>1, <1>5, <2>1, <2>2, Zenon
  <2> QED BY <1>3, <2>1, <2>2, <2>3, StoresNext
<1>7. mark' = End(sent, f)
  BY <1>1, <1>3, <1>4, AtField, Sums
<1>8. AtSep(f)'
  BY <1>1, <1>6, <1>7 DEF AtSep
<1> QED BY <1>1, <1>8 DEF ReadInv, Within

\* Short of the end of the object the reader is short of the end of the text.
LEMMA Short ==
  ASSUME ReadInv, place \notin {"object", "done"}
  PROVE  mark \in 1 .. Len(json) /\ mark # Len(json)
<1> DEFINE l == Len(json)
<1>l. l \in Nat /\ 1 \in 1 .. Count(sent) /\ Start(sent, 1) = 1
  BY Around, FirstField
<1>1. CASE AtOpen \/ AtFirst
  <2>1. End(sent, 1) < l /\ Start(sent, 1) + 6 < End(sent, 1) /\ End(sent, 1) \in Nat
    BY <1>l, AtField
  <2>2. mark = 1 \/ mark = 2
    BY <1>1, <1>l DEF AtOpen, AtFirst
  <2> HIDE DEF l
  <2>3. mark \in 1 .. l /\ mark # l
    BY <2>1, <2>2, <1>l
  <2> QED BY <2>3 DEF l
<1>2. ASSUME NEW f \in 1 .. Count(sent), Within(f) PROVE mark \in 1 .. l /\ mark # l
  <2> DEFINE a == Start(sent, f)
             e == End(sent, f)
  <2>1. a \in Nat /\ a >= 1 /\ e \in Nat /\ a + 6 < e /\ e < l
    BY AtField
  <2>2. \/ mark \in {a, a + 1, a + 2, a + 3, a + 4, a + 5, a + 6, e}
        \/ mark \in Nat /\ mark >= 1 /\ mark < e
    <3>1. CASE InValue(f)
      <4>1. PICK s : s = Said(sent, f)
        OBVIOUS
      <4>2. PICK j \in 0 .. Len(s) : mark = Mark(sent, f, j)
        BY <3>1, <4>1 DEF InValue
      <4>3. sent \in Replies /\ FieldIn(sent, json, f) /\ IsText(sent, f)
        BY <3>1, AtField DEF InValue
      <4>4. Mark(sent, f, j) \in Nat /\ Mark(sent, f, j) < End(sent, f) /\ Mark(sent, f, j) >= 1
        BY ONLY <4>1, <4>3, j \in 0 .. Len(s), f \in 1 .. Count(sent), TextIn
      <4> QED BY <4>2, <4>4
    <3>2. CASE ~InValue(f)
      BY <1>2, <3>2 DEF Within, AtKey, InKey, AtColon, AtValue, AtSep
    <3> QED BY <3>1, <3>2
  <2> HIDE DEF a, e, l
  <2> QED BY <2>1, <2>2, <1>l
<1>3. \E f \in 1 .. Count(sent) : Within(f) \/ AtOpen \/ AtFirst
  BY <1>l DEF ReadInv, AtObject, AtDone
<1> QED BY <1>1, <1>2, <1>3

\* A text that ends early preserves it.
LEMMA RunsOutReads == ASSUME ReadInv, RunsOut PROVE ReadInv'
<1>1. /\ UNCHANGED <<sent, json, field, buf, taken, got>> /\ place' = "done"
      /\ mark' = mark + 0 /\ parsed' = Malformed
      /\ place \notin {"object", "done"}
  BY DEF RunsOut, Go, decoding
<1>2. mark \in 1 .. Len(json) /\ mark # Len(json)
  BY <1>1, Short
<1>3. mark' = mark
  <2>1. \A n : \A k \in 1 .. n : k + 0 = k
    OBVIOUS
  <2> QED BY <1>1, <1>2, <2>1, Zenon
<1>4. AtDone'
  BY <1>1, <1>2, <1>3 DEF AtDone
<1> QED BY <1>1, <1>4 DEF ReadInv

-----------------------------------------------------------------------------
(***************************************************************************)
(* What the map of fields means, once the object has ended.                *)
(***************************************************************************)

\* A text the other side gets for what it is.
LEMMA UnitsOfOne ==
  ASSUME NEW c \in Chars, PlainText(c)
  PROVE  FlattenSeq(Units(<<c>>)) = <<c>>
<1>1. PICK s : s = <<c>>
  OBVIOUS
<1>2. s \in Seq(Chars) /\ Len(s) = 1 /\ s[1] = c /\ 1 \in 1 .. Len(s) /\ 1 - 1 = 0
  BY <1>1
<1>3. c \notin {"high", "low"}
  BY EscapedPlain DEF Named
<1>4. ~Joined(s, 0) /\ ~Joined(s, 1)
  BY <1>2 DEF Joined
<1>5. Decoded(s, 1) = Append(Decoded(s, 0), c)
  <2>1. ~Joined(s, 1 - 1)
    BY <1>2, <1>4
  <2>2. Decoded(s, 1) = Append(Decoded(s, 1 - 1),
                               IF s[1] \in {"high", "low"} THEN Unpaired ELSE s[1])
    BY <1>2, <1>4, <2>1, DecodesOne
  <2> QED BY <1>2, <1>3, <2>2
<1>6. Decoded(s, 0) = <<>> /\ Decoded(s, Len(s)) = FlattenSeq(Units(s))
  BY <1>2, DecodedStep
<1>7. Append(<<>>, c) = <<c>>
  OBVIOUS
<1> QED BY <1>1, <1>2, <1>5, <1>6, <1>7, Zenon

\* Only the empty text is empty on the other side.
LEMMA UnitsEmpty ==
  ASSUME NEW s \in Seq(Chars)
  PROVE  FlattenSeq(Units(s)) = <<>> <=> s = <<>>
<1>1. CASE s = <<>>
  <2>1. Units(s) = <<>>
    BY <1>1 DEF Units
  <2> QED BY <1>1, <2>1, FlattenNone
<1>2. CASE s # <<>>
  <2>1. /\ Units(s) \in Seq(Seq(Symbols)) /\ Len(Units(s)) = Len(s) /\ Len(s) \in Nat
        /\ \A i \in 1 .. Len(s) : Units(s)[i] = Unit(s, i)
    BY UnitsTyped
  <2>2. 1 \in 1 .. Len(s)
    BY <1>2, EmptySeq, <2>1
  <2>3. Unit(s, 1) \in {<<"astral">>, <<Unpaired>>, <<s[1]>>}
    BY DEF Unit
  <2>4. 1 \in 1 .. Len(Units(s)[1])
    <3>1. \A a : Len(<<a>>) = 1 /\ 1 \in 1 .. 1
      OBVIOUS
    <3> QED BY <2>1, <2>2, <2>3, <3>1
  <2>5. Off(Units(s), 1 - 1) + 1 \in 1 .. Len(FlattenSeq(Units(s)))
    BY <2>1, <2>2, <2>4, FlattenAt
  <2>6. FlattenSeq(Units(s)) # <<>>
    <3>1. Len(<<>>) = 0 /\ 1 .. 0 = {}
      OBVIOUS
    <3> QED BY <2>5, <3>1, Zenon
  <2> QED BY <1>2, <2>6
<1> QED BY <1>1, <1>2

\* An absent text shows nothing.
LEMMA NothingShown == Wide(<<>>) = <<>> /\ Sanitized(<<>>) = <<>>
<1>1. ASSUME NEW f, f = [i \in DOMAIN <<>> |-> f[i]] PROVE f = <<>>
  BY <1>1
<1>2. \A e : FlattenSeq(<<>>) = <<>>
  BY FlattenNone
<1> QED BY <1>1, FlattenNone DEF Wide, Sanitized

\* The map read back, once the object has ended.
LEMMA ReadBack ==
  ASSUME NEW r \in Replies, r = sent, Stored(r, got, Count(r)), NEW i \in 1 .. Count(r)
  PROVE  /\ IsText(r, i) => StringOf(Key(r, i)) = FlattenSeq(Units(Said(r, i)))
         /\ \A lit \in {"true", "false"} : ~IsText(r, i) /\ Val(r, i) = <<lit>> =>
              Key(r, i) \in DOMAIN got /\ got[Key(r, i)] = JsonValue("bool", <<lit>>)
<1>1. Key(r, i) \in DOMAIN got /\ got[Key(r, i)] = Value(r, i)
  BY DEF Stored
<1>2. CASE IsText(r, i)
  <2>1. got[Key(r, i)] = [type |-> "string", text |-> FlattenSeq(Units(Said(r, i)))]
    BY <1>1, <1>2, Zenon DEF Value, JsonValue
  <2>2. StringOf(Key(r, i)) = FlattenSeq(Units(Said(r, i)))
    BY <1>1, <2>1 DEF StringOf
  <2> QED BY <1>2, <2>2
<1>3. ASSUME NEW lit \in {"true", "false"}, ~IsText(r, i), Val(r, i) = <<lit>>
      PROVE  got[Key(r, i)] = JsonValue("bool", <<lit>>)
  <2>1. <<lit>>[1] = lit
    OBVIOUS
  <2> QED BY <1>1, <1>3, <2>1, Zenon DEF Value
<1> QED BY <1>1, <1>2, <1>3

\* A field the reply has not leaves the default.
LEMMA NotGiven ==
  ASSUME NEW k, k \notin DOMAIN got
  PROVE  StringOf(k) = <<>>
BY DEF StringOf

\* What a reply without a verdict yet is, with its gesture.
Gestured(gesture, token, prompt) ==
  [Nothing EXCEPT !.gesture = gesture, !.token = token, !.prompt = prompt]

\* Three updates that change nothing.
LEMMA SameThrice ==
  ASSUME NEW S, NEW f, f = [x \in S |-> f[x]], NEW a \in S, NEW b \in S, NEW c \in S, NEW e,
         f[a] = e, f[b] = e, f[c] = e
  PROVE  [f EXCEPT ![a] = e, ![b] = e, ![c] = e] = f
OBVIOUS

\* A reply without a gesture.
LEMMA NotGestured == Gestured(<<>>, <<>>, <<>>) = Nothing
<1> DEFINE S == {"granted", "reason", "user", "word", "domain", "gesture", "token", "prompt"}
<1>1. Nothing = [x \in S |-> Nothing[x]]
  BY DEF Nothing
<1>2. PICK e : e = <<>>
  OBVIOUS
<1>3. Nothing["gesture"] = e /\ Nothing["token"] = e /\ Nothing["prompt"] = e
  BY <1>2 DEF Nothing
<1>4. "gesture" \in S /\ "token" \in S /\ "prompt" \in S
  OBVIOUS
<1> HIDE DEF S
<1>5. [Nothing EXCEPT !["gesture"] = e, !["token"] = e, !["prompt"] = e] = Nothing
  BY <1>1, <1>3, <1>4, SameThrice
<1> QED BY <1>2, <1>5, Zenon DEF Gestured

\* A refusal is taken for what it says.
LEMMA MeaningOfRefusal ==
  ASSUME sent \in Replies, sent.kind = "refusal", Stored(sent, got, Count(sent))
  PROVE  Interpreted = Meant(sent)
<1>1. /\ Count(sent) = 4 /\ Key(sent, 1) = "ok" /\ Key(sent, 2) = "reason"
      /\ Key(sent, 3) = "distance" /\ Key(sent, 4) = "real" /\ Val(sent, 1) = <<"false">>
      /\ ~IsText(sent, 1) /\ IsText(sent, 2) /\ Said(sent, 2) = <<sent.reason>>
  BY RefusalFields
<1>2. 1 \in 1 .. Count(sent) /\ 2 \in 1 .. Count(sent) /\ 1 .. 4 = {1, 2, 3, 4}
  BY <1>1
<1>3. DOMAIN got = {"ok", "reason", "distance", "real"}
  BY <1>1, <1>2 DEF Stored
<1>4. got["ok"] = JsonValue("bool", <<"false">>)
  BY <1>1, <1>2, ReadBack
<1>5. ~Granting
  <2>1. <<"false">>[1] # <<"true">>[1]
    OBVIOUS
  <2> QED BY <1>4, <2>1 DEF Granting, JsonValue
<1>6. StringOf("reason") = <<sent.reason>>
  <2>1. StringOf("reason") = FlattenSeq(Units(<<sent.reason>>))
    BY <1>1, <1>2, ReadBack
  <2>2. sent.reason \in Chars /\ PlainText(sent.reason)
    BY Kinds, GivenChars, ReplyAssumption
  <2> QED BY <2>1, <2>2, UnitsOfOne
<1>7. StringOf("gesture") = <<>> /\ StringOf("token") = <<>> /\ StringOf("prompt") = <<>>
  BY <1>3, NotGiven
<1>8. Interpreted = [Gestured(<<>>, <<>>, <<>>) EXCEPT !.reason =
                       IF <<sent.reason>> = <<>> THEN "no-match" ELSE <<sent.reason>>[1]]
  BY <1>5, <1>6, <1>7, NothingShown, Zenon DEF Interpreted, Gestured
<1>9. <<sent.reason>> # <<>> /\ <<sent.reason>>[1] = sent.reason
  OBVIOUS
<1>10. Meant(sent) = [Nothing EXCEPT !.reason = sent.reason]
  BY Zenon DEF Meant
<1> QED BY <1>8, <1>9, <1>10, NotGestured, Zenon

\* So is a request for a gesture.
LEMMA MeaningOfGesture ==
  ASSUME sent \in Replies, sent.kind = "gesture", Stored(sent, got, Count(sent))
  PROVE  Interpreted = Meant(sent)
<1>1. /\ Count(sent) = 6 /\ Key(sent, 1) = "ok" /\ Key(sent, 2) = "reason"
      /\ Key(sent, 3) = "gesture" /\ Key(sent, 4) = "token" /\ Key(sent, 5) = "prompt"
      /\ Key(sent, 6) = "ttl_s" /\ Val(sent, 1) = <<"false">>
      /\ ~IsText(sent, 1) /\ IsText(sent, 2) /\ IsText(sent, 3) /\ IsText(sent, 4)
      /\ IsText(sent, 5) /\ Said(sent, 2) = <<"needs-gesture">> /\ Said(sent, 3) = <<"nod">>
      /\ Said(sent, 4) = <<"f0">> /\ Said(sent, 5) = sent.word
  BY GestureFields
<1>2. {1, 2, 3, 4, 5} \subseteq 1 .. Count(sent)
  BY <1>1
<1>4. got["ok"] = JsonValue("bool", <<"false">>)
  BY <1>1, <1>2, ReadBack
<1>5. ~Granting
  <2>1. <<"false">>[1] # <<"true">>[1]
    OBVIOUS
  <2> QED BY <1>4, <2>1 DEF Granting, JsonValue
<1>6. /\ StringOf("reason") = <<"needs-gesture">> /\ StringOf("gesture") = <<"nod">>
      /\ StringOf("token") = <<"f0">> /\ StringOf("prompt") = FlattenSeq(Units(sent.word))
  <2>1. /\ StringOf("reason") = FlattenSeq(Units(<<"needs-gesture">>))
        /\ StringOf("gesture") = FlattenSeq(Units(<<"nod">>))
        /\ StringOf("token") = FlattenSeq(Units(<<"f0">>))
        /\ StringOf("prompt") = FlattenSeq(Units(sent.word))
    BY <1>1, <1>2, ReadBack
  <2>2. ASSUME NEW c \in Constants PROVE FlattenSeq(Units(<<c>>)) = <<c>>
    BY NamesPlain, UnitsOfOne
  <2>3. "needs-gesture" \in Constants /\ "nod" \in Constants /\ "f0" \in Constants
    BY DEF Constants
  <2> QED BY <2>1, <2>2, <2>3
<1>7. Sanitized(Wide(StringOf("prompt"))) = Sanitized(AsUtf16(sent.word))
  <2>1. sent.word \in Seq(Chars)
    BY Kinds, GivenTexts
  <2> QED BY <1>6, <2>1, AsUnits, Zenon
<1>8. Interpreted = [Gestured(<<"nod">>, <<"f0">>, Sanitized(AsUtf16(sent.word))) EXCEPT !.reason =
                       IF <<"needs-gesture">> = <<>> THEN "no-match" ELSE <<"needs-gesture">>[1]]
  BY <1>5, <1>6, <1>7, Zenon DEF Interpreted, Gestured
<1>9. <<"needs-gesture">> # <<>> /\ <<"needs-gesture">>[1] = "needs-gesture"
  OBVIOUS
<1>10. Meant(sent) = [Nothing EXCEPT !.reason = "needs-gesture", !.gesture = <<"nod">>,
                        !.token = <<"f0">>, !.prompt = Sanitized(AsUtf16(sent.word))]
  BY Zenon DEF Meant
<1> DEFINE p == Sanitized(AsUtf16(sent.word))
<1> HIDE DEF p
<1>11. [Gestured(<<"nod">>, <<"f0">>, p) EXCEPT !.reason = "needs-gesture"]
         = [Nothing EXCEPT !.reason = "needs-gesture", !.gesture = <<"nod">>,
              !.token = <<"f0">>, !.prompt = p]
  BY DEF Gestured, Nothing
<1> QED BY <1>8, <1>9, <1>10, <1>11, Zenon DEF p

\* And a grant, or what makes it unusable.
LEMMA MeaningOfGrant ==
  ASSUME sent \in Replies, sent.kind = "grant", Stored(sent, got, Count(sent))
  PROVE  Interpreted = Meant(sent)
<1>1. /\ Count(sent) = 4 /\ Key(sent, 1) = "ok" /\ Key(sent, 2) = "username"
      /\ Key(sent, 3) = "password" /\ Key(sent, 4) = "domain" /\ Val(sent, 1) = <<"true">>
      /\ ~IsText(sent, 1) /\ IsText(sent, 2) /\ IsText(sent, 3) /\ IsText(sent, 4)
      /\ Said(sent, 2) = sent.user /\ Said(sent, 3) = sent.word /\ Said(sent, 4) = sent.domain
  BY GrantFields
<1>2. {1, 2, 3, 4} \subseteq 1 .. Count(sent) /\ 1 .. 4 = {1, 2, 3, 4}
  BY <1>1
<1>3. DOMAIN got = {"ok", "username", "password", "domain"}
  BY <1>1, <1>2 DEF Stored
<1>4. "ok" \in DOMAIN got /\ got["ok"] = JsonValue("bool", <<"true">>)
  BY <1>1, <1>2, ReadBack
<1>5. Granting
  BY <1>4, Zenon DEF Granting
<1>6. /\ sent.user \in Seq(Chars) /\ sent.word \in Seq(Chars) /\ sent.domain \in Seq(Chars)
  BY Kinds, GivenTexts
<1>7. /\ StringOf("username") = FlattenSeq(Units(sent.user))
      /\ StringOf("password") = FlattenSeq(Units(sent.word))
      /\ StringOf("domain") = FlattenSeq(Units(sent.domain))
  BY <1>1, <1>2, ReadBack
<1>8. StringOf("gesture") = <<>> /\ StringOf("token") = <<>> /\ StringOf("prompt") = <<>>
  BY <1>3, NotGiven
<1>9. /\ Wide(StringOf("username")) = AsUtf16(sent.user)
      /\ Wide(StringOf("password")) = AsUtf16(sent.word)
      /\ Wide(StringOf("domain")) = AsUtf16(sent.domain)
      /\ StringOf("domain") = <<>> <=> sent.domain = <<>>
  BY <1>6, <1>7, AsUnits, UnitsEmpty, Zenon
<1> DEFINE user == AsUtf16(sent.user)
           word == AsUtf16(sent.word)
           domain == IF sent.domain = <<>> THEN <<".">> ELSE AsUtf16(sent.domain)
           seen == Gestured(<<>>, <<>>, <<>>)
<1>10. Interpreted = IF BadField(user) \/ BadField(word) \/ BadField(domain)
                     THEN [seen EXCEPT !.reason = "malformed-response"]
                     ELSE [seen EXCEPT !.granted = TRUE, !.user = user, !.word = word,
                                        !.domain = domain]
  BY <1>5, <1>8, <1>9, NothingShown, Zenon DEF Interpreted, Gestured
<1>11. Meant(sent) = IF \A w \in {user, word, domain} : ~BadField(w)
                     THEN [Nothing EXCEPT !.granted = TRUE, !.user = user, !.word = word,
                                          !.domain = domain]
                     ELSE Malformed
  BY Zenon DEF Meant
<1>12. seen = Nothing
  BY NotGestured
<1> HIDE DEF user, word, domain, seen
<1> QED BY <1>10, <1>11, <1>12, Zenon DEF Malformed

\* Interpreting the map preserves it.
LEMMA InterpretReads == ASSUME ReadInv, Interpret PROVE ReadInv'
<1>1. /\ place = "object" /\ parsed' = Interpreted /\ mark' = mark + 0 /\ place' = "done"
      /\ UNCHANGED <<sent, json, field, buf, taken, got>>
  BY DEF Interpret, Go, decoding
<1>2. mark = Len(json) /\ Stored(sent, got, Count(sent)) /\ sent \in Replies
  BY <1>1, Places DEF AtObject, ReadInv
<1>3. parsed' = Meant(sent)
  BY <1>1, <1>2, Kinds, MeaningOfGrant, MeaningOfRefusal, MeaningOfGesture
<1>4. mark \in 1 .. Len(json) /\ mark' = mark
  <2>1. Len(json) \in Nat /\ End(sent, 1) \in Nat /\ End(sent, 1) < Len(json)
    BY FirstField, AtField
  <2> DEFINE l == Len(json)
  <2> HIDE DEF l
  <2>2. l \in 1 .. l /\ l + 0 = l
    BY <2>1 DEF l
  <2> QED BY <1>1, <1>2, <2>2 DEF l
<1>5. AtDone'
  BY <1>1, <1>2, <1>3, <1>4 DEF AtDone
<1> QED BY <1>1, <1>5 DEF ReadInv

\* And so does a step that leaves the reader alone.
LEMMA StutterReads == ASSUME ReadInv, UNCHANGED replyVars PROVE ReadInv'
BY DEF ReadInv, replyVars, cursor, decoding, AtOpen, AtFirst, AtKey, InKey, AtColon, AtValue,
       InValue, AtSep, AtObject, AtDone, Within

\* So every step preserves it.
LEMMA StepReads == ReadInv /\ [ReplyNext]_replyVars => ReadInv'
BY BlankReads, PunctuationReads, BeginStringReads, PlainReads, ShortEscapeReads,
   UnicodeEscapeReads, EndStringReads, LiteralReads, InterpretReads, RunsOutReads, StutterReads
   DEF ReplyNext

\* What it says in terms of the verdict.
LEMMA ReadsFaithfully == ReadInv => ReplyFaithful /\ ReplyTypeOK
<1> SUFFICES ASSUME ReadInv PROVE ReplyFaithful /\ ReplyTypeOK
  OBVIOUS
<1>1. place = "done" => AtDone
  BY Places
<1>2. InString => Size(buf) <= taken
  BY Places DEF InString, InKey, InValue
<1>3. mark \in 1 .. Len(json)
  <2>1. CASE place = "object"
    <3>1. Len(json) \in Nat /\ End(sent, 1) \in Nat /\ End(sent, 1) < Len(json)
      BY FirstField, AtField
    <3> DEFINE l == Len(json)
    <3> HIDE DEF l
    <3>2. l \in 1 .. l
      BY <3>1 DEF l
    <3> QED BY <2>1, <3>2, Places DEF AtObject, l
  <2> QED BY <2>1, <1>1, Short DEF AtDone
<1>4. place \in {"open", "first", "key", "in key", "colon", "value", "in value", "sep",
                 "object", "done"}
  BY DEF ReadInv, AtOpen, AtFirst, AtObject, AtDone, Within, AtKey, InKey, AtColon, AtValue,
         InValue, AtSep
<1>5. parsed.granted \in BOOLEAN
  <2>1. Nothing.granted \in BOOLEAN /\ Malformed.granted \in BOOLEAN
    BY DEF Nothing, Malformed
  <2>2. sent \in Replies => Meant(sent).granted \in BOOLEAN
    <3> SUFFICES ASSUME sent \in Replies PROVE Meant(sent).granted \in BOOLEAN
      OBVIOUS
    <3>1. CASE sent.kind = "refusal"
      <4>1. Meant(sent) = [Nothing EXCEPT !.reason = sent.reason]
        BY <3>1, Zenon DEF Meant
      <4> QED BY <4>1 DEF Nothing
    <3>2. CASE sent.kind = "gesture"
      <4>1. Meant(sent) = [Nothing EXCEPT !.reason = "needs-gesture", !.gesture = <<"nod">>,
                             !.token = <<"f0">>, !.prompt = Sanitized(AsUtf16(sent.word))]
        BY <3>2, Zenon DEF Meant
      <4> QED BY <4>1 DEF Nothing
    <3>3. CASE sent.kind = "grant"
      <4>1. \/ Meant(sent) = Malformed
            \/ \E u, w, d : Meant(sent) = [Nothing EXCEPT !.granted = TRUE, !.user = u, !.word = w,
                                                          !.domain = d]
        BY <3>3, Zenon DEF Meant
      <4> QED BY <4>1, <2>1 DEF Nothing
    <3> QED BY <3>1, <3>2, <3>3, Kinds
  <2> QED BY <1>1, <2>1, <2>2 DEF ReadInv, AtDone
<1>6. ReplyFaithful
  BY <1>1, <1>2 DEF ReplyFaithful, AtDone
<1>7. ReplyTypeOK
  <2>1. \A n \in Nat : \A k \in 1 .. n : k \in 1 .. n + 1
    OBVIOUS
  <2>3. Len(json) \in Nat
    BY Around
  <2>2. mark \in 1 .. Len(json) + 1
    BY <1>3, <2>1, <2>3, Zenon
  <2> QED BY <1>4, <1>5, <2>2 DEF ReadInv, ReplyTypeOK
<1> QED BY <1>6, <1>7

\* The reader's variables have their types, whatever the reply.
THEOREM ReplyTyped == ReplySpec => []ReplyTypeOK
<1>1. ReplyInit => ReadInv
  BY InitReads
<1>2. ReadInv /\ [ReplyNext]_replyVars => ReadInv'
  BY StepReads
<1>3. ReadInv => ReplyTypeOK
  BY ReadsFaithfully
<1> QED BY <1>1, <1>2, <1>3, PTL DEF ReplySpec

\* Whatever the accounts, words and refusals, the tile gets the very credential,
\* refusal or gesture the service sent, nothing but a failure from a text that
\* ends early, and no string takes more bytes than its text (ParseUnlockReply).
THEOREM RepliesAreFaithful == ReplySpec => []ReplyFaithful
<1>1. ReplyInit => ReadInv
  BY InitReads
<1>2. ReadInv /\ [ReplyNext]_replyVars => ReadInv'
  BY StepReads
<1>3. ReadInv => ReplyFaithful
  BY ReadsFaithfully
<1> QED BY <1>1, <1>2, <1>3, PTL DEF ReplySpec
=============================================================================
