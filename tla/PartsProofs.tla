---------------------------- MODULE PartsProofs ----------------------------
(***************************************************************************)
(* Proofs about the parts that MCParts checks together, one part after the *)
(* other: the credential store, a call over the pipe, what changes an      *)
(* installation, the configuration file, the judging of frames and the     *)
(* custody of the data directory. No definition of a part reads another    *)
(* part's, and every theorem is about the specification of one part alone. *)
(***************************************************************************)
EXTENDS CredentialStore, PipeCall, Setup, ConfigFile, FaceJudge, Custody,
        FiniteSetTheorems, TLAPS

-----------------------------------------------------------------------------
(***************************************************************************)
(* CredentialStore, for any number of processes. As long as no two         *)
(* processes made a secret, whoever holds one holds the file's, or is the  *)
(* only one and the file holds none yet.                                   *)
(***************************************************************************)

Making(u) == doing[u] \in {"truncate", "write"}
Storing(u) == doing[u] \in {"temporary", "replace"}

\* A maker has the place to itself until its secret is in the file.
MakersAlone ==
  \A u \in Users :
    Making(u) => /\ key = NoKey /\ with[u] # NoKey
                 /\ \A v \in Users : Holding(v) => v = u

\* Whoever is about to encrypt uses the secret in the file.
StorersAgree == \A u \in Users : Storing(u) => with[u] = key /\ key # NoKey

\* So is every blob.
BlobsAgree ==
  /\ creds.version = "v2" => creds.key = key /\ key # NoKey
  /\ tmp.version = "v2" => tmp.key = key /\ key # NoKey

Agree == MakersAlone /\ StorersAgree /\ BlobsAgree
CredInv == CredTypeOK /\ (~clash => Agree)

\* A step of one process leaves the places of the others.
LEMMA OneMoves ==
  ASSUME CredTypeOK, NEW u \in Users, NEW next \in Doing, Step(u, next)
  PROVE  /\ doing'[u] = next /\ doing' \in [Users -> Doing]
         /\ \A v \in Users : v # u => doing'[v] = doing[v]
BY DEF CredTypeOK, Step

\* Files are typed.
LEMMA FileTypes ==
  /\ NoFile.version = "none" /\ Legacy.version = "v1"
  /\ \A k, p : Blob(k, p).version = "v2" /\ Blob(k, p).key = k
BY DEF NoFile, Legacy, Blob

\* The types, step by step.
LEMMA CredTypeStep ==
  ASSUME CredTypeOK, [CredNext]_credVars
  PROVE  CredTypeOK'
<1>1. NoKey \in Keys /\ 0 \in Passwords
  BY CredAssumption DEF Keys, Passwords, NoKey
<1>2. \A k \in Keys, p \in Passwords :
        Blob(k, p) \in [version : {"none", "v2"}, key : Keys, password : Passwords]
  BY DEF Blob
<1>3. NoFile \in [version : {"none", "v2"}, key : Keys, password : Passwords]
  BY <1>1 DEF NoFile
<1>4. made < MaxKeys => made + 1 \in Keys
  BY CredAssumption DEF CredTypeOK, Keys
<1>5. saves < MaxSaves => saves + 1 \in Passwords
  BY CredAssumption DEF CredTypeOK, Passwords
<1>6. CASE UNCHANGED credVars
  BY <1>6 DEF credVars, works, CredTypeOK
<1>7. ASSUME NEW u \in Users,
             \/ Migrate(u) \/ SavePassword(u) \/ ClearPassword(u)
             \/ FindSecret(u) \/ MakeSecret(u) \/ Truncate(u) \/ WriteSecret(u)
             \/ WriteTemporary(u) \/ Replace(u) \/ GiveUp(u)
      PROVE  CredTypeOK'
  <2>1. CASE Migrate(u)
    BY <2>1 DEF Migrate, Step, Doing, CredTypeOK
  <2>2. CASE SavePassword(u)
    BY <2>2, <1>5 DEF SavePassword, Step, Doing, CredTypeOK
  <2>3. CASE ClearPassword(u)
    BY <2>3, <1>3 DEF ClearPassword, works, CredTypeOK
  <2>4. CASE FindSecret(u)
    BY <2>4 DEF FindSecret, Step, Doing, CredTypeOK
  <2>5. CASE MakeSecret(u)
    BY <2>5, <1>4 DEF MakeSecret, Step, Doing, CredTypeOK
  <2>6. CASE Truncate(u)
    BY <2>6, <1>1 DEF Truncate, Step, Doing, CredTypeOK
  <2>7. CASE WriteSecret(u)
    BY <2>7 DEF WriteSecret, Step, Doing, CredTypeOK
  <2>8. CASE WriteTemporary(u)
    BY <2>8, <1>2 DEF WriteTemporary, Step, Doing, CredTypeOK
  <2>9. CASE Replace(u)
    BY <2>9, <1>3 DEF Replace, Step, Doing, CredTypeOK
  <2>10. CASE GiveUp(u)
    BY <2>10 DEF GiveUp, Step, Doing, CredTypeOK
  <2> QED BY <1>7, <2>1, <2>2, <2>3, <2>4, <2>5, <2>6, <2>7, <2>8, <2>9, <2>10
<1> QED BY <1>6, <1>7 DEF CredNext

\* The secret in the file is everybody's, step by step.
LEMMA CredAgreeStep ==
  ASSUME CredTypeOK, ~clash => Agree, [CredNext]_credVars, ~clash'
  PROVE  Agree'
<1>1. CASE UNCHANGED credVars
  BY <1>1 DEF credVars, works, Agree, MakersAlone, StorersAgree, BlobsAgree, Making,
     Storing, Holding
<1>2. ASSUME NEW u \in Users,
             \/ Migrate(u) \/ SavePassword(u) \/ ClearPassword(u)
             \/ FindSecret(u) \/ MakeSecret(u) \/ Truncate(u) \/ WriteSecret(u)
             \/ WriteTemporary(u) \/ Replace(u) \/ GiveUp(u)
      PROVE  Agree'
  <2>1. CASE Migrate(u)
    <3>1. ~clash /\ Agree
      BY <2>1 DEF Migrate, CredTypeOK
    <3>2. /\ doing'[u] = "secret" /\ \A v \in Users : v # u => doing'[v] = doing[v]
      BY <2>1, OneMoves DEF Migrate, Doing
    <3>5. MakersAlone'
      BY <2>1, <3>1, <3>2 DEF Migrate, Agree, MakersAlone, Making, Storing, Holding
    <3>6. StorersAgree'
      BY <2>1, <3>1, <3>2
         DEF Migrate, Agree, MakersAlone, StorersAgree, Making, Storing, Holding
    <3>7. BlobsAgree'
      BY <2>1, <3>1, <3>2, FileTypes
         DEF Migrate, Agree, MakersAlone, BlobsAgree, Making, Storing, StorersAgree
    <3> QED BY <3>5, <3>6, <3>7 DEF Agree
  <2>2. CASE SavePassword(u)
    <3>1. ~clash /\ Agree
      BY <2>2 DEF SavePassword, CredTypeOK
    <3>2. /\ doing'[u] = "secret" /\ \A v \in Users : v # u => doing'[v] = doing[v]
      BY <2>2, OneMoves DEF SavePassword, Doing
    <3>5. MakersAlone'
      BY <2>2, <3>1, <3>2
         DEF SavePassword, Agree, MakersAlone, Making, Storing, Holding
    <3>6. StorersAgree'
      BY <2>2, <3>1, <3>2
         DEF SavePassword, Agree, MakersAlone, StorersAgree, Making, Storing,
         Holding
    <3>7. BlobsAgree'
      BY <2>2, <3>1, <3>2, FileTypes
         DEF SavePassword, Agree, MakersAlone, BlobsAgree, Making, Storing,
         StorersAgree
    <3> QED BY <3>5, <3>6, <3>7 DEF Agree
  <2>3. CASE ClearPassword(u)
    <3>1. ~clash /\ Agree
      BY <2>3 DEF ClearPassword, CredTypeOK
    <3> QED
      BY <2>3, <3>1, FileTypes
         DEF ClearPassword, works, Agree, MakersAlone, StorersAgree,
         BlobsAgree, Making, Storing, Holding
  <2>4. CASE FindSecret(u)
    <3>1. ~clash /\ Agree
      BY <2>4 DEF FindSecret, CredTypeOK
    <3>2. /\ doing'[u] = "temporary" /\ \A v \in Users : v # u => doing'[v] = doing[v]
      BY <2>4, OneMoves DEF FindSecret, Doing
    <3>3. \A v \in Users : v # u => with'[v] = with[v]
      BY <2>4 DEF FindSecret, CredTypeOK
    <3>4. with'[u] = key
      BY <2>4 DEF FindSecret, CredTypeOK
    <3>5. MakersAlone'
      BY <2>4, <3>1, <3>2, <3>3, <3>4
         DEF FindSecret, Agree, MakersAlone, Making, Storing, Holding
    <3>6. StorersAgree'
      BY <2>4, <3>1, <3>2, <3>3, <3>4
         DEF FindSecret, Agree, MakersAlone, StorersAgree, Making, Storing, Holding
    <3>7. BlobsAgree'
      BY <2>4, <3>1, <3>2, <3>3, <3>4, FileTypes
         DEF FindSecret, Agree, MakersAlone, BlobsAgree, Making, Storing,
         StorersAgree
    <3> QED BY <3>5, <3>6, <3>7 DEF Agree
  <2>5. CASE MakeSecret(u)
    <3>1. ~clash /\ Agree
      BY <2>5 DEF MakeSecret, CredTypeOK
    <3>2. /\ doing'[u] = "truncate" /\ \A v \in Users : v # u => doing'[v] = doing[v]
      BY <2>5, OneMoves DEF MakeSecret, Doing
    <3>3. \A v \in Users : v # u => with'[v] = with[v]
      BY <2>5 DEF MakeSecret, CredTypeOK
    <3>4. with'[u] = made + 1
      BY <2>5 DEF MakeSecret, CredTypeOK
    <3>8. /\ key' = NoKey /\ made + 1 # NoKey
          /\ \A v \in Users : v # u => ~Holding(v)
      <4>1. key = NoKey /\ ~\E v \in Users \ {u} : Holding(v)
        BY <2>5 DEF MakeSecret
      <4>2. made + 1 # NoKey
        BY CredAssumption DEF CredTypeOK, Keys, NoKey
      <4> QED BY <2>5, <4>1, <4>2 DEF MakeSecret
    <3>5. MakersAlone'
      BY <3>2, <3>3, <3>4, <3>8 DEF MakersAlone, Making, Holding
    <3>6. StorersAgree'
      BY <2>5, <3>1, <3>2, <3>3, <3>4
         DEF MakeSecret, Agree, MakersAlone, StorersAgree, Making, Storing, Holding
    <3>7. BlobsAgree'
      BY <2>5, <3>1, <3>2, <3>3, <3>4, FileTypes
         DEF MakeSecret, Agree, MakersAlone, BlobsAgree, Making, Storing,
         StorersAgree
    <3> QED BY <3>5, <3>6, <3>7 DEF Agree
  <2>6. CASE Truncate(u)
    <3>1. ~clash /\ Agree
      BY <2>6 DEF Truncate, CredTypeOK
    <3>2. /\ doing'[u] = "write" /\ \A v \in Users : v # u => doing'[v] = doing[v]
      BY <2>6, OneMoves DEF Truncate, Doing
    <3>5. MakersAlone'
      BY <2>6, <3>1, <3>2 DEF Truncate, Agree, MakersAlone, Making, Storing, Holding
    <3>6. StorersAgree'
      BY <2>6, <3>1, <3>2
         DEF Truncate, Agree, MakersAlone, StorersAgree, Making, Storing, Holding
    <3>7. BlobsAgree'
      BY <2>6, <3>1, <3>2, FileTypes
         DEF Truncate, Agree, MakersAlone, BlobsAgree, Making, Storing, StorersAgree
    <3> QED BY <3>5, <3>6, <3>7 DEF Agree
  <2>7. CASE WriteSecret(u)
    <3>1. ~clash /\ Agree
      BY <2>7 DEF WriteSecret, CredTypeOK
    <3>2. /\ doing'[u] = "temporary" /\ \A v \in Users : v # u => doing'[v] = doing[v]
      BY <2>7, OneMoves DEF WriteSecret, Doing
    <3>5. MakersAlone'
      BY <2>7, <3>1, <3>2
         DEF WriteSecret, Agree, MakersAlone, Making, Storing, Holding
    <3>6. StorersAgree'
      BY <2>7, <3>1, <3>2
         DEF WriteSecret, Agree, MakersAlone, StorersAgree, Making, Storing, Holding
    <3>7. BlobsAgree'
      BY <2>7, <3>1, <3>2, FileTypes
         DEF WriteSecret, Agree, MakersAlone, BlobsAgree, Making, Storing,
         StorersAgree
    <3> QED BY <3>5, <3>6, <3>7 DEF Agree
  <2>8. CASE WriteTemporary(u)
    <3>1. ~clash /\ Agree
      BY <2>8 DEF WriteTemporary, CredTypeOK
    <3>2. /\ doing'[u] = "replace" /\ \A v \in Users : v # u => doing'[v] = doing[v]
      BY <2>8, OneMoves DEF WriteTemporary, Doing
    <3>5. MakersAlone'
      BY <2>8, <3>1, <3>2
         DEF WriteTemporary, Agree, MakersAlone, Making, Storing, Holding
    <3>6. StorersAgree'
      BY <2>8, <3>1, <3>2
         DEF WriteTemporary, Agree, MakersAlone, StorersAgree, Making, Storing,
         Holding
    <3>7. BlobsAgree'
      BY <2>8, <3>1, <3>2, FileTypes
         DEF WriteTemporary, Agree, MakersAlone, BlobsAgree, Making, Storing,
         StorersAgree
    <3> QED BY <3>5, <3>6, <3>7 DEF Agree
  <2>9. CASE Replace(u)
    <3>1. ~clash /\ Agree
      BY <2>9 DEF Replace, CredTypeOK
    <3>2. /\ doing'[u] = "nothing" /\ \A v \in Users : v # u => doing'[v] = doing[v]
      BY <2>9, OneMoves DEF Replace, Doing
    <3>5. MakersAlone'
      BY <2>9, <3>1, <3>2 DEF Replace, Agree, MakersAlone, Making, Storing, Holding
    <3>6. StorersAgree'
      BY <2>9, <3>1, <3>2
         DEF Replace, Agree, MakersAlone, StorersAgree, Making, Storing, Holding
    <3>7. BlobsAgree'
      BY <2>9, <3>1, <3>2, FileTypes
         DEF Replace, Agree, MakersAlone, BlobsAgree, Making, Storing, StorersAgree
    <3> QED BY <3>5, <3>6, <3>7 DEF Agree
  <2>10. CASE GiveUp(u)
    <3>1. ~clash /\ Agree
      BY <2>10 DEF GiveUp, CredTypeOK
    <3>2. /\ doing'[u] = "nothing" /\ \A v \in Users : v # u => doing'[v] = doing[v]
      BY <2>10, OneMoves DEF GiveUp, Doing
    <3>5. MakersAlone'
      BY <2>10, <3>1, <3>2 DEF GiveUp, Agree, MakersAlone, Making, Storing, Holding
    <3>6. StorersAgree'
      BY <2>10, <3>1, <3>2
         DEF GiveUp, Agree, MakersAlone, StorersAgree, Making, Storing, Holding
    <3>7. BlobsAgree'
      BY <2>10, <3>1, <3>2, FileTypes
         DEF GiveUp, Agree, MakersAlone, BlobsAgree, Making, Storing, StorersAgree
    <3> QED BY <3>5, <3>6, <3>7 DEF Agree
  <2> QED BY <1>2, <2>1, <2>2, <2>3, <2>4, <2>5, <2>6, <2>7, <2>8, <2>9, <2>10
<1> QED BY <1>1, <1>2 DEF CredNext

\* The invariant of every behaviour of the credential store (credentials.py).
THEOREM CredPreserved == CredSpec => []CredInv
<1>1. CredInit => CredInv
  <2> SUFFICES ASSUME CredInit PROVE CredInv
    OBVIOUS
  <2>1. NoKey \in Keys /\ 0 \in Keys /\ 0 \in Passwords
    BY CredAssumption DEF Keys, Passwords, NoKey
  <2>2. CredTypeOK
    <3>1. /\ \A f \in {NoFile, Legacy} :
               f \in [version : {"none", "v1", "v2"}, key : Keys, password : Passwords]
          /\ NoFile \in [version : {"none", "v2"}, key : Keys, password : Passwords]
      BY <2>1 DEF NoFile, Legacy
    <3>2. /\ doing \in [Users -> Doing] /\ with \in [Users -> Keys]
          /\ secret \in [Users -> Passwords]
      BY <2>1 DEF CredInit, Doing
    <3> QED BY <2>1, <3>1, <3>2 DEF CredInit, CredTypeOK
  <2>3. Agree
    BY FileTypes
       DEF CredInit, Agree, MakersAlone, StorersAgree, BlobsAgree, Making, Storing
  <2> QED BY <2>2, <2>3 DEF CredInv
<1>2. CredInv /\ [CredNext]_credVars => CredInv'
  BY CredTypeStep, CredAgreeStep DEF CredInv
<1> QED BY <1>1, <1>2, PTL DEF CredSpec

\* What is stored can be decrypted, whoever was killed where, unless two
\* processes made a secret or the one on disk could not be read.
THEOREM AlwaysReadable == CredSpec => []CredentialReadable
<1>1. CredInv => CredentialReadable
  BY DEF CredInv, Agree, BlobsAgree, CredentialReadable
<1> QED BY <1>1, CredPreserved, PTL

-----------------------------------------------------------------------------
(* One request over the pipe, for every budget. Before the check nothing is *)
(* asked of the other end, after it the other end is a trusted one; the     *)
(* kernel owns the buffers only while the call waits or drains.             *)

\* A wait ends within the budget, or at once.
WaitsBounded ==
  (phase = "retrying" \/ Awaiting) => ends <= Budget \/ ends = elapsed

\* An operation is under way only while the call attends to it.
IoAttended == io # "none" => phase \in {"writing", "reading", "draining"}

\* Who may have been given the request, step by step of the call.
PeerKnown ==
  /\ phase \in {"opening", "retrying", "opened"} => ~written
  /\ checks /\ (written \/ phase \in {"write", "writing", "read", "reading", "draining"})
       => peer \in Trusts(caller)

CallInv == PipeCallTypeOK /\ WaitsBounded /\ IoAttended /\ PeerKnown

\* What is left of the budget, counted from now, ends with it or at once.
LEMMA BudgetFacts ==
  ASSUME PipeCallTypeOK
  PROVE  /\ elapsed + BudgetLeft(elapsed) \in 0..(MaxTicks + 1)
         /\ elapsed + BudgetLeft(elapsed) <= Budget \/ BudgetLeft(elapsed) = 0
         /\ elapsed + Shorter(BudgetLeft(elapsed), Retry) \in 0..(MaxTicks + 1)
         /\ BudgetLeft(elapsed) # 0 =>
              elapsed + Shorter(BudgetLeft(elapsed), Retry) <= Budget
         /\ elapsed + 0 = elapsed /\ elapsed \in 0..(MaxTicks + 1)
<1>1. elapsed \in Nat /\ elapsed <= MaxTicks
  BY PipeCallAssumption DEF PipeCallTypeOK
<1> QED BY <1>1, PipeCallAssumption DEF BudgetLeft, Shorter

\* The types, of the call itself...
CallTypes ==
  /\ caller \in Callers /\ {checks, listens, written} \subseteq BOOLEAN
  /\ phase \in {"opening", "retrying", "opened", "write", "writing", "read", "reading",
                "draining", "over"}
  /\ {holder, peer} \subseteq Owners
  /\ io \in {"none", "pending", "completed", "failed"}
  /\ outcome \in {"none", "unavailable", "untrusted", "reply", "bad-reply", "timeout"}

\* ...and of the clock.
ClockTypes == elapsed \in 0..MaxTicks /\ ends \in 0..(MaxTicks + 1)

\* The call keeps its types.
LEMMA CallTypesStep ==
  ASSUME CallInv, [PipeCallNext]_callVars PROVE CallTypes'
<1> USE DEF kept, CallInv, PipeCallTypeOK, CallTypes
<1>1. CASE Opened
  BY <1>1 DEF Opened
<1>2. CASE Refused
  BY <1>2 DEF Refused, Return
<1>3. CASE OpenFails
  BY <1>3 DEF OpenFails, Return
<1>4. CASE TryAgain
  BY <1>4 DEF TryAgain
<1>5. CASE InstanceGone
  BY <1>5 DEF InstanceGone, Return, Owners
<1>6. CASE Checked
  BY <1>6 DEF Checked
<1>7. CASE Distrusted
  BY <1>7 DEF Distrusted, Return
<1>8. CASE Issue("write", "writing")
  BY <1>8 DEF Issue
<1>9. CASE Issue("read", "reading")
  BY <1>9 DEF Issue
<1>10. CASE IssueFails
  BY <1>10 DEF IssueFails, Return
<1>11. CASE Finished
  BY <1>11 DEF Finished, Return, Awaiting
<1>12. CASE FinishedBadly
  BY <1>12 DEF FinishedBadly, Return, Awaiting
<1>13. CASE CancelIo
  BY <1>13 DEF CancelIo, Awaiting
<1>14. CASE Drained
  BY <1>14 DEF Drained, Return
<1>15. CASE Completes
  BY <1>15 DEF Completes
<1>16. CASE Fails
  BY <1>16 DEF Fails
<1>17. CASE ServerLeaves
  BY <1>17 DEF ServerLeaves
<1>18. CASE NameChanges
  BY <1>18 DEF NameChanges
<1>19. CASE TimePasses
  BY <1>19 DEF TimePasses, Awaiting
<1>20. CASE UNCHANGED callVars
  BY <1>20 DEF callVars, Awaiting
<1> QED
  BY <1>1, <1>2, <1>3, <1>4, <1>5, <1>6, <1>7, <1>8, <1>9, <1>10, <1>11,
     <1>12, <1>13, <1>14, <1>15, <1>16, <1>17, <1>18, <1>19, <1>20 DEF PipeCallNext

\* The clock keeps to its bound.
LEMMA ClockTypesStep ==
  ASSUME CallInv, [PipeCallNext]_callVars PROVE ClockTypes'
<1> USE BudgetFacts, PipeCallAssumption DEF kept, CallInv, PipeCallTypeOK, ClockTypes
<1>1. CASE Opened
  BY <1>1 DEF Opened
<1>2. CASE Refused
  BY <1>2 DEF Refused, Return
<1>3. CASE OpenFails
  BY <1>3 DEF OpenFails, Return
<1>4. CASE TryAgain
  BY <1>4 DEF TryAgain
<1>5. CASE InstanceGone
  BY <1>5 DEF InstanceGone, Return
<1>6. CASE Checked
  BY <1>6 DEF Checked
<1>7. CASE Distrusted
  BY <1>7 DEF Distrusted, Return
<1>8. CASE Issue("write", "writing")
  BY <1>8 DEF Issue
<1>9. CASE Issue("read", "reading")
  BY <1>9 DEF Issue
<1>10. CASE IssueFails
  BY <1>10 DEF IssueFails, Return
<1>11. CASE Finished
  BY <1>11 DEF Finished, Return, Awaiting
<1>12. CASE FinishedBadly
  BY <1>12 DEF FinishedBadly, Return, Awaiting
<1>13. CASE CancelIo
  BY <1>13 DEF CancelIo, Awaiting
<1>14. CASE Drained
  BY <1>14 DEF Drained, Return
<1>15. CASE Completes
  BY <1>15 DEF Completes
<1>16. CASE Fails
  BY <1>16 DEF Fails
<1>17. CASE ServerLeaves
  BY <1>17 DEF ServerLeaves
<1>18. CASE NameChanges
  BY <1>18 DEF NameChanges
<1>19. CASE TimePasses
  BY <1>19 DEF TimePasses, Awaiting
<1>20. CASE UNCHANGED callVars
  BY <1>20 DEF callVars, Awaiting
<1> QED
  BY <1>1, <1>2, <1>3, <1>4, <1>5, <1>6, <1>7, <1>8, <1>9, <1>10, <1>11,
     <1>12, <1>13, <1>14, <1>15, <1>16, <1>17, <1>18, <1>19, <1>20 DEF PipeCallNext

\* Every wait is bounded when it starts, and time stops at its end.
LEMMA WaitsStep ==
  ASSUME CallInv, [PipeCallNext]_callVars PROVE WaitsBounded'
<1> USE BudgetFacts, PipeCallAssumption DEF kept, CallInv, PipeCallTypeOK,
  WaitsBounded, Awaiting
<1>1. CASE Opened
  BY <1>1 DEF Opened
<1>2. CASE Refused
  BY <1>2 DEF Refused, Return
<1>3. CASE OpenFails
  BY <1>3 DEF OpenFails, Return
<1>4. CASE TryAgain
  BY <1>4 DEF TryAgain
<1>5. CASE InstanceGone
  BY <1>5 DEF InstanceGone, Return
<1>6. CASE Checked
  BY <1>6 DEF Checked
<1>7. CASE Distrusted
  BY <1>7 DEF Distrusted, Return
<1>8. CASE Issue("write", "writing")
  BY <1>8 DEF Issue
<1>9. CASE Issue("read", "reading")
  BY <1>9 DEF Issue
<1>10. CASE IssueFails
  BY <1>10 DEF IssueFails, Return
<1>11. CASE Finished
  BY <1>11 DEF Finished, Return, Awaiting
<1>12. CASE FinishedBadly
  BY <1>12 DEF FinishedBadly, Return, Awaiting
<1>13. CASE CancelIo
  BY <1>13 DEF CancelIo, Awaiting
<1>14. CASE Drained
  BY <1>14 DEF Drained, Return
<1>15. CASE Completes
  BY <1>15 DEF Completes
<1>16. CASE Fails
  BY <1>16 DEF Fails
<1>17. CASE ServerLeaves
  BY <1>17 DEF ServerLeaves
<1>18. CASE NameChanges
  BY <1>18 DEF NameChanges
<1>19. CASE TimePasses
  BY <1>19 DEF TimePasses, Awaiting
<1>20. CASE UNCHANGED callVars
  BY <1>20 DEF callVars, Awaiting
<1> QED
  BY <1>1, <1>2, <1>3, <1>4, <1>5, <1>6, <1>7, <1>8, <1>9, <1>10, <1>11,
     <1>12, <1>13, <1>14, <1>15, <1>16, <1>17, <1>18, <1>19, <1>20 DEF PipeCallNext

\* Nothing returns with an operation under way.
LEMMA IoStep ==
  ASSUME CallInv, [PipeCallNext]_callVars PROVE IoAttended'
<1> USE DEF kept, CallInv, IoAttended
<1>1. CASE Opened
  BY <1>1 DEF Opened
<1>2. CASE Refused
  BY <1>2 DEF Refused, Return
<1>3. CASE OpenFails
  BY <1>3 DEF OpenFails, Return
<1>4. CASE TryAgain
  BY <1>4 DEF TryAgain
<1>5. CASE InstanceGone
  BY <1>5 DEF InstanceGone, Return
<1>6. CASE Checked
  BY <1>6 DEF Checked
<1>7. CASE Distrusted
  BY <1>7 DEF Distrusted, Return
<1>8. CASE Issue("write", "writing")
  BY <1>8 DEF Issue
<1>9. CASE Issue("read", "reading")
  BY <1>9 DEF Issue
<1>10. CASE IssueFails
  BY <1>10 DEF IssueFails, Return
<1>11. CASE Finished
  BY <1>11 DEF Finished, Return, Awaiting
<1>12. CASE FinishedBadly
  BY <1>12 DEF FinishedBadly, Return, Awaiting
<1>13. CASE CancelIo
  BY <1>13 DEF CancelIo, Awaiting
<1>14. CASE Drained
  BY <1>14 DEF Drained, Return
<1>15. CASE Completes
  BY <1>15 DEF Completes
<1>16. CASE Fails
  BY <1>16 DEF Fails
<1>17. CASE ServerLeaves
  BY <1>17 DEF ServerLeaves
<1>18. CASE NameChanges
  BY <1>18 DEF NameChanges
<1>19. CASE TimePasses
  BY <1>19 DEF TimePasses, Awaiting
<1>20. CASE UNCHANGED callVars
  BY <1>20 DEF callVars, Awaiting
<1> QED
  BY <1>1, <1>2, <1>3, <1>4, <1>5, <1>6, <1>7, <1>8, <1>9, <1>10, <1>11,
     <1>12, <1>13, <1>14, <1>15, <1>16, <1>17, <1>18, <1>19, <1>20 DEF PipeCallNext

\* Nothing is given to an end that was not checked.
LEMMA PeerStep ==
  ASSUME CallInv, [PipeCallNext]_callVars PROVE PeerKnown'
<1> USE DEF kept, CallInv, PipeCallTypeOK, IoAttended, PeerKnown
<1>1. CASE Opened
  BY <1>1 DEF Opened
<1>2. CASE Refused
  BY <1>2 DEF Refused, Return
<1>3. CASE OpenFails
  BY <1>3 DEF OpenFails, Return
<1>4. CASE TryAgain
  BY <1>4 DEF TryAgain
<1>5. CASE InstanceGone
  BY <1>5 DEF InstanceGone, Return
<1>6. CASE Checked
  BY <1>6 DEF Checked
<1>7. CASE Distrusted
  BY <1>7 DEF Distrusted, Return
<1>8. CASE Issue("write", "writing")
  BY <1>8 DEF Issue
<1>9. CASE Issue("read", "reading")
  BY <1>9 DEF Issue
<1>10. CASE IssueFails
  BY <1>10 DEF IssueFails, Return
<1>11. CASE Finished
  BY <1>11 DEF Finished, Return, Awaiting
<1>12. CASE FinishedBadly
  BY <1>12 DEF FinishedBadly, Return, Awaiting
<1>13. CASE CancelIo
  BY <1>13 DEF CancelIo, Awaiting
<1>14. CASE Drained
  BY <1>14 DEF Drained, Return
<1>15. CASE Completes
  BY <1>15 DEF Completes
<1>16. CASE Fails
  BY <1>16 DEF Fails
<1>17. CASE ServerLeaves
  BY <1>17 DEF ServerLeaves
<1>18. CASE NameChanges
  BY <1>18 DEF NameChanges
<1>19. CASE TimePasses
  BY <1>19 DEF TimePasses, Awaiting
<1>20. CASE UNCHANGED callVars
  BY <1>20 DEF callVars, Awaiting
<1> QED
  BY <1>1, <1>2, <1>3, <1>4, <1>5, <1>6, <1>7, <1>8, <1>9, <1>10, <1>11,
     <1>12, <1>13, <1>14, <1>15, <1>16, <1>17, <1>18, <1>19, <1>20 DEF PipeCallNext

\* The invariant of every call.
LEMMA CallInvariance == PipeCallSpec => []CallInv
<1>1. PipeCallInit => CallInv
  <2> SUFFICES ASSUME PipeCallInit PROVE CallInv
    OBVIOUS
  <2>1. CallTypes
    BY DEF PipeCallInit, CallTypes, Owners
  <2>2. ClockTypes
    BY PipeCallAssumption DEF PipeCallInit, ClockTypes
  <2>3. WaitsBounded /\ IoAttended /\ PeerKnown
    BY DEF PipeCallInit, WaitsBounded, Awaiting, IoAttended, PeerKnown
  <2> QED BY <2>1, <2>2, <2>3 DEF CallInv, PipeCallTypeOK, CallTypes, ClockTypes
<1>2. CallInv /\ [PipeCallNext]_callVars => CallInv'
  BY CallTypesStep, ClockTypesStep, WaitsStep, IoStep, PeerStep
  DEF CallInv, PipeCallTypeOK, CallTypes, ClockTypes
<1> QED BY <1>1, <1>2, PTL DEF PipeCallSpec

\* Every variable of a call keeps its type (pipe_io.py exchange).
THEOREM CallsAreTyped == PipeCallSpec => []PipeCallTypeOK
<1>1. CallInv => PipeCallTypeOK
  BY DEF CallInv
<1> QED BY CallInvariance, <1>1, PTL

\* Whatever the server does and whoever holds the name of the pipe: no wait is
\* set to end after the budget, nothing is given back that the kernel still
\* owns, and no server the check refuses is given the request (PipeClient.cpp
\* PipeCall, pipe_io.py exchange).
THEOREM CallsAreSafe == PipeCallSpec => []ExchangeSafe
<1>1. ASSUME CallInv PROVE ExchangeSafe
  <2>1. (phase = "retrying" \/ Awaiting) /\ ends > Budget => ends = elapsed
    BY <1>1, PipeCallAssumption DEF CallInv, WaitsBounded, PipeCallTypeOK
  <2>2. phase = "over" => io = "none"
    BY <1>1 DEF CallInv, IoAttended
  <2>3. checks /\ (written \/ io # "none") => peer \in Trusts(caller)
    BY <1>1 DEF CallInv, IoAttended, PeerKnown
  <2> QED BY <2>1, <2>2, <2>3 DEF ExchangeSafe
<1> QED BY CallInvariance, <1>1, PTL

-----------------------------------------------------------------------------
(* What changes an installation, for every set of tasks. Which step of its  *)
(* action the registrar is in says what the scheduler still believes, what  *)
(* may still run again and whether the tasks are all there.                 *)

\* The place in an action is one of its steps.
StepTaken == action # "none" => nth \in 1..Len(Steps[action])

\* The scheduler knows of nothing but its tasks; what was signalled is alive.
SchedulerKnows ==
  believed \subseteq tasks /\ failed \subseteq tasks /\ doomed \subseteq processes

\* Every declared task stays registered, or is about to be.
NoneMissing ==
  /\ installed => tasks = Tasks
  /\ On("register") => Tasks \ todo \subseteq tasks
  /\ action = "Unregister" => ~installed

\* A task that was stopped is neither believed to run nor run again, but for one
\* whose stop failed unseen, and for the service when the watchdog ran it
\* meanwhile.
Stopped(t) ==
  t \in believed \cup failed => (t = serviceTask /\ revived) \/ t \in unstopped

\* The step of an action that stops the tasks, and the tasks it has stopped.
Halts(a) == IF a = "Register" THEN 6 ELSE 4
StopStep == Halts(action)
StoppedSoFar ==
  IF action \notin {"Register", "Restart", "Stop"} \/ nth < StopStep THEN {}
  ELSE IF nth = StopStep THEN Tasks \ todo
  ELSE IF On("start") THEN todo ELSE Tasks
TasksStopped == \A t \in StoppedSoFar : Stopped(t)

\* Setup goes on to the files only when nothing runs and nothing will, as far as
\* it could be told.
Still == processes = {} /\ failed = {}
Lapsed == blind \/ unstopped # {}
FilesFree ==
  /\ script = "setup" /\ stage = "prepared" =>
       action \in {"none", "Stop"} /\ (action = "none" /\ ok => Still \/ Lapsed)
  /\ script = "setup" /\ stage = "copy" => action = "none" /\ (tree => Still \/ Uninformed)

\* The last report is of this machine.
Reported ==
  /\ script # "none" \/ action # "none" => verdict = "none"
  /\ verdict = "registered" => cp
  /\ verdict = "unregistered" => ~cp
  /\ verdict = "clean" /\ ~unread => \A s \in Sections : ~Present(s)

SetupInv ==
  /\ SetupTypeOK /\ StepTaken /\ SchedulerKnows /\ NoneMissing /\ TasksStopped
  /\ FilesFree /\ ~noop /\ Reported

Actions == {"Register", "Unregister", "Stop", "Restart", "Start"}

\* What each step of an action is.
StepIs(a, n) ==
  /\ Steps[a][n] = "register" <=> a = "Register" /\ n = 2
  /\ Steps[a][n] = "remove" => a = "Unregister"
  /\ Steps[a][n] = "stop" => a \in {"Register", "Restart", "Stop"} /\ n = Halts(a)
  /\ a \in {"Register", "Restart", "Stop"} /\ n = Halts(a) => Steps[a][n] = "stop"
  /\ Steps[a][n] = "start" => a \in {"Register", "Restart", "Start"} /\ n = Len(Steps[a])
  /\ Steps[a][n] = "start" /\ a # "Start" => n > Halts(a)
  /\ Steps[a][n] = "count" => a \in {"Unregister", "Stop"} /\ n = Len(Steps[a])
  /\ a = "Stop" /\ n = Len(Steps[a]) => Steps[a][n] = "count" /\ n > Halts(a)

LEMMA StepTable ==
  /\ DOMAIN Steps = Actions
  /\ \A a \in Actions : Len(Steps[a]) \in 1..9
  /\ \A a \in Actions, n \in 1..9 : n <= Len(Steps[a]) => StepIs(a, n)
<1>1. /\ DOMAIN Steps = Actions
      /\ Steps["Register"] = <<"plan", "register", "orphans", "ask", "await", "stop",
                               "kill", "wait", "start">>
      /\ Steps["Unregister"] = <<"plan", "ask", "await", "kill", "wait", "remove",
                                 "kill", "wait", "count">>
      /\ Steps["Stop"] = <<"plan", "ask", "await", "stop", "kill", "wait", "count">>
      /\ Steps["Restart"] = <<"plan", "ask", "await", "stop", "kill", "wait", "start">>
      /\ Steps["Start"] = <<"plan", "start">>
  BY DEF Steps, Actions
<1>2. \A n \in 1..9 : n = 1 \/ n = 2 \/ n = 3 \/ n = 4 \/ n = 5 \/ n = 6 \/ n = 7
                      \/ n = 8 \/ n = 9
  OBVIOUS
<1>3. Len(Steps["Register"]) = 9 /\ \A n \in 1..9 : n <= 9 => StepIs("Register", n)
  BY <1>1, <1>2 DEF StepIs, Halts
<1>4. Len(Steps["Unregister"]) = 9 /\ \A n \in 1..9 : n <= 9 => StepIs("Unregister", n)
  BY <1>1, <1>2 DEF StepIs, Halts
<1>5. Len(Steps["Stop"]) = 7 /\ \A n \in 1..9 : n <= 7 => StepIs("Stop", n)
  BY <1>1, <1>2 DEF StepIs, Halts
<1>6. Len(Steps["Restart"]) = 7 /\ \A n \in 1..9 : n <= 7 => StepIs("Restart", n)
  BY <1>1, <1>2 DEF StepIs, Halts
<1>7. Len(Steps["Start"]) = 2 /\ \A n \in 1..9 : n <= 2 => StepIs("Start", n)
  BY <1>1, <1>2 DEF StepIs, Halts
<1>8. \A a \in Actions : Len(Steps[a]) \in 1..9
  BY <1>3, <1>4, <1>5, <1>6, <1>7 DEF Actions
<1>9. \A a \in Actions, n \in 1..9 : n <= Len(Steps[a]) => StepIs(a, n)
  BY <1>3, <1>4, <1>5, <1>6, <1>7 DEF Actions
<1> QED BY <1>1, <1>8, <1>9

LEMMA AdminActions == \A a \in DOMAIN Steps : a \in Actions
  BY StepTable

LastOf(a) == Len(Steps[a])

\* An action goes on to its next step, or it ends.
Goes == action' = action /\ nth' = nth + 1 /\ todo' = Tasks /\ ok' = ok
Finishes == action' = "none" /\ nth' = 1 /\ todo' = {}

LEMMA PlaceFacts ==
  ASSUME SetupTypeOK, StepTaken, action # "none"
  PROVE  /\ action \in Actions /\ nth \in Nat /\ LastOf(action) \in Nat
         /\ 1 <= nth /\ nth <= LastOf(action) /\ LastOf(action) <= 9
<1>1. action \in Actions /\ Len(Steps[action]) \in 1..9
  BY StepTable DEF SetupTypeOK
<1> DEFINE last == Len(Steps[action])
<1>2. nth \in 1..last
  BY DEF StepTaken
<1>3. last \in 1..9
  BY <1>1
<1> HIDE DEF last
<1>4. nth \in Nat /\ last \in Nat /\ 1 <= nth /\ nth <= last /\ last <= 9
  BY <1>2, <1>3
<1> QED BY <1>1, <1>4 DEF LastOf, last

LEMMA ProceedFacts ==
  ASSUME SetupTypeOK, StepTaken, action # "none", Proceed
  PROVE  \/ Goes /\ nth + 1 <= LastOf(action)
         \/ Finishes /\ ok' \in BOOLEAN /\ nth = LastOf(action)
<1>1. CASE nth < Len(Steps[action])
  <2>1. Goes
    BY <1>1 DEF Proceed, Goes
  <2>2. nth + 1 <= LastOf(action)
    <3>1. nth < LastOf(action)
      BY <1>1 DEF LastOf
    <3> QED BY <3>1, PlaceFacts
  <2> QED BY <2>1, <2>2
<1>2. CASE ~(nth < Len(Steps[action]))
  <2>1. Finishes
    BY <1>2 DEF Proceed, Exit, Finishes
  <2>2. ok' \in BOOLEAN
    BY <1>2 DEF Proceed, Exit
  <2>3. nth = LastOf(action)
    <3>1. ~(nth < LastOf(action))
      BY <1>2 DEF LastOf
    <3> QED BY <3>1, PlaceFacts
  <2> QED BY <2>1, <2>2, <2>3
<1> QED BY <1>1, <1>2

\* Every step of the registrar's is one of three.
Loops == \E t \in todo : Loop(t)

LEMMA RegistrarMoves ==
  ASSUME SetupTypeOK, StepTaken, Registrar
  PROVE  /\ action # "none"
         /\ Loops \/ Finishes \/ (Goes /\ nth + 1 <= LastOf(action))
         /\ ok' \in BOOLEAN
<1>1. action # "none"
  BY DEF Registrar, Plans, Registers, RemovesOrphans, Asks, Awaits, StopsTasks, Kills,
    Waits,
         Removes, Counts, StartsTasks, On
<1>2. Loops \/ Proceed \/ \E c \in {0, 1} : Exit(c)
  BY DEF Registrar, Plans, Registers, RemovesOrphans, Asks, Awaits, StopsTasks, Kills,
    Waits,
         Removes, Counts, StartsTasks, PlanFails, Loops
<1>3. ok \in BOOLEAN
  BY DEF SetupTypeOK
<1>4. CASE Loops
  BY <1>1, <1>3, <1>4 DEF Loops, Loop
<1>5. CASE Proceed
  <2>1. ok' \in BOOLEAN
    BY <1>1, <1>3, <1>5, ProceedFacts DEF Goes
  <2> QED BY <1>1, <1>5, <2>1, ProceedFacts
<1>6. ASSUME NEW c \in {0, 1}, Exit(c) PROVE Finishes /\ ok' \in BOOLEAN
  BY <1>6 DEF Exit, Finishes
<1> QED BY <1>1, <1>2, <1>4, <1>5, <1>6

\* Two kinds of types: what runs and what is registered, and the scripts.
MachineTypes ==
  /\ tasks \subseteq Tasks /\ believed \subseteq Tasks /\ processes \subseteq Tasks
  /\ failed \subseteq Restartable /\ doomed \subseteq Tasks /\ unstopped \subseteq Tasks

FlagTypes ==
  /\ layout \in {"Installed", "Dev"}
  /\ {orphan, paused, tree, gate, cp, ok, installed, revived, unread, noop, blind}
       \subseteq BOOLEAN

ScriptTypes ==
  /\ todo \subseteq Tasks /\ action \in {"none"} \cup DOMAIN Steps /\ nth \in 1..9
  /\ script \in {"none", "setup", "remover", "uninstall"}
  /\ verdict \in {"none", "registered", "unregistered", "clean", "incomplete"}

\* The machine keeps its types.
LEMMA MachineTypesStep ==
  ASSUME SetupInv, [SetupNext]_setupVars PROVE MachineTypes'
<1> USE SetupAssumption DEF machineVars, scriptVars, setupHistory, site, lapses, Heeded,
  outside, theRest, noCall, SetupInv, SetupTypeOK, SchedulerKnows, MachineTypes
<1>1. ASSUME NEW t \in Tasks, ProcessEnds(t) PROVE MachineTypes'
  BY <1>1 DEF ProcessEnds
<1>2. ASSUME NEW t \in Tasks, RunAgain(t) PROVE MachineTypes'
  BY <1>2 DEF RunAgain, RunTask
<1>3. ASSUME NEW t \in Tasks, DoomedDies(t) PROVE MachineTypes'
  BY <1>3 DEF DoomedDies
<1>4. CASE WatchdogRuns
  BY <1>4 DEF WatchdogRuns, RunTask
<1>5. CASE PauseExpires
  BY <1>5 DEF PauseExpires
<1>6. CASE MachineRestarts
  BY <1>6 DEF MachineRestarts, Forget
<1>7. CASE Plans
  BY <1>7 DEF Plans, PlanFails, Exit
<1>8. CASE Registers
  BY <1>8 DEF Registers, Loop, Exit
<1>9. CASE RemovesOrphans
  BY <1>9 DEF RemovesOrphans
<1>10. CASE Asks
  BY <1>10 DEF Asks
<1>11. CASE Awaits
  BY <1>11 DEF Awaits
<1>12. CASE StopsTasks
  BY <1>12 DEF StopsTasks, Loop
<1>13. CASE Kills
  BY <1>13 DEF Kills
<1>14. CASE Waits
  BY <1>14 DEF Waits
<1>15. CASE Removes
  BY <1>15 DEF Removes, Loop
<1>16. CASE Counts
  BY <1>16 DEF Counts, Exit
<1>17. CASE StartsTasks
  BY <1>17 DEF StartsTasks, RunTask, Loop
<1>18. ASSUME NEW a \in Actions, AdminRuns(a) PROVE MachineTypes'
  BY <1>18 DEF AdminRuns, Calls, Forget, Quiet
<1>19. ASSUME NEW want \in BOOLEAN, AdminRegistersCp(want) PROVE MachineTypes'
  BY <1>19 DEF AdminRegistersCp, RegisterCp, CpRefused, Forget, Quiet
<1>20. CASE SetupStarts
  BY <1>20 DEF SetupStarts, Forget, PrepareAction, Calls, Quiet
<1>21. CASE SetupPrepared
  BY <1>21 DEF SetupPrepared, In, Quits
<1>22. CASE SetupCopies
  BY <1>22 DEF SetupCopies, In, Quits
<1>23. CASE SetupRegisters
  BY <1>23 DEF SetupRegisters, In, Calls
<1>24. CASE SetupEnds
  BY <1>24 DEF SetupEnds, In, Quits
<1>25. CASE RemoverStarts
  BY <1>25 DEF RemoverStarts, Forget, Calls, Quiet
<1>26. CASE RemoverRemoves
  BY <1>26 DEF RemoverRemoves, In, Quits
<1>27. CASE UninstallStarts
  BY <1>27 DEF UninstallStarts, Forget, Calls, Quiet
<1>28. CASE UninstallsCp
  BY <1>28 DEF UninstallsCp, In
<1>29. CASE UninstallsTrees
  BY <1>29 DEF UninstallsTrees, In
<1>30. CASE UninstallVerifies
  BY <1>30 DEF UninstallVerifies, In, Quits
<1>31. CASE UNCHANGED setupVars
  BY <1>31 DEF setupVars
<1> QED
  BY ONLY [SetupNext]_setupVars, <1>1, <1>2, <1>3, <1>4, <1>5, <1>6, <1>7, <1>8, <1>9,
    <1>10,
     <1>11, <1>12, <1>13, <1>14, <1>15, <1>16, <1>17, <1>18, <1>19, <1>20,
     <1>21, <1>22, <1>23, <1>24, <1>25, <1>26, <1>27, <1>28, <1>29, <1>30,
     <1>31, AdminActions
  DEF SetupNext, Registrar

\* The flags stay flags.
LEMMA FlagTypesStep ==
  ASSUME SetupInv, [SetupNext]_setupVars PROVE FlagTypes'
<1> USE DEF machineVars, scriptVars, setupHistory, site, lapses, Heeded,
  outside, theRest, noCall, SetupInv,
  SetupTypeOK, FlagTypes
<1>0. Registrar => ok' \in BOOLEAN
  BY RegistrarMoves
<1>1. ASSUME NEW t \in Tasks, ProcessEnds(t) PROVE FlagTypes'
  BY <1>1 DEF ProcessEnds
<1>2. ASSUME NEW t \in Tasks, RunAgain(t) PROVE FlagTypes'
  BY <1>2 DEF RunAgain, RunTask
<1>3. ASSUME NEW t \in Tasks, DoomedDies(t) PROVE FlagTypes'
  BY <1>3 DEF DoomedDies
<1>4. CASE WatchdogRuns
  BY <1>4 DEF WatchdogRuns, RunTask
<1>5. CASE PauseExpires
  BY <1>5 DEF PauseExpires
<1>6. CASE MachineRestarts
  BY <1>6 DEF MachineRestarts, Forget
<1>7. CASE Plans
  BY <1>0, <1>7 DEF Registrar, Plans, Loop
<1>8. CASE Registers
  BY <1>0, <1>8 DEF Registrar, Registers, Loop
<1>9. CASE RemovesOrphans
  BY <1>0, <1>9 DEF Registrar, RemovesOrphans, Loop
<1>10. CASE Asks
  BY <1>0, <1>10 DEF Registrar, Asks, Loop
<1>11. CASE Awaits
  BY <1>0, <1>11 DEF Registrar, Awaits, Loop
<1>12. CASE StopsTasks
  BY <1>0, <1>12 DEF Registrar, StopsTasks, Loop
<1>13. CASE Kills
  BY <1>0, <1>13 DEF Registrar, Kills, Loop
<1>14. CASE Waits
  BY <1>0, <1>14 DEF Registrar, Waits, Loop
<1>15. CASE Removes
  BY <1>0, <1>15 DEF Registrar, Removes, Loop
<1>16. CASE Counts
  BY <1>0, <1>16 DEF Registrar, Counts, Loop
<1>17. CASE StartsTasks
  BY <1>0, <1>17 DEF Registrar, StartsTasks, Loop
<1>18. ASSUME NEW a \in Actions, AdminRuns(a) PROVE FlagTypes'
  BY <1>18 DEF AdminRuns, Calls, Forget, Quiet
<1>19. ASSUME NEW want \in BOOLEAN, AdminRegistersCp(want) PROVE FlagTypes'
  BY <1>19 DEF AdminRegistersCp, RegisterCp, CpRefused, Forget, Quiet
<1>20. CASE SetupStarts
  BY <1>20 DEF SetupStarts, Forget, PrepareAction, Calls, Quiet
<1>21. CASE SetupPrepared
  BY <1>21 DEF SetupPrepared, In, Quits
<1>22. CASE SetupCopies
  BY <1>22 DEF SetupCopies, In, Quits
<1>23. CASE SetupRegisters
  BY <1>23 DEF SetupRegisters, In, Calls
<1>24. CASE SetupEnds
  BY <1>24 DEF SetupEnds, In, Quits
<1>25. CASE RemoverStarts
  BY <1>25 DEF RemoverStarts, Forget, Calls, Quiet
<1>26. CASE RemoverRemoves
  BY <1>26 DEF RemoverRemoves, In, Quits
<1>27. CASE UninstallStarts
  BY <1>27 DEF UninstallStarts, Forget, Calls, Quiet
<1>28. CASE UninstallsCp
  BY <1>28 DEF UninstallsCp, In
<1>29. CASE UninstallsTrees
  BY <1>29 DEF UninstallsTrees, In
<1>30. CASE UninstallVerifies
  BY <1>30 DEF UninstallVerifies, In, Quits
<1>31. CASE UNCHANGED setupVars
  BY <1>31 DEF setupVars
<1> QED
  BY ONLY [SetupNext]_setupVars, <1>1, <1>2, <1>3, <1>4, <1>5, <1>6, <1>7, <1>8, <1>9,
    <1>10,
     <1>11, <1>12, <1>13, <1>14, <1>15, <1>16, <1>17, <1>18, <1>19, <1>20,
     <1>21, <1>22, <1>23, <1>24, <1>25, <1>26, <1>27, <1>28, <1>29, <1>30,
     <1>31, AdminActions
  DEF SetupNext, Registrar

\* The scripts keep their types.
LEMMA ScriptTypesStep ==
  ASSUME SetupInv, [SetupNext]_setupVars PROVE ScriptTypes'
<1> USE SetupAssumption, StepTable DEF machineVars, scriptVars, setupHistory, outside,
  theRest, noCall, SetupInv, SetupTypeOK, ScriptTypes, Actions
<1>1. ASSUME NEW t \in Tasks, ProcessEnds(t) PROVE ScriptTypes'
  BY <1>1 DEF ProcessEnds
<1>2. ASSUME NEW t \in Tasks, RunAgain(t) PROVE ScriptTypes'
  BY <1>2 DEF RunAgain
<1>3. ASSUME NEW t \in Tasks, DoomedDies(t) PROVE ScriptTypes'
  BY <1>3 DEF DoomedDies
<1>4. CASE WatchdogRuns
  BY <1>4 DEF WatchdogRuns
<1>5. CASE PauseExpires
  BY <1>5 DEF PauseExpires
<1>6. CASE MachineRestarts
  BY <1>6 DEF MachineRestarts, Forget
<1>7. ASSUME NEW a \in Actions, AdminRuns(a) PROVE ScriptTypes'
  BY <1>7 DEF AdminRuns, Calls, Forget, Quiet
<1>8. ASSUME NEW want \in BOOLEAN, AdminRegistersCp(want) PROVE ScriptTypes'
  BY <1>8 DEF AdminRegistersCp, RegisterCp, CpRefused, Forget, Quiet
<1>9. CASE SetupStarts
  BY <1>9 DEF SetupStarts, Forget, PrepareAction, Calls, Quiet
<1>10. CASE SetupPrepared
  BY <1>10 DEF SetupPrepared, In, Quits
<1>11. CASE SetupCopies
  BY <1>11 DEF SetupCopies, In, Quits
<1>12. CASE SetupRegisters
  BY <1>12 DEF SetupRegisters, In, Calls
<1>13. CASE SetupEnds
  BY <1>13 DEF SetupEnds, In, Quits
<1>14. CASE RemoverStarts
  BY <1>14 DEF RemoverStarts, Forget, Calls, Quiet
<1>15. CASE RemoverRemoves
  BY <1>15 DEF RemoverRemoves, In, Quits
<1>16. CASE UninstallStarts
  BY <1>16 DEF UninstallStarts, Forget, Calls, Quiet
<1>17. CASE UninstallsCp
  BY <1>17 DEF UninstallsCp, In
<1>18. CASE UninstallsTrees
  BY <1>18 DEF UninstallsTrees, In
<1>19. CASE UninstallVerifies
  BY <1>19 DEF UninstallVerifies, In, Quits
<1>20. CASE Registrar
  <2>1. UNCHANGED <<script, verdict>>
    BY <1>20 DEF Registrar, Plans, Registers, RemovesOrphans, Asks, Awaits, StopsTasks,
      Kills,
       Waits, Removes, Counts, StartsTasks
  <2>2. CASE Loops
    BY <2>1, <2>2 DEF Loops, Loop
  <2>3. CASE Finishes
    BY <2>1, <2>3 DEF Finishes
  <2>4. CASE Goes /\ nth + 1 <= LastOf(action)
    <3>1. nth' \in 1..9
      BY <1>20, <2>4, RegistrarMoves, PlaceFacts DEF Goes
    <3> QED BY <2>1, <2>4, <3>1 DEF Goes
  <2> QED BY <1>20, <2>2, <2>3, <2>4, RegistrarMoves
<1>21. CASE UNCHANGED setupVars
  BY <1>21 DEF setupVars
<1> QED
  BY ONLY [SetupNext]_setupVars, <1>1, <1>2, <1>3, <1>4, <1>5, <1>6, <1>7, <1>8, <1>9,
    <1>10,
     <1>11, <1>12, <1>13, <1>14, <1>15, <1>16, <1>17, <1>18, <1>19, <1>20,
     <1>21, AdminActions
  DEF SetupNext

\* Every place an action reaches is one of its steps.
LEMMA StepTakenStep ==
  ASSUME SetupInv, [SetupNext]_setupVars PROVE StepTaken'
<1> USE DEF machineVars, scriptVars, setupHistory, site, lapses, Heeded,
  outside, theRest, noCall, SetupInv,
  StepTaken
<1>0. ASSUME NEW a \in Actions PROVE 1 \in 1..Len(Steps[a])
  <2> DEFINE last == Len(Steps[a])
  <2>1. last \in 1..9
    BY StepTable
  <2> HIDE DEF last
  <2>2. 1 \in 1..last
    BY <2>1
  <2> QED BY <2>2 DEF last
<1>1. ASSUME NEW t \in Tasks, ProcessEnds(t) PROVE StepTaken'
  BY <1>1 DEF ProcessEnds
<1>2. ASSUME NEW t \in Tasks, RunAgain(t) PROVE StepTaken'
  BY <1>2 DEF RunAgain
<1>3. ASSUME NEW t \in Tasks, DoomedDies(t) PROVE StepTaken'
  BY <1>3 DEF DoomedDies
<1>4. CASE WatchdogRuns
  BY <1>4 DEF WatchdogRuns
<1>5. CASE PauseExpires
  BY <1>5 DEF PauseExpires
<1>6. CASE MachineRestarts
  BY <1>6 DEF MachineRestarts, Forget
<1>7. ASSUME NEW a \in Actions, AdminRuns(a) PROVE StepTaken'
  <2>1. (action' \in Actions /\ nth' = 1) \/ UNCHANGED <<action, nth>>
    BY <1>7 DEF AdminRuns, Calls, PrepareAction, Actions
  <2>2. CASE action' \in Actions /\ nth' = 1
    BY <1>0, <2>2
  <2>3. CASE UNCHANGED <<action, nth>>
    BY <2>3
  <2> QED BY <2>1, <2>2, <2>3
<1>8. ASSUME NEW want \in BOOLEAN, AdminRegistersCp(want) PROVE StepTaken'
  BY <1>8 DEF AdminRegistersCp, RegisterCp, CpRefused, Forget, Quiet
<1>9. CASE SetupStarts
  <2>1. (action' \in Actions /\ nth' = 1) \/ UNCHANGED <<action, nth>>
    BY <1>9 DEF SetupStarts, Calls, PrepareAction, Actions
  <2>2. CASE action' \in Actions /\ nth' = 1
    BY <1>0, <2>2
  <2>3. CASE UNCHANGED <<action, nth>>
    BY <2>3
  <2> QED BY <2>1, <2>2, <2>3
<1>10. CASE SetupPrepared
  BY <1>10 DEF SetupPrepared, In, Quits
<1>11. CASE SetupCopies
  BY <1>11 DEF SetupCopies, In, Quits
<1>12. CASE SetupRegisters
  <2>1. (action' \in Actions /\ nth' = 1) \/ UNCHANGED <<action, nth>>
    BY <1>12 DEF SetupRegisters, Calls, PrepareAction, Actions
  <2>2. CASE action' \in Actions /\ nth' = 1
    BY <1>0, <2>2
  <2>3. CASE UNCHANGED <<action, nth>>
    BY <2>3
  <2> QED BY <2>1, <2>2, <2>3
<1>13. CASE SetupEnds
  BY <1>13 DEF SetupEnds, In, Quits
<1>14. CASE RemoverStarts
  <2>1. (action' \in Actions /\ nth' = 1) \/ UNCHANGED <<action, nth>>
    BY <1>14 DEF RemoverStarts, Calls, PrepareAction, Actions
  <2>2. CASE action' \in Actions /\ nth' = 1
    BY <1>0, <2>2
  <2>3. CASE UNCHANGED <<action, nth>>
    BY <2>3
  <2> QED BY <2>1, <2>2, <2>3
<1>15. CASE RemoverRemoves
  BY <1>15 DEF RemoverRemoves, In, Quits
<1>16. CASE UninstallStarts
  <2>1. (action' \in Actions /\ nth' = 1) \/ UNCHANGED <<action, nth>>
    BY <1>16 DEF UninstallStarts, Calls, PrepareAction, Actions
  <2>2. CASE action' \in Actions /\ nth' = 1
    BY <1>0, <2>2
  <2>3. CASE UNCHANGED <<action, nth>>
    BY <2>3
  <2> QED BY <2>1, <2>2, <2>3
<1>17. CASE UninstallsCp
  BY <1>17 DEF UninstallsCp, In
<1>18. CASE UninstallsTrees
  BY <1>18 DEF UninstallsTrees, In
<1>19. CASE UninstallVerifies
  BY <1>19 DEF UninstallVerifies, In, Quits
<1>20. CASE Registrar
  <2>1. CASE Loops
    BY <2>1 DEF Loops, Loop
  <2>2. CASE Finishes
    BY <2>2 DEF Finishes
  <2>3. CASE Goes /\ nth + 1 <= LastOf(action)
    <3>1. nth + 1 \in 1..LastOf(action)
      BY <1>20, <2>3, RegistrarMoves, PlaceFacts
    <3> QED BY <2>3, <3>1 DEF Goes, LastOf
  <2> QED BY <1>20, <2>1, <2>2, <2>3, RegistrarMoves
<1>21. CASE UNCHANGED setupVars
  BY <1>21 DEF setupVars
<1> QED
  BY ONLY [SetupNext]_setupVars, <1>1, <1>2, <1>3, <1>4, <1>5, <1>6, <1>7, <1>8, <1>9,
    <1>10,
     <1>11, <1>12, <1>13, <1>14, <1>15, <1>16, <1>17, <1>18, <1>19, <1>20,
     <1>21, AdminActions
  DEF SetupNext

\* The scheduler knows of no other task.
LEMMA SchedulerStep ==
  ASSUME SetupInv, [SetupNext]_setupVars PROVE SchedulerKnows'
<1> USE DEF machineVars, scriptVars, setupHistory, site, lapses, Heeded,
  outside, theRest, noCall, SetupInv,
  SchedulerKnows
<1>1. ASSUME NEW t \in Tasks, ProcessEnds(t) PROVE SchedulerKnows'
  BY <1>1 DEF ProcessEnds
<1>2. ASSUME NEW t \in Tasks, RunAgain(t) PROVE SchedulerKnows'
  BY <1>2 DEF RunAgain, RunTask
<1>3. ASSUME NEW t \in Tasks, DoomedDies(t) PROVE SchedulerKnows'
  BY <1>3 DEF DoomedDies
<1>4. CASE WatchdogRuns
  BY <1>4 DEF WatchdogRuns, RunTask
<1>5. CASE PauseExpires
  BY <1>5 DEF PauseExpires
<1>6. CASE MachineRestarts
  BY <1>6 DEF MachineRestarts, Forget
<1>7. CASE Plans
  BY <1>7 DEF Plans, PlanFails, Exit
<1>8. CASE Registers
  BY <1>8 DEF Registers, Loop, Exit
<1>9. CASE RemovesOrphans
  BY <1>9 DEF RemovesOrphans
<1>10. CASE Asks
  BY <1>10 DEF Asks
<1>11. CASE Awaits
  BY <1>11 DEF Awaits
<1>12. CASE StopsTasks
  BY <1>12 DEF StopsTasks, Loop
<1>13. CASE Kills
  BY <1>13 DEF Kills
<1>14. CASE Waits
  BY <1>14 DEF Waits
<1>15. CASE Removes
  BY <1>15 DEF Removes, Loop
<1>16. CASE Counts
  BY <1>16 DEF Counts, Exit
<1>17. CASE StartsTasks
  BY <1>17 DEF StartsTasks, RunTask, Loop
<1>18. ASSUME NEW a \in Actions, AdminRuns(a) PROVE SchedulerKnows'
  BY <1>18 DEF AdminRuns, Calls, Forget, Quiet
<1>19. ASSUME NEW want \in BOOLEAN, AdminRegistersCp(want) PROVE SchedulerKnows'
  BY <1>19 DEF AdminRegistersCp, RegisterCp, CpRefused, Forget, Quiet
<1>20. CASE SetupStarts
  BY <1>20 DEF SetupStarts, Forget, PrepareAction, Calls, Quiet
<1>21. CASE SetupPrepared
  BY <1>21 DEF SetupPrepared, In, Quits
<1>22. CASE SetupCopies
  BY <1>22 DEF SetupCopies, In, Quits
<1>23. CASE SetupRegisters
  BY <1>23 DEF SetupRegisters, In, Calls
<1>24. CASE SetupEnds
  BY <1>24 DEF SetupEnds, In, Quits
<1>25. CASE RemoverStarts
  BY <1>25 DEF RemoverStarts, Forget, Calls, Quiet
<1>26. CASE RemoverRemoves
  BY <1>26 DEF RemoverRemoves, In, Quits
<1>27. CASE UninstallStarts
  BY <1>27 DEF UninstallStarts, Forget, Calls, Quiet
<1>28. CASE UninstallsCp
  BY <1>28 DEF UninstallsCp, In
<1>29. CASE UninstallsTrees
  BY <1>29 DEF UninstallsTrees, In
<1>30. CASE UninstallVerifies
  BY <1>30 DEF UninstallVerifies, In, Quits
<1>31. CASE UNCHANGED setupVars
  BY <1>31 DEF setupVars
<1> QED
  BY ONLY [SetupNext]_setupVars, <1>1, <1>2, <1>3, <1>4, <1>5, <1>6, <1>7, <1>8, <1>9,
    <1>10,
     <1>11, <1>12, <1>13, <1>14, <1>15, <1>16, <1>17, <1>18, <1>19, <1>20,
     <1>21, <1>22, <1>23, <1>24, <1>25, <1>26, <1>27, <1>28, <1>29, <1>30,
     <1>31, AdminActions
  DEF SetupNext, Registrar

\* A step of the registrar's that neither registers nor removes keeps them.
LEMMA NoneMissingAside ==
  ASSUME SetupTypeOK, StepTaken, NoneMissing, Registrar, ~On("register"),
         UNCHANGED <<tasks, installed>>
  PROVE  NoneMissing'
<1>1. CASE Loops
  BY <1>1 DEF Loops, Loop, NoneMissing, On
<1>2. CASE Finishes
  BY <1>2 DEF Finishes, NoneMissing, On
<1>3. CASE Goes
  BY <1>3 DEF Goes, NoneMissing, On
<1> QED BY <1>1, <1>2, <1>3, RegistrarMoves

\* No declared task goes missing.
LEMMA NoneMissingStep ==
  ASSUME SetupInv, [SetupNext]_setupVars PROVE NoneMissing'
<1> USE DEF machineVars, scriptVars, setupHistory, site, lapses, Heeded,
  outside, theRest, noCall, SetupInv,
  NoneMissing, On
<1>1. ASSUME NEW t \in Tasks, ProcessEnds(t) PROVE NoneMissing'
  BY <1>1 DEF ProcessEnds
<1>2. ASSUME NEW t \in Tasks, RunAgain(t) PROVE NoneMissing'
  BY <1>2 DEF RunAgain
<1>3. ASSUME NEW t \in Tasks, DoomedDies(t) PROVE NoneMissing'
  BY <1>3 DEF DoomedDies
<1>4. CASE WatchdogRuns
  BY <1>4 DEF WatchdogRuns
<1>5. CASE PauseExpires
  BY <1>5 DEF PauseExpires
<1>6. CASE MachineRestarts
  BY <1>6 DEF MachineRestarts, Forget
<1>7. CASE Plans
  <2>1. ~On("register") /\ UNCHANGED <<tasks, installed>> /\ Registrar
    BY <1>7 DEF Plans, On, Registrar
  <2> QED BY ONLY SetupTypeOK, StepTaken, NoneMissing, <2>1, NoneMissingAside
<1>8. CASE Registers
  <2>1. action = "Register" /\ nth = 2 /\ Steps["Register"][2] = "register"
    BY <1>8, StepTable, PlaceFacts DEF Registers, LastOf, StepIs
  <2>2. Loops \/ Finishes \/ Goes
    BY <1>8, RegistrarMoves DEF Registrar
  <2>3. CASE Loops
    <3>1. PICK t \in todo : tasks' = tasks \cup {t} /\ Loop(t)
      BY <1>8, <2>1, <2>3 DEF Registers, Loops, Loop, Exit
    <3> QED BY <1>8, <2>1, <3>1 DEF Registers, Loop, SetupTypeOK
  <2>4. CASE Finishes
    BY <1>8, <2>1, <2>4 DEF Registers, Finishes, Loop, SetupTypeOK
  <2>5. CASE Goes
    BY <1>8, <2>1, <2>5 DEF Registers, Goes, Loop, Exit, SetupTypeOK
  <2> QED BY <2>2, <2>3, <2>4, <2>5
<1>9. CASE RemovesOrphans
  <2>1. ~On("register") /\ UNCHANGED <<tasks, installed>> /\ Registrar
    BY <1>9 DEF RemovesOrphans, On, Registrar
  <2> QED BY ONLY SetupTypeOK, StepTaken, NoneMissing, <2>1, NoneMissingAside
<1>10. CASE Asks
  <2>1. ~On("register") /\ UNCHANGED <<tasks, installed>> /\ Registrar
    BY <1>10 DEF Asks, On, Registrar
  <2> QED BY ONLY SetupTypeOK, StepTaken, NoneMissing, <2>1, NoneMissingAside
<1>11. CASE Awaits
  <2>1. ~On("register") /\ UNCHANGED <<tasks, installed>> /\ Registrar
    BY <1>11 DEF Awaits, On, Registrar
  <2> QED BY ONLY SetupTypeOK, StepTaken, NoneMissing, <2>1, NoneMissingAside
<1>12. CASE StopsTasks
  <2>1. ~On("register") /\ UNCHANGED <<tasks, installed>> /\ Registrar
    BY <1>12 DEF StopsTasks, On, Registrar
  <2> QED BY ONLY SetupTypeOK, StepTaken, NoneMissing, <2>1, NoneMissingAside
<1>13. CASE Kills
  <2>1. ~On("register") /\ UNCHANGED <<tasks, installed>> /\ Registrar
    BY <1>13 DEF Kills, On, Registrar
  <2> QED BY ONLY SetupTypeOK, StepTaken, NoneMissing, <2>1, NoneMissingAside
<1>14. CASE Waits
  <2>1. ~On("register") /\ UNCHANGED <<tasks, installed>> /\ Registrar
    BY <1>14 DEF Waits, On, Registrar
  <2> QED BY ONLY SetupTypeOK, StepTaken, NoneMissing, <2>1, NoneMissingAside
<1>15. CASE Removes
  <2>1. action = "Unregister"
    <3>1. action \in Actions /\ nth \in 1..9 /\ nth <= Len(Steps[action])
      BY <1>15, PlaceFacts DEF Removes, LastOf, SetupTypeOK
    <3>2. Steps[action][nth] = "remove"
      BY <1>15 DEF Removes
    <3> QED BY <3>1, <3>2, StepTable DEF StepIs
  <2>2. ~installed /\ ~installed'
    BY <1>15, <2>1 DEF Removes
  <2>3. Loops \/ Finishes \/ Goes
    BY <1>15, RegistrarMoves DEF Registrar
  <2>4. ~On("register")
    BY <2>1, StepTable, PlaceFacts DEF LastOf, StepIs
  <2>5. CASE Loops
    BY <2>1, <2>2, <2>4, <2>5 DEF Loops, Loop
  <2>6. CASE Finishes
    BY <2>2, <2>6 DEF Finishes
  <2>7. CASE Goes
    BY <2>1, <2>2, <2>7 DEF Goes
  <2> QED BY <2>3, <2>5, <2>6, <2>7
<1>16. CASE Counts
  <2>1. ~On("register") /\ UNCHANGED <<tasks, installed>> /\ Registrar
    BY <1>16 DEF Counts, On, Registrar
  <2> QED BY ONLY SetupTypeOK, StepTaken, NoneMissing, <2>1, NoneMissingAside
<1>17. CASE StartsTasks
  <2>1. ~On("register") /\ UNCHANGED <<tasks, installed>> /\ Registrar
    BY <1>17 DEF StartsTasks, On, Registrar
  <2> QED BY ONLY SetupTypeOK, StepTaken, NoneMissing, <2>1, NoneMissingAside
<1>18. ASSUME NEW a \in Actions, AdminRuns(a) PROVE NoneMissing'
  BY <1>18 DEF AdminRuns, Calls, Forget, Quiet
<1>19. ASSUME NEW want \in BOOLEAN, AdminRegistersCp(want) PROVE NoneMissing'
  BY <1>19 DEF AdminRegistersCp, RegisterCp, CpRefused, Forget, Quiet
<1>20. CASE SetupStarts
  BY <1>20 DEF SetupStarts, Forget, PrepareAction, Calls, Quiet
<1>21. CASE SetupPrepared
  BY <1>21 DEF SetupPrepared, In, Quits
<1>22. CASE SetupCopies
  BY <1>22 DEF SetupCopies, In, Quits
<1>23. CASE SetupRegisters
  BY <1>23 DEF SetupRegisters, In, Calls
<1>24. CASE SetupEnds
  BY <1>24 DEF SetupEnds, In, Quits
<1>25. CASE RemoverStarts
  BY <1>25 DEF RemoverStarts, Forget, Calls, Quiet
<1>26. CASE RemoverRemoves
  BY <1>26 DEF RemoverRemoves, In, Quits
<1>27. CASE UninstallStarts
  BY <1>27 DEF UninstallStarts, Forget, Calls, Quiet
<1>28. CASE UninstallsCp
  BY <1>28 DEF UninstallsCp, In
<1>29. CASE UninstallsTrees
  BY <1>29 DEF UninstallsTrees, In
<1>30. CASE UninstallVerifies
  BY <1>30 DEF UninstallVerifies, In, Quits
<1>31. CASE UNCHANGED setupVars
  BY <1>31 DEF setupVars
<1> QED
  BY ONLY [SetupNext]_setupVars, <1>1, <1>2, <1>3, <1>4, <1>5, <1>6, <1>7, <1>8, <1>9,
    <1>10,
     <1>11, <1>12, <1>13, <1>14, <1>15, <1>16, <1>17, <1>18, <1>19, <1>20,
     <1>21, <1>22, <1>23, <1>24, <1>25, <1>26, <1>27, <1>28, <1>29, <1>30,
     <1>31, AdminActions
  DEF SetupNext, Registrar

\* Where in an action the tasks are stopped and started.
LEMMA StopPlaces ==
  ASSUME SetupTypeOK, StepTaken, action # "none"
  PROVE  /\ On("stop") => StoppedSoFar = Tasks \ todo
         /\ On("start") /\ action # "Start" => StoppedSoFar = todo
         /\ action \in {"Register", "Restart", "Stop"} /\ nth = StopStep => On("stop")
         /\ On("start") => nth = LastOf(action)
         /\ On("count") => nth = LastOf(action) /\ action \in {"Unregister", "Stop"}
         /\ action = "Stop" /\ nth = LastOf(action) => On("count") /\ StoppedSoFar = Tasks
         /\ action = "Stop" => ~On("start") /\ ~On("remove") /\ ~On("register")
<1>1. /\ action \in Actions /\ nth \in 1..9 /\ nth <= Len(Steps[action])
      /\ nth \in Nat /\ StopStep \in Nat
  BY PlaceFacts DEF LastOf, SetupTypeOK, StopStep, Halts
<1> StepIs(action, nth)
  BY <1>1, StepTable
<1>2. On("stop") => action \in {"Register", "Restart", "Stop"} /\ nth = StopStep
  BY <1>1 DEF On, StopStep, StepIs
<1>3. On("start") /\ action # "Start" =>
        action \in {"Register", "Restart", "Stop"} /\ nth # StopStep /\ ~(nth < StopStep)
  BY <1>1 DEF On, StopStep, StepIs
<1>4. action \in {"Register", "Restart", "Stop"} /\ nth = StopStep => On("stop")
  BY <1>1 DEF On, StopStep, StepIs
<1>5. On("start") => nth = LastOf(action)
  BY <1>1 DEF On, LastOf, StepIs
<1>6. On("count") => nth = LastOf(action) /\ action \in {"Unregister", "Stop"}
  BY <1>1 DEF On, LastOf, StepIs
<1>7. action = "Stop" => ~On("start") /\ ~On("remove") /\ ~On("register")
  BY <1>1 DEF On, StepIs
<1>8. action = "Stop" /\ nth = LastOf(action) =>
        On("count") /\ ~(nth < StopStep) /\ nth # StopStep
  BY <1>1 DEF On, LastOf, StopStep, StepIs
<1>9. On("stop") => StoppedSoFar = Tasks \ todo
  BY <1>1, <1>2 DEF StoppedSoFar
<1>10. On("start") /\ action # "Start" => StoppedSoFar = todo
  BY <1>3 DEF StoppedSoFar
<1>11. action = "Stop" /\ nth = LastOf(action) => StoppedSoFar = Tasks
  BY <1>7, <1>8 DEF StoppedSoFar
<1> QED BY <1>4, <1>5, <1>6, <1>7, <1>8, <1>9, <1>10, <1>11

\* The tasks stopped so far when an action goes on, goes round, ends or begins.
LEMMA StoppedGoes ==
  ASSUME SetupTypeOK, StepTaken, action # "none", Goes, nth + 1 <= LastOf(action),
         On("stop") => todo = {}
  PROVE  StoppedSoFar' \subseteq StoppedSoFar
<1>1. /\ action' = action /\ todo' = Tasks /\ nth' = nth + 1 /\ StopStep' = StopStep
      /\ nth \in Nat /\ StopStep \in Nat
  BY PlaceFacts DEF Goes, StopStep, Halts
<1>2. StoppedSoFar' \subseteq Tasks
  BY <1>1, SetupAssumption DEF StoppedSoFar
<1>3. CASE action \notin {"Register", "Restart", "Stop"}
  BY <1>1, <1>3 DEF StoppedSoFar
<1>4. CASE action \in {"Register", "Restart", "Stop"} /\ nth + 1 < StopStep
  BY <1>1, <1>4 DEF StoppedSoFar
<1>5. CASE action \in {"Register", "Restart", "Stop"} /\ nth + 1 = StopStep
  BY <1>1, <1>5 DEF StoppedSoFar
<1>6. CASE action \in {"Register", "Restart", "Stop"} /\ nth = StopStep
  BY <1>2, <1>6, StopPlaces
<1>7. CASE action \in {"Register", "Restart", "Stop"} /\ nth > StopStep
  <2>1. ~On("start")
    BY <1>1, StopPlaces, PlaceFacts
  <2>2. ~(nth < StopStep) /\ nth # StopStep
    BY <1>1, <1>7
  <2>3. StoppedSoFar = Tasks
    BY <1>7, <2>1, <2>2 DEF StoppedSoFar
  <2> QED BY <1>2, <2>3
<1>8. nth + 1 < StopStep \/ nth + 1 = StopStep \/ nth = StopStep \/ nth > StopStep
  BY <1>1
<1> QED BY <1>3, <1>4, <1>5, <1>6, <1>7, <1>8

LEMMA StoppedLoops ==
  ASSUME SetupTypeOK, StepTaken, action # "none", NEW t \in todo, Loop(t)
  PROVE  /\ StoppedSoFar' \subseteq StoppedSoFar \cup {t}
         /\ ~On("stop") => StoppedSoFar' \subseteq StoppedSoFar
         /\ On("start") => StoppedSoFar' \subseteq StoppedSoFar \ {t}
<1>1. /\ action' = action /\ nth' = nth /\ todo' = todo \ {t} /\ StopStep' = StopStep
      /\ (On("start"))' = On("start")
  BY DEF Loop, StopStep, On
<1>2. StoppedSoFar' \subseteq StoppedSoFar \cup {t}
  BY <1>1 DEF StoppedSoFar
<1>3. ~On("stop") => StoppedSoFar' \subseteq StoppedSoFar
  BY <1>1, StopPlaces DEF StoppedSoFar
<1>4. On("start") /\ action = "Start" => StoppedSoFar' = {}
  BY <1>1 DEF StoppedSoFar
<1>5. On("start") => StoppedSoFar' \subseteq todo'
  <2>1. ASSUME On("start"), action \in {"Register", "Restart", "Stop"} PROVE nth # StopStep
    BY <2>1, StopPlaces, PlaceFacts DEF On
  <2> QED BY <1>1, <2>1 DEF StoppedSoFar
<1>6. On("start") => StoppedSoFar' \subseteq StoppedSoFar \ {t}
  BY <1>1, <1>4, <1>5, StopPlaces
<1> QED BY <1>2, <1>3, <1>6

LEMMA StoppedEnds == ASSUME action' = "none" PROVE StoppedSoFar' = {}
  BY DEF StoppedSoFar

LEMMA StoppedBegins == ASSUME nth' = 1 PROVE StoppedSoFar' = {}
  BY DEF StoppedSoFar, StopStep, Halts

\* A step of the registrar's that neither stops nor starts one keeps them stopped.
LEMMA StoppedAside ==
  ASSUME SetupTypeOK, StepTaken, TasksStopped, Registrar, ~On("stop"),
         believed' \subseteq believed, failed' \subseteq failed,
         UNCHANGED <<revived, unstopped>> \/ action' = "none"
  PROVE  TasksStopped'
<1>1. CASE action' = "none"
  BY <1>1, StoppedEnds DEF TasksStopped
<1>2. CASE UNCHANGED <<revived, unstopped>>
  <2>1. StoppedSoFar' \subseteq StoppedSoFar
    BY RegistrarMoves, StoppedGoes, StoppedLoops, StoppedEnds DEF Finishes, Loops
  <2> QED BY <1>2, <2>1 DEF TasksStopped, Stopped
<1> QED BY <1>1, <1>2

\* What was stopped stays stopped.
LEMMA TasksStoppedStep ==
  ASSUME SetupInv, [SetupNext]_setupVars PROVE TasksStopped'
<1> USE DEF machineVars, scriptVars, setupHistory, site, lapses, Heeded,
  outside, theRest, noCall, SetupInv
<1>1. ASSUME NEW t \in Tasks, ProcessEnds(t) PROVE TasksStopped'
  BY <1>1, SetupAssumption DEF ProcessEnds, SetupTypeOK, TasksStopped, Stopped,
    StoppedSoFar, StopStep, On
<1>2. ASSUME NEW t \in Tasks, RunAgain(t) PROVE TasksStopped'
  BY <1>2, SetupAssumption DEF RunAgain, RunTask, SetupTypeOK, TasksStopped, Stopped,
    StoppedSoFar, StopStep, On
<1>3. ASSUME NEW t \in Tasks, DoomedDies(t) PROVE TasksStopped'
  BY <1>3, SetupAssumption DEF DoomedDies, SetupTypeOK, TasksStopped, Stopped,
    StoppedSoFar, StopStep, On
<1>4. CASE WatchdogRuns
  BY <1>4, SetupAssumption DEF WatchdogRuns, RunTask, SetupTypeOK, TasksStopped,
    Stopped, StoppedSoFar, StopStep, On
<1>5. CASE PauseExpires
  BY <1>5, SetupAssumption DEF PauseExpires, SetupTypeOK, TasksStopped, Stopped,
    StoppedSoFar, StopStep, On
<1>6. CASE MachineRestarts
  <2>1. action' = "none"
    BY <1>6 DEF MachineRestarts
  <2> QED BY <2>1, StoppedEnds DEF TasksStopped
<1>7. CASE Plans
  <2>1. Registrar /\ ~On("stop")
    BY <1>7 DEF Registrar, Plans, On
  <2>2. /\ believed' \subseteq believed /\ failed' \subseteq failed
        /\ UNCHANGED <<revived, unstopped>> \/ action' = "none"
    BY <1>7 DEF Plans
  <2> QED BY ONLY SetupTypeOK, StepTaken, TasksStopped, <2>1, <2>2, StoppedAside
<1>8. CASE Registers
  <2>1. Registrar /\ ~On("stop")
    BY <1>8 DEF Registrar, Registers, On
  <2>2. /\ believed' \subseteq believed /\ failed' \subseteq failed
        /\ UNCHANGED <<revived, unstopped>> \/ action' = "none"
    BY <1>8 DEF Registers
  <2> QED BY ONLY SetupTypeOK, StepTaken, TasksStopped, <2>1, <2>2, StoppedAside
<1>9. CASE RemovesOrphans
  <2>1. Registrar /\ ~On("stop")
    BY <1>9 DEF Registrar, RemovesOrphans, On
  <2>2. /\ believed' \subseteq believed /\ failed' \subseteq failed
        /\ UNCHANGED <<revived, unstopped>> \/ action' = "none"
    BY <1>9 DEF RemovesOrphans
  <2> QED BY ONLY SetupTypeOK, StepTaken, TasksStopped, <2>1, <2>2, StoppedAside
<1>10. CASE Asks
  <2>1. Registrar /\ ~On("stop")
    BY <1>10 DEF Registrar, Asks, On
  <2>2. /\ believed' \subseteq believed /\ failed' \subseteq failed
        /\ UNCHANGED <<revived, unstopped>> \/ action' = "none"
    BY <1>10 DEF Asks
  <2> QED BY ONLY SetupTypeOK, StepTaken, TasksStopped, <2>1, <2>2, StoppedAside
<1>11. CASE Awaits
  <2>1. Registrar /\ ~On("stop")
    BY <1>11 DEF Registrar, Awaits, On
  <2>2. /\ believed' \subseteq believed /\ failed' \subseteq failed
        /\ UNCHANGED <<revived, unstopped>> \/ action' = "none"
    BY <1>11 DEF Awaits
  <2> QED BY ONLY SetupTypeOK, StepTaken, TasksStopped, <2>1, <2>2, StoppedAside
<1>12. CASE StopsTasks
  <2>1. action # "none" /\ On("stop") /\ Registrar
    BY <1>12 DEF StopsTasks, On, Registrar
  <2>2. ASSUME NEW t \in todo, Loop(t), failed' = failed \ {t},
               believed' = (IF t \in tasks THEN believed \ {t} ELSE believed),
               revived' = (revived /\ t # serviceTask), unstopped' = unstopped
        PROVE  TasksStopped'
    <3>1. StoppedSoFar' \subseteq StoppedSoFar \cup {t}
      BY <2>1, <2>2, StoppedLoops
    <3>2. /\ t \notin believed' \cup failed'
          /\ believed' \subseteq believed /\ failed' \subseteq failed
      BY <2>2 DEF SchedulerKnows
    <3> QED BY <2>2, <3>1, <3>2 DEF TasksStopped, Stopped
  <2>3. CASE todo = {} /\ UNCHANGED <<failed, believed, revived, unstopped>>
    <3>1. StoppedSoFar' \subseteq StoppedSoFar
      BY <2>1, <2>3, RegistrarMoves, StoppedGoes, StoppedEnds DEF Finishes, Loops
    <3> QED BY <2>3, <3>1 DEF TasksStopped, Stopped
  <2>4. ASSUME NEW t \in todo, Loop(t), unstopped' = unstopped \cup {t},
               UNCHANGED <<failed, believed, revived>>
        PROVE  TasksStopped'
    <3>1. StoppedSoFar' \subseteq StoppedSoFar \cup {t}
      BY <2>1, <2>4, StoppedLoops
    <3> QED BY <2>4, <3>1 DEF TasksStopped, Stopped
  <2> QED BY <1>12, <2>2, <2>3, <2>4 DEF StopsTasks
<1>13. CASE Kills
  <2>1. Registrar /\ ~On("stop")
    BY <1>13 DEF Registrar, Kills, On
  <2>2. /\ believed' \subseteq believed /\ failed' \subseteq failed
        /\ UNCHANGED <<revived, unstopped>> \/ action' = "none"
    BY <1>13 DEF Kills
  <2> QED BY ONLY SetupTypeOK, StepTaken, TasksStopped, <2>1, <2>2, StoppedAside
<1>14. CASE Waits
  <2>1. Registrar /\ ~On("stop")
    BY <1>14 DEF Registrar, Waits, On
  <2>2. /\ believed' \subseteq believed /\ failed' \subseteq failed
        /\ UNCHANGED <<revived, unstopped>> \/ action' = "none"
    BY <1>14 DEF Waits
  <2> QED BY ONLY SetupTypeOK, StepTaken, TasksStopped, <2>1, <2>2, StoppedAside
<1>15. CASE Removes
  <2>1. Registrar /\ ~On("stop")
    BY <1>15 DEF Registrar, Removes, On
  <2>2. /\ believed' \subseteq believed /\ failed' \subseteq failed
        /\ UNCHANGED <<revived, unstopped>> \/ action' = "none"
    BY <1>15 DEF Removes
  <2> QED BY ONLY SetupTypeOK, StepTaken, TasksStopped, <2>1, <2>2, StoppedAside
<1>16. CASE Counts
  <2>1. Registrar /\ ~On("stop")
    BY <1>16 DEF Registrar, Counts, On
  <2>2. /\ believed' \subseteq believed /\ failed' \subseteq failed
        /\ UNCHANGED <<revived, unstopped>> \/ action' = "none"
    BY <1>16 DEF Counts, Exit
  <2> QED BY ONLY SetupTypeOK, StepTaken, TasksStopped, <2>1, <2>2, StoppedAside
<1>17. CASE StartsTasks
  <2>1. action # "none" /\ On("start") /\ ~On("stop") /\ Registrar
    BY <1>17 DEF StartsTasks, On, Registrar
  <2>2. ASSUME NEW t \in todo, Loop(t), RunTask(t) \/ UNCHANGED <<processes, believed>>,
               UNCHANGED <<failed, revived, unstopped>>
        PROVE  TasksStopped'
    <3>1. StoppedSoFar' \subseteq StoppedSoFar \ {t}
      BY <2>1, <2>2, StoppedLoops
    <3>2. believed' \subseteq believed \cup {t}
      BY <2>2 DEF RunTask
    <3> QED BY <2>2, <3>1, <3>2 DEF TasksStopped, Stopped
  <2>3. CASE todo = {} /\ Proceed
    <3>1. action' = "none"
      BY <2>1, <2>3, ProceedFacts, StopPlaces, PlaceFacts DEF Finishes
    <3> QED BY <3>1, StoppedEnds DEF TasksStopped
  <2> QED BY <1>17, <2>2, <2>3 DEF StartsTasks
<1>18. ASSUME NEW a \in Actions, AdminRuns(a) PROVE TasksStopped'
  <2>1. nth' = 1
    BY <1>18 DEF AdminRuns, Calls
  <2> QED BY <2>1, StoppedBegins DEF TasksStopped
<1>19. ASSUME NEW want \in BOOLEAN, AdminRegistersCp(want) PROVE TasksStopped'
  BY <1>19, SetupAssumption DEF AdminRegistersCp, RegisterCp, CpRefused, Forget, Quiet,
    SetupTypeOK, TasksStopped, Stopped, StoppedSoFar, StopStep, On
<1>20. CASE SetupStarts
  <2>1. CASE Calls(PrepareAction)
    <3>1. nth' = 1
      BY <2>1 DEF Calls
    <3> QED BY <3>1, StoppedBegins DEF TasksStopped
  <2>2. CASE UNCHANGED noCall
    <3>1. action' = "none"
      BY <1>20, <2>2 DEF SetupStarts, Quiet
    <3> QED BY <3>1, StoppedEnds DEF TasksStopped
  <2> QED BY <1>20, <2>1, <2>2 DEF SetupStarts
<1>21. CASE SetupPrepared
  BY <1>21, SetupAssumption DEF SetupPrepared, In, Quits, SetupTypeOK, TasksStopped,
    Stopped, StoppedSoFar, StopStep, On
<1>22. CASE SetupCopies
  BY <1>22, SetupAssumption DEF SetupCopies, In, Quits, SetupTypeOK, TasksStopped,
    Stopped, StoppedSoFar, StopStep, On
<1>23. CASE SetupRegisters
  <2>1. nth' = 1
    BY <1>23 DEF SetupRegisters, Calls
  <2> QED BY <2>1, StoppedBegins DEF TasksStopped
<1>24. CASE SetupEnds
  BY <1>24, SetupAssumption DEF SetupEnds, In, Quits, SetupTypeOK, TasksStopped,
    Stopped, StoppedSoFar, StopStep, On
<1>25. CASE RemoverStarts
  <2>1. nth' = 1 \/ action' = "none"
    BY <1>25 DEF RemoverStarts, Calls, Quiet
  <2> QED BY <2>1, StoppedBegins, StoppedEnds DEF TasksStopped
<1>26. CASE RemoverRemoves
  BY <1>26, SetupAssumption DEF RemoverRemoves, In, Quits, SetupTypeOK, TasksStopped,
    Stopped, StoppedSoFar, StopStep, On
<1>27. CASE UninstallStarts
  <2>1. nth' = 1
    BY <1>27 DEF UninstallStarts, Calls
  <2> QED BY <2>1, StoppedBegins DEF TasksStopped
<1>28. CASE UninstallsCp
  BY <1>28, SetupAssumption DEF UninstallsCp, In, SetupTypeOK, TasksStopped, Stopped,
    StoppedSoFar, StopStep, On
<1>29. CASE UninstallsTrees
  BY <1>29, SetupAssumption DEF UninstallsTrees, In, SetupTypeOK, TasksStopped,
    Stopped, StoppedSoFar, StopStep, On
<1>30. CASE UninstallVerifies
  BY <1>30, SetupAssumption DEF UninstallVerifies, In, Quits, SetupTypeOK,
    TasksStopped, Stopped, StoppedSoFar, StopStep, On
<1>31. CASE UNCHANGED setupVars
  BY <1>31 DEF setupVars, TasksStopped, Stopped, StoppedSoFar, StopStep, On
<1> QED
  BY ONLY [SetupNext]_setupVars, <1>1, <1>2, <1>3, <1>4, <1>5, <1>6, <1>7, <1>8, <1>9,
    <1>10,
     <1>11, <1>12, <1>13, <1>14, <1>15, <1>16, <1>17, <1>18, <1>19, <1>20,
     <1>21, <1>22, <1>23, <1>24, <1>25, <1>26, <1>27, <1>28, <1>29, <1>30,
     <1>31, AdminActions
  DEF SetupNext, Registrar

\* A Stop goes on to its count.
LEMMA StopGoes ==
  ASSUME SetupTypeOK, StepTaken, action = "Stop", ~On("count"), Proceed
  PROVE  Goes
<1>1. action # "none"
  OBVIOUS
<1> QED BY <1>1, ProceedFacts, StopPlaces

LEMMA ExitFails == ASSUME Exit(1) PROVE ok' = FALSE /\ action' = "none"
<1>1. ok' = (1 = 0 /\ script = "setup") /\ action' = "none"
  BY DEF Exit
<1>2. (1 = 0 /\ script = "setup") = FALSE
  OBVIOUS
<1> QED BY <1>1, <1>2

\* A step of the registrar's that does not end a Stop well is no word for Setup.
LEMMA FilesAside ==
  ASSUME FilesFree, action # "none", UNCHANGED <<script, stage>>,
         action = "Stop" => Loops \/ Goes \/ (ok' = FALSE /\ action' = "none")
  PROVE  FilesFree'
<1>1. CASE script = "setup" /\ stage = "prepared"
  <2>1. action = "Stop"
    BY <1>1 DEF FilesFree
  <2>2. action' = "Stop" \/ (ok' = FALSE /\ action' = "none")
    BY <2>1 DEF Loops, Loop, Goes
  <2> QED BY <1>1, <2>2 DEF FilesFree
<1>2. CASE script = "setup" /\ stage = "copy"
  BY <1>2 DEF FilesFree
<1>3. CASE script # "setup" \/ stage \notin {"prepared", "copy"}
  BY <1>3 DEF FilesFree
<1> QED BY <1>1, <1>2, <1>3

\* Nothing runs from the files Setup writes.
LEMMA FilesFreeStep ==
  ASSUME SetupInv, [SetupNext]_setupVars PROVE FilesFree'
<1> USE DEF machineVars, scriptVars, setupHistory, site, lapses, Heeded,
  outside, theRest, noCall, SetupInv
<1>1. ASSUME NEW t \in Tasks, ProcessEnds(t) PROVE FilesFree'
  BY <1>1 DEF ProcessEnds, SchedulerKnows, FilesFree, Still,
    Lapsed, Uninformed
<1>2. ASSUME NEW t \in Tasks, RunAgain(t) PROVE FilesFree'
  BY <1>2 DEF RunAgain, RunTask, SchedulerKnows, FilesFree, Still,
    Lapsed, Uninformed
<1>3. ASSUME NEW t \in Tasks, DoomedDies(t) PROVE FilesFree'
  BY <1>3 DEF DoomedDies, SchedulerKnows, FilesFree, Still,
    Lapsed, Uninformed
<1>4. CASE WatchdogRuns
  BY <1>4 DEF WatchdogRuns, RunTask, SchedulerKnows, FilesFree, Still,
    Lapsed, Uninformed
<1>5. CASE PauseExpires
  BY <1>5 DEF PauseExpires, SchedulerKnows, FilesFree, Still,
    Lapsed, Uninformed
<1>6. CASE MachineRestarts
  BY <1>6 DEF MachineRestarts, Forget, SchedulerKnows, FilesFree, Still,
    Lapsed, Uninformed
<1>7. CASE Plans
  <2>1. action # "none" /\ UNCHANGED <<script, stage>> /\ ~On("count")
    BY <1>7 DEF Plans, On
  <2>2. CASE Proceed
    BY <2>1, <2>2, StopGoes, FilesAside
  <2>3. CASE Exit(1)
    <3>1. ok' = FALSE /\ action' = "none"
      BY <2>3, ExitFails
    <3> QED BY <2>1, <3>1, FilesAside
  <2> QED BY <1>7, <2>2, <2>3 DEF Plans, PlanFails
<1>8. CASE Registers
  <2>1. action # "none" /\ UNCHANGED <<script, stage>> /\ ~On("count")
    BY <1>8 DEF Registers, On
  <2>2. action = "Stop" => Loops \/ Goes
    BY <1>8, <2>1, StopGoes, StopPlaces DEF Registers, Loops
  <2> QED BY ONLY FilesFree, <2>1, <2>2, FilesAside
<1>9. CASE RemovesOrphans
  <2>1. action # "none" /\ UNCHANGED <<script, stage>> /\ ~On("count")
    BY <1>9 DEF RemovesOrphans, On
  <2>2. action = "Stop" => Loops \/ Goes
    BY <1>9, <2>1, StopGoes DEF RemovesOrphans, Loops
  <2> QED BY ONLY FilesFree, <2>1, <2>2, FilesAside
<1>10. CASE Asks
  <2>1. action # "none" /\ UNCHANGED <<script, stage>> /\ ~On("count")
    BY <1>10 DEF Asks, On
  <2>2. action = "Stop" => Loops \/ Goes
    BY <1>10, <2>1, StopGoes DEF Asks, Loops
  <2> QED BY ONLY FilesFree, <2>1, <2>2, FilesAside
<1>11. CASE Awaits
  <2>1. action # "none" /\ UNCHANGED <<script, stage>> /\ ~On("count")
    BY <1>11 DEF Awaits, On
  <2>2. action = "Stop" => Loops \/ Goes
    BY <1>11, <2>1, StopGoes DEF Awaits, Loops
  <2> QED BY ONLY FilesFree, <2>1, <2>2, FilesAside
<1>12. CASE StopsTasks
  <2>1. action # "none" /\ UNCHANGED <<script, stage>> /\ ~On("count")
    BY <1>12 DEF StopsTasks, On
  <2>2. action = "Stop" => Loops \/ Goes
    BY <1>12, <2>1, StopGoes DEF StopsTasks, Loops
  <2> QED BY ONLY FilesFree, <2>1, <2>2, FilesAside
<1>13. CASE Kills
  <2>1. action # "none" /\ UNCHANGED <<script, stage>> /\ ~On("count")
    BY <1>13 DEF Kills, On
  <2>2. action = "Stop" => Loops \/ Goes
    BY <1>13, <2>1, StopGoes DEF Kills, Loops
  <2> QED BY ONLY FilesFree, <2>1, <2>2, FilesAside
<1>14. CASE Waits
  <2>1. action # "none" /\ UNCHANGED <<script, stage>> /\ ~On("count")
    BY <1>14 DEF Waits, On
  <2>2. action = "Stop" => Loops \/ Goes
    BY <1>14, <2>1, StopGoes DEF Waits, Loops
  <2> QED BY ONLY FilesFree, <2>1, <2>2, FilesAside
<1>15. CASE Removes
  <2>1. action # "none" /\ UNCHANGED <<script, stage>> /\ ~On("count")
    BY <1>15 DEF Removes, On
  <2>2. action = "Stop" => Loops \/ Goes
    BY <1>15, <2>1, StopGoes, StopPlaces DEF Removes, Loops
  <2> QED BY ONLY FilesFree, <2>1, <2>2, FilesAside
<1>16. CASE Counts
  <2>1. /\ action # "none" /\ On("count") /\ UNCHANGED <<script, stage, processes, failed>>
        /\ action' = "none"
        /\ script = "setup" => unstopped' = unstopped /\ (ok' => processes = {} \/ blind')
    <3>1. CASE processes = {}
      BY <1>16, <3>1 DEF Counts, On, Exit
    <3>2. CASE processes # {} /\ Exit(1)
      <4>1. ok' = FALSE
        BY <3>2, ExitFails
      <4> QED BY <1>16, <3>2, <4>1 DEF Counts, On, Exit
    <3>3. CASE Exit(0) /\ blind' = (script = "setup")
      BY <1>16, <3>3 DEF Counts, On, Exit
    <3> QED BY <1>16, <3>1, <3>2, <3>3 DEF Counts
  <2>2. action = "Stop" => failed = {} \/ unstopped # {}
    <3>1. action = "Stop" => StoppedSoFar = Tasks
      BY <2>1, StopPlaces
    <3> QED BY <3>1, SetupAssumption DEF TasksStopped, Stopped, SetupTypeOK
  <2> QED BY <2>1, <2>2 DEF FilesFree, Still, Lapsed
<1>17. CASE StartsTasks
  <2>1. action # "none" /\ UNCHANGED <<script, stage>> /\ ~On("count")
    BY <1>17 DEF StartsTasks, On
  <2>2. action = "Stop" => Loops \/ Goes
    BY <1>17, <2>1, StopGoes DEF StartsTasks, Loops
  <2> QED BY ONLY FilesFree, <2>1, <2>2, FilesAside
<1>18. ASSUME NEW a \in Actions, AdminRuns(a) PROVE FilesFree'
  BY <1>18 DEF AdminRuns, Calls, Forget, Quiet, SchedulerKnows, FilesFree, Still,
    Lapsed, Uninformed
<1>19. ASSUME NEW want \in BOOLEAN, AdminRegistersCp(want) PROVE FilesFree'
  BY <1>19 DEF AdminRegistersCp, RegisterCp, CpRefused, Forget, Quiet, SchedulerKnows,
    FilesFree, Still,
    Lapsed, Uninformed
<1>20. CASE SetupStarts
  BY <1>20 DEF SetupStarts, Forget, PrepareAction, Calls, Quiet, SchedulerKnows,
    FilesFree, Still,
    Lapsed, Uninformed
<1>21. CASE SetupPrepared
  BY <1>21 DEF SetupPrepared, In, Quits, SchedulerKnows, FilesFree, Still,
    Lapsed, Uninformed
<1>22. CASE SetupCopies
  BY <1>22 DEF SetupCopies, In, Quits, SchedulerKnows, FilesFree, Still,
    Lapsed, Uninformed
<1>23. CASE SetupRegisters
  BY <1>23 DEF SetupRegisters, In, Calls, SchedulerKnows, FilesFree, Still,
    Lapsed, Uninformed
<1>24. CASE SetupEnds
  BY <1>24 DEF SetupEnds, In, Quits, SchedulerKnows, FilesFree, Still,
    Lapsed, Uninformed
<1>25. CASE RemoverStarts
  BY <1>25 DEF RemoverStarts, Forget, Calls, Quiet, SchedulerKnows, FilesFree, Still,
    Lapsed, Uninformed
<1>26. CASE RemoverRemoves
  BY <1>26 DEF RemoverRemoves, In, Quits, SchedulerKnows, FilesFree, Still,
    Lapsed, Uninformed
<1>27. CASE UninstallStarts
  BY <1>27 DEF UninstallStarts, Forget, Calls, Quiet, SchedulerKnows, FilesFree, Still,
    Lapsed, Uninformed
<1>28. CASE UninstallsCp
  BY <1>28 DEF UninstallsCp, In, SchedulerKnows, FilesFree, Still,
    Lapsed, Uninformed
<1>29. CASE UninstallsTrees
  BY <1>29 DEF UninstallsTrees, In, SchedulerKnows, FilesFree, Still,
    Lapsed, Uninformed
<1>30. CASE UninstallVerifies
  BY <1>30 DEF UninstallVerifies, In, Quits, SchedulerKnows, FilesFree, Still,
    Lapsed, Uninformed
<1>31. CASE UNCHANGED setupVars
  BY <1>31 DEF setupVars, FilesFree, Still,
    Lapsed, Uninformed
<1> QED
  BY ONLY [SetupNext]_setupVars, <1>1, <1>2, <1>3, <1>4, <1>5, <1>6, <1>7, <1>8, <1>9,
    <1>10,
     <1>11, <1>12, <1>13, <1>14, <1>15, <1>16, <1>17, <1>18, <1>19, <1>20,
     <1>21, <1>22, <1>23, <1>24, <1>25, <1>26, <1>27, <1>28, <1>29, <1>30,
     <1>31, AdminActions
  DEF SetupNext, Registrar

\* No start relies on the word of a scheduler that is wrong.
LEMMA NoopStep ==
  ASSUME SetupInv, [SetupNext]_setupVars PROVE (~noop)'
<1> USE DEF machineVars, scriptVars, setupHistory, site, lapses, Heeded,
  outside, theRest, noCall, SetupInv
<1>1. ASSUME NEW t \in Tasks, ProcessEnds(t) PROVE (~noop)'
  BY <1>1 DEF ProcessEnds
<1>2. ASSUME NEW t \in Tasks, RunAgain(t) PROVE (~noop)'
  BY <1>2 DEF RunAgain
<1>3. ASSUME NEW t \in Tasks, DoomedDies(t) PROVE (~noop)'
  BY <1>3 DEF DoomedDies
<1>4. CASE WatchdogRuns
  BY <1>4 DEF WatchdogRuns
<1>5. CASE PauseExpires
  BY <1>5 DEF PauseExpires
<1>6. CASE MachineRestarts
  BY <1>6 DEF MachineRestarts, Forget
<1>7. CASE Plans
  BY <1>7 DEF Plans, PlanFails, Exit
<1>8. CASE Registers
  BY <1>8 DEF Registers, Exit
<1>9. CASE RemovesOrphans
  BY <1>9 DEF RemovesOrphans
<1>10. CASE Asks
  BY <1>10 DEF Asks
<1>11. CASE Awaits
  BY <1>11 DEF Awaits
<1>12. CASE StopsTasks
  BY <1>12 DEF StopsTasks
<1>13. CASE Kills
  BY <1>13 DEF Kills
<1>14. CASE Waits
  BY <1>14 DEF Waits
<1>15. CASE Removes
  BY <1>15 DEF Removes
<1>16. CASE Counts
  BY <1>16 DEF Counts, Exit
<1>17. CASE StartsTasks
  <2>1. action # "none" /\ On("start")
    BY <1>17 DEF StartsTasks, On
  <2>2. ASSUME NEW t \in todo, t \in believed, action # "Start"
        PROVE  (t = serviceTask /\ revived) \/ t \in unstopped
    BY <2>1, <2>2, StopPlaces DEF TasksStopped, Stopped
  <2> QED BY <1>17, <2>2 DEF StartsTasks
<1>18. ASSUME NEW a \in Actions, AdminRuns(a) PROVE (~noop)'
  BY <1>18 DEF AdminRuns, Forget, Quiet
<1>19. ASSUME NEW want \in BOOLEAN, AdminRegistersCp(want) PROVE (~noop)'
  BY <1>19 DEF AdminRegistersCp, RegisterCp, CpRefused, Forget, Quiet
<1>20. CASE SetupStarts
  BY <1>20 DEF SetupStarts, Forget, PrepareAction, Quiet
<1>21. CASE SetupPrepared
  BY <1>21 DEF SetupPrepared, In, Quits
<1>22. CASE SetupCopies
  BY <1>22 DEF SetupCopies, In, Quits
<1>23. CASE SetupRegisters
  BY <1>23 DEF SetupRegisters, In
<1>24. CASE SetupEnds
  BY <1>24 DEF SetupEnds, In, Quits
<1>25. CASE RemoverStarts
  BY <1>25 DEF RemoverStarts, Forget, Quiet
<1>26. CASE RemoverRemoves
  BY <1>26 DEF RemoverRemoves, In, Quits
<1>27. CASE UninstallStarts
  BY <1>27 DEF UninstallStarts, Forget, Quiet
<1>28. CASE UninstallsCp
  BY <1>28 DEF UninstallsCp, In
<1>29. CASE UninstallsTrees
  BY <1>29 DEF UninstallsTrees, In
<1>30. CASE UninstallVerifies
  BY <1>30 DEF UninstallVerifies, In, Quits
<1>31. CASE UNCHANGED setupVars
  BY <1>31 DEF setupVars
<1> QED
  BY ONLY [SetupNext]_setupVars, <1>1, <1>2, <1>3, <1>4, <1>5, <1>6, <1>7, <1>8, <1>9,
    <1>10,
     <1>11, <1>12, <1>13, <1>14, <1>15, <1>16, <1>17, <1>18, <1>19, <1>20,
     <1>21, <1>22, <1>23, <1>24, <1>25, <1>26, <1>27, <1>28, <1>29, <1>30,
     <1>31, AdminActions
  DEF SetupNext, Registrar

\* A report is of the machine as it is.
LEMMA ReportedStep ==
  ASSUME SetupInv, [SetupNext]_setupVars PROVE Reported'
<1> USE DEF machineVars, scriptVars, setupHistory, site, lapses, Heeded,
  outside, theRest, noCall, SetupInv,
  Reported, Present, Sections
<1>1. ASSUME NEW t \in Tasks, ProcessEnds(t) PROVE Reported'
  BY <1>1 DEF ProcessEnds
<1>2. ASSUME NEW t \in Tasks, RunAgain(t) PROVE Reported'
  BY <1>2 DEF RunAgain
<1>3. ASSUME NEW t \in Tasks, DoomedDies(t) PROVE Reported'
  BY <1>3 DEF DoomedDies
<1>4. CASE WatchdogRuns
  BY <1>4 DEF WatchdogRuns
<1>5. CASE PauseExpires
  BY <1>5 DEF PauseExpires
<1>6. CASE MachineRestarts
  BY <1>6 DEF MachineRestarts, Forget
<1>7. ASSUME NEW a \in Actions, AdminRuns(a) PROVE Reported'
  BY <1>7 DEF AdminRuns, Calls, Forget, Quiet
<1>8. ASSUME NEW want \in BOOLEAN, AdminRegistersCp(want) PROVE Reported'
  BY <1>8 DEF AdminRegistersCp, RegisterCp, CpRefused, Forget, Quiet
<1>9. CASE SetupStarts
  BY <1>9 DEF SetupStarts, Forget, PrepareAction, Calls, Quiet
<1>10. CASE SetupPrepared
  BY <1>10 DEF SetupPrepared, In, Quits
<1>11. CASE SetupCopies
  BY <1>11 DEF SetupCopies, In, Quits
<1>12. CASE SetupRegisters
  BY <1>12 DEF SetupRegisters, In, Calls
<1>13. CASE SetupEnds
  BY <1>13 DEF SetupEnds, In, Quits
<1>14. CASE RemoverStarts
  BY <1>14 DEF RemoverStarts, Forget, Calls, Quiet
<1>15. CASE RemoverRemoves
  BY <1>15 DEF RemoverRemoves, In, Quits
<1>16. CASE UninstallStarts
  BY <1>16 DEF UninstallStarts, Forget, Calls, Quiet
<1>17. CASE UninstallsCp
  BY <1>17 DEF UninstallsCp, In
<1>18. CASE UninstallsTrees
  BY <1>18 DEF UninstallsTrees, In
<1>19. CASE UninstallVerifies
  <2>1. UNCHANGED <<tasks, orphan, cp, tree>> /\ script' = "none" /\ action' = "none"
    BY <1>19 DEF UninstallVerifies, In, Quits
  <2>2. verdict' \in {"clean", "incomplete"}
    BY <1>19 DEF UninstallVerifies
  <2>3. ASSUME verdict' = "clean", ~unread' PROVE \A s \in Sections : ~Present(s)
    <3>1. PICK missed \in SUBSET Sections :
            /\ unread' = (missed # {})
            /\ verdict' = IF Left(missed) = {} THEN "clean" ELSE "incomplete"
      BY <1>19 DEF UninstallVerifies
    <3>2. missed = {} /\ Left(missed) = {}
      BY <2>3, <3>1
    <3> QED BY ONLY <3>2 DEF Left
  <2> QED BY <2>1, <2>2, <2>3
<1>20. CASE Registrar
  <2>1. verdict' = "none"
    BY <1>20, RegistrarMoves DEF Registrar, Plans, Registers, RemovesOrphans, Asks,
      Awaits,
       StopsTasks, Kills, Waits, Removes, Counts, StartsTasks
  <2> QED BY <2>1
<1>21. CASE UNCHANGED setupVars
  BY <1>21 DEF setupVars
<1> QED
  BY ONLY [SetupNext]_setupVars, <1>1, <1>2, <1>3, <1>4, <1>5, <1>6, <1>7, <1>8, <1>9,
    <1>10,
     <1>11, <1>12, <1>13, <1>14, <1>15, <1>16, <1>17, <1>18, <1>19, <1>20,
     <1>21, AdminActions
  DEF SetupNext

\* The invariant of every installation.
LEMMA SetupInvariance == SetupSpec => []SetupInv
<1>1. SetupInit => SetupInv
  <2> SUFFICES ASSUME SetupInit PROVE SetupInv
    OBVIOUS
  <2>1. MachineTypes /\ ScriptTypes
    BY SetupAssumption DEF SetupInit, MachineTypes, ScriptTypes
  <2>2. FlagTypes
    BY DEF SetupInit, FlagTypes
  <2>3. StepTaken /\ SchedulerKnows /\ FilesFree /\ ~noop
    BY DEF SetupInit, StepTaken, SchedulerKnows, FilesFree
  <2>4. NoneMissing
    BY DEF SetupInit, NoneMissing, On
  <2>5. TasksStopped
    BY DEF SetupInit, TasksStopped, StoppedSoFar
  <2>6. Reported
    BY DEF SetupInit, Reported
  <2> QED BY <2>1, <2>2, <2>3, <2>4, <2>5, <2>6
          DEF SetupInv, SetupTypeOK, MachineTypes, FlagTypes, ScriptTypes
<1>2. SetupInv /\ [SetupNext]_setupVars => SetupInv'
  BY MachineTypesStep, FlagTypesStep, ScriptTypesStep, StepTakenStep, SchedulerStep,
     NoneMissingStep, TasksStoppedStep, FilesFreeStep, NoopStep, ReportedStep
  DEF SetupInv, SetupTypeOK, MachineTypes, FlagTypes, ScriptTypes
<1> QED BY <1>1, <1>2, PTL DEF SetupSpec

\* Machine, scripts and registrar keep their types, for any set of tasks
\* (register_tasks.ps1).
THEOREM InstallationTyped == SetupSpec => []SetupTypeOK
<1>1. SetupInv => SetupTypeOK
  BY DEF SetupInv
<1> QED BY SetupInvariance, <1>1, PTL

\* A registration that went through lasts until someone asks for its removal,
\* whatever fails, restarts or is given up in between (register_tasks.ps1,
\* tasks.psd1).
THEOREM TasksStay == SetupSpec => []TasksKept
<1>1. SetupInv => TasksKept
  BY DEF SetupInv, NoneMissing, TasksKept
<1> QED BY SetupInvariance, <1>1, PTL

\* Exit codes and reports are true of the machine, and Setup writes over no file
\* of a running process, but where a registrar that is gone, a list of processes
\* that cannot be read or a stop that fails leaves it Uninformed, whatever the
\* order of scripts, deaths and restarts (register_tasks.ps1, uninstall.ps1,
\* register.ps1, installer.iss).
THEOREM ReportsAreTrue == SetupSpec => []VerdictsTrue
<1>1. SetupInv => VerdictsTrue
  BY DEF SetupInv, FilesFree, Still, Reported, VerdictsTrue
<1> QED BY SetupInvariance, <1>1, PTL

\* An installation keeps its tasks, and what is said of it is so, with the
\* exceptions ReportsAreTrue names.
THEOREM InstallationKept == SetupSpec => []SetupKept
  BY TasksStay, ReportsAreTrue, PTL DEF SetupKept

-----------------------------------------------------------------------------
(***************************************************************************)
(* ConfigFile, for any number of edits by hand. The invariant says what a  *)
(* save that nobody disturbed holds at every step: its own text is what    *)
(* config.toml.tmp says, and of the settings it does not change its draft  *)
(* says what the user meant.                                               *)
(***************************************************************************)

\* The settings this save is about.
Chosen(w) == IF w = "window" THEN touched ELSE {"language"}

\* A save whose text may be mixed with the other's knows that it was disturbed.
MixedMoved(w) == mixed[w] => saving[w] = "open" /\ moved[w]

\* An undisturbed one replaces the file by its own text.
SpareOwn(w) == (saving[w] = "written" /\ ~moved[w]) => spare = Whole(draft[w])

\* It keeps the settings it is not about.
RestMeant(w) ==
  (saving[w] # "idle" /\ ~moved[w] /\ excused = {}) =>
     \A n \in Names \ Chosen(w) : draft[w][n] = meant[n]

SavesSound ==
  \A w \in Savers : MixedMoved(w) /\ SpareOwn(w) /\ RestMeant(w)
ConfigInv == ConfigFileTypeOK /\ SavesSound /\ ConfigKept

\* Settings are functions of their names, and With mixes two of them.
LEMMA SettingsMix ==
  /\ Defaults \in Settings
  /\ \A c, d \in Settings :
       /\ \A N : With(d, c, N) \in Settings
       /\ (\A n \in Names : d[n] = c[n]) => d = c
  /\ \A d \in Settings, b \in BOOLEAN :
       With(d, [language |-> b], {"language"}) \in Settings
  /\ \A d, c, N : \A n \in Names : With(d, c, N)[n] = IF n \in N THEN c[n] ELSE d[n]
  /\ \A d \in Settings, n \in Names : [d EXCEPT ![n] = ~d[n]] \in Settings
<1>1. Defaults \in Settings
  BY DEF Settings, Defaults
<1>2. ASSUME NEW c \in Settings, NEW d \in Settings
      PROVE  /\ \A N : With(d, c, N) \in Settings
             /\ (\A n \in Names : d[n] = c[n]) => d = c
  BY DEF Settings, With, Names
<1>3. ASSUME NEW d \in Settings, NEW b \in BOOLEAN
      PROVE  With(d, [language |-> b], {"language"}) \in Settings
  BY DEF Settings, With, Names
<1>4. \A d, c, N : \A n \in Names : With(d, c, N)[n] = IF n \in N THEN c[n] ELSE d[n]
  BY DEF With
<1>5. ASSUME NEW d \in Settings, NEW n \in Names
      PROVE  [d EXCEPT ![n] = ~d[n]] \in Settings
  BY DEF Settings, Names
<1> QED
  BY <1>1, <1>2, <1>3, <1>4, <1>5

\* The kinds of files.
LEMMA FileKinds ==
  /\ \A f \in Files :
       /\ f.kind = "whole" => f.doc \in Settings /\ f = Whole(f.doc)
       /\ f.kind = "absent" <=> f = Absent
       /\ f.kind = "torn" <=> f = Torn
  /\ \A s \in Settings : /\ Whole(s) \in Files /\ Whole(s).kind = "whole"
                         /\ Whole(s).doc = s
  /\ {Absent, Broken, Torn} \subseteq Files
  /\ Absent.kind = "absent" /\ Torn.kind = "torn" /\ Broken.kind = "broken"
BY DEF Files, Absent, Torn, Broken, Whole

\* What a load returns, and what it returns when nothing was wrong with the file.
LEMMA LoadsMeant ==
  ASSUME ConfigFileTypeOK, NEW result, Loads(result)
  PROVE  /\ result \in Settings
         /\ (ConfigKept /\ excused = {} /\ ~Misread(result)) => result = meant
<1>1. file \in Files
  BY DEF ConfigFileTypeOK
<1>2. result \in Settings
  BY <1>1, FileKinds, SettingsMix DEF Loads
<1>3. ASSUME ConfigKept, excused = {}, ~Misread(result)
      PROVE  result = meant
  <2>1. CASE file.kind = "absent"
    <3>1. file.kind # "whole"
      BY <2>1
    <3> QED
      BY <1>3, <2>1, <3>1 DEF Loads, ConfigKept
  <2>2. CASE file.kind # "absent"
    BY <1>2, <1>3, <2>2, FileKinds DEF Misread, ConfigKept
  <2> QED
    BY <2>1, <2>2
<1> QED
  BY <1>2, <1>3

\* The other of the two is the other.
LEMMA TwoSavers ==
  \A w \in Savers : Other(w) \in Savers /\ Other(w) # w
                    /\ \A v \in Savers : v = w \/ v = Other(w)
BY DEF Savers, Other

\* What a step of save() does to its own place, and to the other's.
LEMMA ReachesWhere ==
  ASSUME saving \in [Savers -> {"idle", "loaded", "open", "written"}],
         draft \in [Savers -> Settings],
         NEW w \in Savers, NEW where \in {"idle", "loaded", "open", "written"},
         Reaches(w, where)
  PROVE  /\ saving' \in [Savers -> {"idle", "loaded", "open", "written"}]
         /\ draft' \in [Savers -> Settings]
         /\ saving'[w] = where /\ (where # "idle" => draft'[w] = draft[w])
         /\ \A v \in Savers \ {w} : saving'[v] = saving[v] /\ draft'[v] = draft[v]
BY SettingsMix DEF Reaches

\* Who is disturbed, and what may be mixed, in each of the forms save() uses.
LEMMA Disturbed ==
  ASSUME {mixed, moved} \subseteq [Savers -> BOOLEAN], NEW w \in Savers
  PROVE  /\ Disturb(w) => /\ moved' \in [Savers -> BOOLEAN]
                          /\ moved'[w] = moved[w]
                          /\ \A v \in Savers \ {w} : moved'[v] = (saving[v] # "idle")
         /\ moved' = [moved EXCEPT ![w] = FALSE]
              => /\ moved' \in [Savers -> BOOLEAN] /\ ~moved'[w]
                 /\ \A v \in Savers \ {w} : moved'[v] = moved[v]
         /\ moved' = [v \in Savers |-> v # w /\ saving[v] # "idle"]
              => /\ moved' \in [Savers -> BOOLEAN] /\ ~moved'[w]
                 /\ \A v \in Savers \ {w} : moved'[v] = (saving[v] # "idle")
         /\ mixed' = [v \in Savers |-> v # w /\ saving[v] = "open"]
              => /\ mixed' \in [Savers -> BOOLEAN] /\ ~mixed'[w]
                 /\ \A v \in Savers \ {w} : mixed'[v] = (saving[v] = "open")
<1>1. \A v \in Savers \ {w} : v = Other(w)
  BY TwoSavers
<1>2. ASSUME Disturb(w)
      PROVE  /\ moved' \in [Savers -> BOOLEAN] /\ moved'[w] = moved[w]
             /\ \A v \in Savers \ {w} : moved'[v] = (saving[v] # "idle")
  BY <1>1, <1>2, TwoSavers DEF Disturb
<1> QED
  BY <1>2

\* Types, action by action.
LEMMA ConfigTypesStep ==
  ASSUME ConfigFileTypeOK, [ConfigFileNext]_configVars
  PROVE  ConfigFileTypeOK'
<1> USE DEF ConfigFileTypeOK, Savers
<1>1. ASSUME WindowReads PROVE ConfigFileTypeOK'
  <2>1. shown' \in Settings
    BY <1>1, LoadsMeant DEF WindowReads
  <2> QED
    BY <1>1, <2>1 DEF WindowReads
<1>2. ASSUME WindowChanges PROVE ConfigFileTypeOK'
  <2>1. PICK n \in Names : /\ shown' = [shown EXCEPT ![n] = ~shown[n]]
                           /\ touched' = touched \cup {n}
    BY <1>2 DEF WindowChanges
  <2>2. shown' \in Settings
    BY <2>1, SettingsMix
  <2> QED
    BY <1>2, <2>1, <2>2 DEF WindowChanges
<1>3. ASSUME WindowSaves PROVE ConfigFileTypeOK'
  <2>1. PICK result \in Settings :
         Loads(result) /\ StartsSave("window", result, shown, Names)
    BY <1>3 DEF WindowSaves
  <2>2. With(result, shown, Names) \in Settings
    BY SettingsMix
  <2> QED
    BY <1>3, <2>1, <2>2 DEF WindowSaves, StartsSave
<1>4. ASSUME MenuSaves PROVE ConfigFileTypeOK'
  <2>1. PICK result \in Settings, chosen \in BOOLEAN :
          /\ Loads(result)
          /\ StartsSave("menu", result, [language |-> chosen], {"language"})
    BY <1>4 DEF MenuSaves
  <2>2. With(result, [language |-> chosen], {"language"}) \in Settings
    BY SettingsMix
  <2> QED
    BY <1>4, <2>1, <2>2 DEF MenuSaves, StartsSave
<1>5. ASSUME NEW w \in Savers, Opens(w) PROVE ConfigFileTypeOK'
  BY <1>5, ReachesWhere, Disturbed, FileKinds DEF Opens
<1>6. ASSUME NEW w \in Savers, Writes(w) PROVE ConfigFileTypeOK'
  <2>1. draft[w] \in Settings
    OBVIOUS
  <2>2. spare' \in Files
    BY <1>6, <2>1, FileKinds DEF Writes
  <2>3. /\ saving' \in [Savers -> {"idle", "loaded", "open", "written"}]
        /\ draft' \in [Savers -> Settings]
    BY <1>6, ReachesWhere DEF Writes
  <2>4. {mixed', moved'} \subseteq [Savers -> BOOLEAN]
    BY <1>6, Disturbed DEF Writes
  <2> QED
    BY <1>6, <2>2, <2>3, <2>4 DEF Writes
<1>7. ASSUME NEW w \in Savers, Replaces(w) PROVE ConfigFileTypeOK'
  <2>1. \A N : With(meant, draft[w], N) \in Settings
    BY SettingsMix
  <2> QED
    <3>1. /\ saving' \in [Savers -> {"idle", "loaded", "open", "written"}]
          /\ draft' \in [Savers -> Settings]
      BY <1>7, ReachesWhere DEF Replaces
    <3>2. moved' \in [Savers -> BOOLEAN] /\ mixed' = mixed
      BY <1>7, Disturbed DEF Replaces
    <3>3. file' \in Files /\ spare' \in Files /\ meant' \in Settings
      BY <1>7, <2>1, FileKinds DEF Replaces
    <3>4. touched' \subseteq Names /\ excused' \subseteq {"misread", "stale", "overlap"}
      BY <1>7 DEF Replaces
    <3> QED
      BY <1>7, <3>1, <3>2, <3>3, <3>4 DEF Replaces
<1>8. ASSUME TrayDies PROVE ConfigFileTypeOK'
  BY <1>8, SettingsMix DEF TrayDies
<1>9. ASSUME EditedByHand PROVE ConfigFileTypeOK'
  BY <1>9, FileKinds, ConfigFileAssumption DEF EditedByHand
<1>10. ASSUME UNCHANGED configVars PROVE ConfigFileTypeOK'
  BY <1>10 DEF configVars
<1> QED
  BY <1>1, <1>2, <1>3, <1>4, <1>5, <1>6, <1>7, <1>8, <1>9, <1>10
  DEF ConfigFileNext

\* Each save stays sound, action by action.
LEMMA SoundStep ==
  ASSUME ConfigInv, [ConfigFileNext]_configVars, NEW v \in Savers
  PROVE  (MixedMoved(v) /\ SpareOwn(v) /\ RestMeant(v))'
<1> DEFINE Sound == MixedMoved(v) /\ SpareOwn(v) /\ RestMeant(v)
<1>0. ConfigFileTypeOK /\ ConfigKept /\ MixedMoved(v) /\ SpareOwn(v) /\ RestMeant(v)
  BY DEF ConfigInv, SavesSound
<1>t. /\ {mixed, moved} \subseteq [Savers -> BOOLEAN]
      /\ saving \in [Savers -> {"idle", "loaded", "open", "written"}]
      /\ draft \in [Savers -> Settings] /\ mixed \in [Savers -> BOOLEAN]
      /\ moved \in [Savers -> BOOLEAN] /\ meant \in Settings /\ shown \in Settings
  BY <1>0 DEF ConfigFileTypeOK
<1> USE DEF MixedMoved, SpareOwn, RestMeant
<1>1. ASSUME \/ WindowReads \/ WindowChanges
      PROVE  Sound'
  BY <1>0, <1>1 DEF WindowReads, WindowChanges, Chosen
<1>3. ASSUME WindowSaves PROVE Sound'
  <2>1. PICK result \in Settings :
          /\ Loads(result) /\ StartsSave("window", result, shown, Names)
          /\ excused' = (excused \cup (IF Misread(result) THEN {"misread"} ELSE {})
               \cup (IF \E n \in Names \ touched : shown[n] # result[n]
                     THEN {"stale"} ELSE {}))
          /\ UNCHANGED <<file, spare, shown, touched, edits, meant, mixed, moved>>
    BY <1>3 DEF WindowSaves
  <2>2. CASE v # "window"
    BY <1>0, <1>t, <2>1, <2>2 DEF StartsSave, Chosen
  <2>3. CASE v = "window"
    <3>1. saving[v] = "idle" /\ saving'[v] = "loaded"
          /\ draft'[v] = With(result, shown, Names)
      BY <1>t, <2>1, <2>3 DEF StartsSave
    <3>2. ASSUME excused' = {} PROVE \A n \in Names \ touched : draft'[v][n] = meant[n]
      <4>1. excused = {} /\ ~Misread(result)
            /\ \A n \in Names \ touched : shown[n] = result[n]
        BY <2>1, <3>2
      <4>2. result = meant
        BY <1>0, <2>1, <4>1, LoadsMeant
      <4>3. \A n \in Names : draft'[v][n] = shown[n]
        BY <3>1, SettingsMix
      <4> QED
        BY <4>1, <4>2, <4>3
    <3> QED
      BY <1>0, <2>1, <2>3, <3>1, <3>2 DEF Chosen
  <2> QED
    BY <2>2, <2>3
<1>4. ASSUME MenuSaves PROVE Sound'
  <2>1. PICK result \in Settings, chosen \in BOOLEAN :
          /\ Loads(result)
          /\ StartsSave("menu", result, [language |-> chosen], {"language"})
          /\ excused' = (excused \cup (IF Misread(result) THEN {"misread"} ELSE {}))
          /\ UNCHANGED <<file, spare, shown, touched, edits, meant, mixed, moved>>
    BY <1>4 DEF MenuSaves
  <2>2. CASE v # "menu"
    BY <1>0, <1>t, <2>1, <2>2 DEF StartsSave, Chosen
  <2>3. CASE v = "menu"
    <3>1. saving[v] = "idle" /\ saving'[v] = "loaded"
          /\ draft'[v] = With(result, [language |-> chosen], {"language"})
      BY <1>t, <2>1, <2>3 DEF StartsSave
    <3>2. ASSUME excused' = {}
          PROVE  \A n \in Names \ {"language"} : draft'[v][n] = meant[n]
      <4>1. result = meant
        BY <1>0, <2>1, <3>2, LoadsMeant
      <4>2. \A n \in Names \ {"language"} : draft'[v][n] = result[n]
        BY <3>1, SettingsMix
      <4> QED
        BY <4>1, <4>2
    <3> QED
      BY <1>0, <2>1, <2>3, <3>1, <3>2 DEF Chosen
  <2> QED
    BY <2>2, <2>3
<1>5. ASSUME NEW w \in Savers, Opens(w) PROVE Sound'
  <2>1. CASE v = w
    BY <1>0, <1>t, <1>5, <2>1, ReachesWhere, Disturbed DEF Opens, Chosen
  <2>2. CASE v # w
    BY <1>0, <1>t, <1>5, <2>2, ReachesWhere, Disturbed DEF Opens, Chosen
  <2> QED
    BY <2>1, <2>2
<1>6. ASSUME NEW w \in Savers, Writes(w) PROVE Sound'
  <2>1. CASE v = w
    BY <1>0, <1>t, <1>6, <2>1, ReachesWhere, Disturbed DEF Writes, Chosen
  <2>2. CASE v # w
    BY <1>0, <1>t, <1>6, <2>2, ReachesWhere, Disturbed DEF Writes, Chosen
  <2> QED
    BY <2>1, <2>2
<1>7. ASSUME NEW w \in Savers, Replaces(w) PROVE Sound'
  <2>1. CASE v = w
    BY <1>0, <1>t, <1>7, <2>1 DEF Replaces, Reaches, Chosen
  <2>2. CASE v # w
    <3>1. saving'[v] = saving[v] /\ draft'[v] = draft[v] /\ mixed' = mixed
      BY <1>t, <1>7, <2>2 DEF Replaces, Reaches
    <3>2. CASE UNCHANGED <<file, spare, meant, touched, excused>>
               /\ moved' = [moved EXCEPT ![w] = FALSE]
      BY <1>0, <1>t, <2>2, <3>1, <3>2 DEF Chosen
    <3>3. CASE moved' = [u \in Savers |-> u # w /\ saving[u] # "idle"]
      BY <1>0, <1>t, <2>2, <3>1, <3>3
    <3> QED
      BY <1>7, <3>2, <3>3 DEF Replaces
  <2> QED
    BY <2>1, <2>2
<1>8. ASSUME TrayDies PROVE Sound'
  BY <1>8 DEF TrayDies
<1>9. ASSUME EditedByHand PROVE Sound'
  <2>1. /\ UNCHANGED <<spare, saving, draft, touched, mixed, excused>>
        /\ moved' = [w \in Savers |-> saving[w] # "idle"]
    BY <1>9 DEF EditedByHand
  <2> QED
    BY <1>0, <1>t, <2>1
<1>10. ASSUME UNCHANGED configVars PROVE Sound'
  BY <1>0, <1>10 DEF configVars, Chosen
<1> QED
  BY <1>1, <1>3, <1>4, <1>5, <1>6, <1>7, <1>8, <1>9, <1>10 DEF ConfigFileNext

\* Only a save and a hand change config.toml.
LEMMA KeptStep ==
  ASSUME ConfigInv, [ConfigFileNext]_configVars
  PROVE  ConfigKept'
<1>0. ConfigFileTypeOK /\ ConfigKept /\ SavesSound
  BY DEF ConfigInv
<1>1. CASE UNCHANGED <<file, meant>> /\ excused \subseteq excused'
  BY <1>0, <1>1 DEF ConfigKept
<1>2. ASSUME NEW w \in Savers, Replaces(w), file' # file \/ meant' # meant
      PROVE  ConfigKept'
  <2>1. /\ saving[w] = "written" /\ spare # Absent
        /\ file' = spare
        /\ meant' = With(meant, draft[w], Chosen(w))
        /\ excused' = (excused \cup (IF moved[w] THEN {"overlap"} ELSE {}))
    BY <1>2 DEF Replaces, Chosen
  <2>2. spare \in Files /\ draft[w] \in Settings /\ meant \in Settings
        /\ moved[w] \in BOOLEAN
    BY <1>0 DEF ConfigFileTypeOK
  <2>3. file'.kind # "absent"
    BY <2>1, <2>2, FileKinds
  <2>4. CASE moved[w]
    BY <2>1, <2>3, <2>4 DEF ConfigKept
  <2>5. CASE ~moved[w]
    <3>1. spare = Whole(draft[w])
      BY <1>0, <2>1, <2>5 DEF SavesSound, SpareOwn
    <3>2. file'.kind = "whole" /\ file'.doc = draft[w]
      BY <2>1, <2>2, <3>1, FileKinds
    <3>3. ASSUME excused' = {} PROVE draft[w] = meant'
      <4>1. \A n \in Names \ Chosen(w) : draft[w][n] = meant[n]
        BY <1>0, <2>1, <2>5, <3>3 DEF SavesSound, RestMeant
      <4>2. \A n \in Names : meant'[n] = draft[w][n]
        BY <2>1, <4>1, SettingsMix
      <4>3. meant' \in Settings
        BY <2>1, <2>2, SettingsMix
      <4> QED
        BY <2>2, <4>2, <4>3, SettingsMix
    <3> QED
      BY <3>2, <3>3 DEF ConfigKept
  <2> QED
    BY <2>2, <2>4, <2>5
<1>3. ASSUME EditedByHand PROVE ConfigKept'
  <2>1. CASE file' = Broken
    BY <2>1, FileKinds DEF ConfigKept
  <2>2. CASE \E doc \in Settings : file' = Whole(doc) /\ meant' = doc
    BY <2>2, FileKinds DEF ConfigKept
  <2> QED
    BY <1>3, <2>1, <2>2 DEF EditedByHand
<1>4. ASSUME WindowReads \/ WindowChanges \/ WindowSaves \/ MenuSaves
      PROVE  UNCHANGED <<file, meant>> /\ excused \subseteq excused'
  BY <1>4 DEF WindowReads, WindowChanges, WindowSaves, MenuSaves
<1>5. ASSUME NEW w \in Savers, Opens(w) \/ Writes(w)
      PROVE  UNCHANGED <<file, meant>> /\ excused \subseteq excused'
  BY <1>5 DEF Opens, Writes
<1>6. ASSUME TrayDies \/ UNCHANGED configVars
      PROVE  UNCHANGED <<file, meant>> /\ excused \subseteq excused'
  BY <1>6 DEF TrayDies, configVars
<1>7. ASSUME NEW w \in Savers, Replaces(w)
      PROVE  excused \subseteq excused'
  BY <1>7 DEF Replaces
<1> QED
  BY <1>1, <1>2, <1>3, <1>4, <1>5, <1>6, <1>7 DEF ConfigFileNext

\* What the file says is what the user asked for, whatever fails on the way and
\* whenever the tray dies, unless two saves overlapped, a window showed what the
\* file no longer said or a load took a broken file for the defaults (config.py
\* save and load, gui.py _save, tray.py _save_language).
THEOREM SettingsAreKept == ConfigFileSpec => []ConfigKept
<1>1. ConfigFileInit => ConfigInv
  <2>1. ASSUME ConfigFileInit PROVE ConfigFileTypeOK
    BY <2>1, SettingsMix, FileKinds, ConfigFileAssumption
    DEF ConfigFileInit, ConfigFileTypeOK, Savers
  <2>2. ASSUME ConfigFileInit PROVE SavesSound
    BY <2>2 DEF ConfigFileInit, SavesSound, MixedMoved, SpareOwn, RestMeant, Savers
  <2>3. ASSUME ConfigFileInit PROVE ConfigKept
    BY <2>3, FileKinds, SettingsMix DEF ConfigFileInit, ConfigKept
  <2> QED
    BY <2>1, <2>2, <2>3 DEF ConfigInv
<1>2. ConfigInv /\ [ConfigFileNext]_configVars => ConfigInv'
  BY ConfigTypesStep, SoundStep, KeptStep DEF ConfigInv, SavesSound
<1>3. ConfigInv => ConfigKept
  BY DEF ConfigInv
<1> QED
  BY <1>1, <1>2, <1>3, PTL DEF ConfigFileSpec

-----------------------------------------------------------------------------
(***************************************************************************)
(* FaceJudge, for every burst, gesture and number of frames. What a        *)
(* gesture round needs in order to pass can only be shown by two different *)
(* frames: eyes shut and open again, or a pose away from a baseline that   *)
(* was taken from the same face.                                           *)
(***************************************************************************)

Counted == [ok : Nat, errors : Nat, matches : Nat, best : 0 .. 3, flagged : Nat,
           checked : Nat, light : 0 .. 3, below : 0 .. BlinkConsec, blinked : BOOLEAN]
SeenTyped ==
  seen \in Counted /\ seen.matches <= seen.ok /\ seen.ok + left <= VerifyFrames
Tasked == [samples : 0 .. BaselineFrames, pitch : Int, yaw : Int,
           below : 0 .. BlinkConsec, state : {"awaiting", "passed", "failed"}]
TaskTyped == task \in Tasked

\* An answer is told at the end of a request.
TellsIdle == told # "none" => at = "idle"

\* Only a burst after a boost comes to the light gate with a fault.
LightFaultless == at = "light" => held.fault = "none" \/ burst = "boosted"

\* An unlock is not under way with a round of an earlier one.
RoundFresh == at \in {"burst", "gates", "light"} => task = NewTask /\ own = {}

\* A task that saw one picture alone has a baseline of that picture.
OnePicture ==
  \A g \in Turns : own \subseteq {g} =>
     /\ task.yaw = task.samples * g.yaw
     /\ task.pitch = task.samples * g.pitch
ShutSeen == task.below > 0 => \E f \in own : f.shut
PassMoved == task.state = "passed" => \E f, g \in own : f # g

JudgeInv ==
  /\ JudgeTypeOK /\ SeenTyped /\ TaskTyped /\ IsFiniteSet(own)
  /\ TellsIdle /\ LightFaultless /\ StrikesAreJudged
  /\ RoundFresh /\ OnePicture /\ ShutSeen /\ PassMoved

\* What is counted stays countable.
LEMMA SeenTypes ==
  /\ Unseen \in Counted /\ Unseen.matches = 0 /\ Unseen.ok = 0
  /\ \A s \in Counted, light \in 0 .. 3 :
       /\ WithError(s, light) \in Counted
       /\ WithError(s, light).ok = s.ok + 1
       /\ WithError(s, light).matches = s.matches
  /\ \A s \in Counted, f \in Sights :
       /\ WithSight(s, f) \in Counted
       /\ WithSight(s, f).ok = s.ok + 1
       /\ WithSight(s, f).matches \in {s.matches, s.matches + 1}
<1>1. Unseen \in Counted /\ Unseen.matches = 0 /\ Unseen.ok = 0
  BY DEF Unseen, Counted, NoFace, Unmeasured, BlinkConsec
<1>2. ASSUME NEW s \in Counted, NEW light \in 0 .. 3
      PROVE  /\ WithError(s, light) \in Counted
             /\ WithError(s, light).ok = s.ok + 1
             /\ WithError(s, light).matches = s.matches
  <2>1. Larger(s.light, light) \in 0 .. 3
    BY DEF Larger, Counted
  <2> DEFINE looked == s.ok + 1
             errors == s.errors + 1
             lit == Larger(s.light, light)
  <2>2. looked \in Nat /\ errors \in Nat
    BY DEF Counted
  <2>3. WithError(s, light) = [s EXCEPT !.ok = looked, !.errors = errors, !.light = lit]
    BY DEF WithError
  <2>4. WithError(s, light).ok = looked
    <3> HIDE DEF looked, errors, lit
    <3> QED
      BY <2>3 DEF Counted
  <2> HIDE DEF looked, errors, lit
  <2>5. WithError(s, light) \in Counted /\ WithError(s, light).matches = s.matches
    BY ONLY s \in Counted, <2>1, <2>2, <2>3 DEF Counted, lit
  <2> QED
    BY <2>4, <2>5 DEF looked
<1>3. ASSUME NEW s \in Counted, NEW f \in Sights
      PROVE  /\ WithSight(s, f) \in Counted
             /\ WithSight(s, f).ok = s.ok + 1
             /\ WithSight(s, f).matches \in {s.matches, s.matches + 1}
  <2>1. f \in [face : 0 .. 3, screen : {"yes", "no", "unusable"},
               shut : BOOLEAN, light : 0 .. 3]
    BY JudgeAssumption DEF ScreenChecks
  <2>4. Larger(s.light, f.light) \in 0 .. 3 /\ Smaller(s.best, f.face) \in 0 .. 3
    BY <2>1 DEF Larger, Smaller, Counted
  <2> DEFINE looked == s.ok + 1
             lit == Larger(s.light, f.light)
  <2>5. looked \in Nat
    BY DEF Counted
  <2> HIDE DEF looked, lit
  <2>2. CASE f.face = NoFace
    <3>1. WithSight(s, f) = [s EXCEPT !.ok = looked, !.light = lit]
      BY <2>2 DEF WithSight, looked, lit
    <3>2. WithSight(s, f) \in Counted /\ WithSight(s, f).ok = looked
          /\ WithSight(s, f).matches = s.matches
      BY ONLY s \in Counted, <2>4, <2>5, <3>1 DEF Counted, lit
    <3> QED
      BY <3>2 DEF looked
  <2>3. CASE f.face # NoFace
    <3>1. Below(s.below, f.shut) \in 0 .. BlinkConsec
      BY <2>1 DEF Below, Smaller, BlinkConsec, Counted
    <3>2. (s.blinked \/ Blinks(s.below, f.shut)) \in BOOLEAN
      OBVIOUS
    <3> DEFINE b == s.blinked \/ Blinks(s.below, f.shut)
    <3> HIDE DEF b
    <3> DEFINE m == IF Matches(f.face) THEN s.matches + 1 ELSE s.matches
               c == IF f.screen # "unusable" THEN s.checked + 1 ELSE s.checked
               d == IF f.screen = "yes" THEN s.flagged + 1 ELSE s.flagged
    <3>4. m \in {s.matches, s.matches + 1} /\ c \in Nat /\ d \in Nat /\ m \in Nat
      BY DEF Counted
    <3>5. b \in BOOLEAN
      BY DEF b
    <3> DEFINE below == Below(s.below, f.shut)
               best == Smaller(s.best, f.face)
    <3>6. WithSight(s, f) =
            [s EXCEPT
              !.ok = looked, !.light = lit, !.best = best, !.matches = m, !.checked = c,
              !.flagged = d, !.below = below, !.blinked = b]
      BY <2>3 DEF WithSight, b, looked, lit
    <3>7. lit \in 0 .. 3 /\ best \in 0 .. 3 /\ below \in 0 .. BlinkConsec
      BY <2>4, <3>1 DEF lit
    <3> HIDE DEF m, c, d, below, best
    <3>8. /\ WithSight(s, f) \in Counted
          /\ WithSight(s, f).ok = looked /\ WithSight(s, f).matches = m
      BY ONLY s \in Counted, <2>5, <3>4, <3>5, <3>6, <3>7 DEF Counted
    <3> QED
      BY <3>4, <3>8 DEF looked
  <2> QED
    BY <2>2, <2>3
<1> QED
  BY <1>1, <1>2, <1>3

\* A frame of the enrolled face, fed to the task.
LEMMA FedMoves ==
  ASSUME TaskTyped, kind \in Kinds, OnePicture, ShutSeen, task.state = "awaiting",
         own \subseteq Turns, NEW f \in Turns, NEW next \in Settled(Fed(task, f)),
         task' = next, own' = own \cup {f}
  PROVE  TaskTyped' /\ OnePicture' /\ ShutSeen' /\ PassMoved'
<1>1. f \in [owner : BOOLEAN, screen : BOOLEAN, shut : BOOLEAN, pitch : Int, yaw : Int]
  BY JudgeAssumption
<1>2. PICK t : /\ t = Fed(task, f)
               /\ task' = t \/ (task' = [t EXCEPT !.state = "failed"] /\ t.state # "passed")
  BY DEF Settled
<1>3. CASE kind = "blink"
  <2>1. t = [task EXCEPT !.below = Below(task.below, f.shut),
               !.state = IF Blinks(task.below, f.shut) THEN "passed" ELSE task.state]
    BY <1>2, <1>3 DEF Fed
  <2>2. Below(task.below, f.shut) \in 0 .. BlinkConsec
    BY <1>1 DEF Below, Smaller, BlinkConsec, TaskTyped, Tasked
  <2>3. TaskTyped' /\ task'.below = Below(task.below, f.shut)
        /\ task'.samples = task.samples /\ task'.yaw = task.yaw
        /\ task'.pitch = task.pitch
    <3> DEFINE below == Below(task.below, f.shut)
               state == IF Blinks(task.below, f.shut) THEN "passed" ELSE task.state
    <3>1. t = [task EXCEPT !.below = below, !.state = state]
      BY <2>1
    <3>2. below \in 0 .. BlinkConsec /\ state \in {"awaiting", "passed"}
      BY <2>2
    <3> HIDE DEF below, state
    <3>3. t \in Tasked /\ t.below = below /\ t.samples = task.samples
          /\ t.yaw = task.yaw /\ t.pitch = task.pitch
      BY <3>1, <3>2 DEF TaskTyped, Tasked
    <3>4. task' \in Tasked /\ task'.below = below /\ task'.samples = task.samples
          /\ task'.yaw = task.yaw /\ task'.pitch = task.pitch
      BY <1>2, <3>3 DEF Tasked
    <3> QED
      BY <3>4 DEF TaskTyped, Tasked, below
  <2>4. OnePicture'
    BY <2>3 DEF OnePicture
  <2>5. ShutSeen'
    BY <1>1, <2>3 DEF ShutSeen, Below
  <2>6. ASSUME task'.state = "passed" PROVE \E g, h \in own' : g # h
    <3>1. Blinks(task.below, f.shut)
      BY <1>2, <2>1, <2>6 DEF TaskTyped, Tasked
    <3>2. ~f.shut /\ task.below > 0
      BY <3>1 DEF Blinks, BlinkConsec
    <3>3. PICK g \in own : g.shut
      BY <3>2 DEF ShutSeen
    <3> QED
      BY <3>2, <3>3
  <2> QED
    BY <2>3, <2>4, <2>5, <2>6 DEF PassMoved
<1>4. CASE kind # "blink" /\ task.samples < BaselineFrames
  <2>1. t = [task EXCEPT !.samples = task.samples + 1, !.pitch = task.pitch + f.pitch,
               !.yaw = task.yaw + f.yaw]
    BY <1>2, <1>4 DEF Fed
  <2>2. TaskTyped' /\ task'.state # "passed" /\ task'.below = task.below
        /\ task'.samples = task.samples + 1 /\ task'.pitch = task.pitch + f.pitch
        /\ task'.yaw = task.yaw + f.yaw
    <3> DEFINE samples == task.samples + 1
               pitch == task.pitch + f.pitch
               yaw == task.yaw + f.yaw
    <3>1. samples \in 0 .. BaselineFrames /\ pitch \in Int /\ yaw \in Int
      BY <1>1, <1>4 DEF TaskTyped, Tasked, BaselineFrames
    <3>2. t = [task EXCEPT !.samples = samples, !.pitch = pitch, !.yaw = yaw]
      BY <2>1
    <3> HIDE DEF samples, pitch, yaw
    <3>3. t \in Tasked /\ t.samples = samples /\ t.pitch = pitch /\ t.yaw = yaw
          /\ t.below = task.below /\ t.state = "awaiting"
      BY <3>1, <3>2 DEF TaskTyped, Tasked
    <3>4. task' \in Tasked /\ task'.samples = samples /\ task'.pitch = pitch
          /\ task'.yaw = yaw /\ task'.below = task.below /\ task'.state # "passed"
      BY <1>2, <3>3 DEF Tasked
    <3> QED
      BY <3>4 DEF TaskTyped, samples, pitch, yaw
  <2>3. ASSUME NEW g \in Turns, own' \subseteq {g}
        PROVE  task'.yaw = task'.samples * g.yaw /\ task'.pitch = task'.samples * g.pitch
    <3>1. f = g /\ own \subseteq {g}
      BY <2>3
    <3>2. task.yaw = task.samples * f.yaw /\ task.pitch = task.samples * f.pitch
      BY <3>1 DEF OnePicture
    <3>3. task.samples \in {0, 1, 2}
      BY <1>4 DEF TaskTyped, Tasked, BaselineFrames
    <3>4. f.yaw \in Int /\ f.pitch \in Int
      BY <1>1
    <3>5. CASE task.samples = 0
      BY <2>2, <3>1, <3>2, <3>4, <3>5
    <3>6. CASE task.samples = 1
      BY <2>2, <3>1, <3>2, <3>4, <3>6
    <3>7. CASE task.samples = 2
      BY <2>2, <3>1, <3>2, <3>4, <3>7
    <3> QED
      BY <3>3, <3>5, <3>6, <3>7
  <2> QED
    BY <2>2, <2>3 DEF OnePicture, ShutSeen, PassMoved
<1>5. CASE kind # "blink" /\ ~(task.samples < BaselineFrames)
  <2>1. t = [task EXCEPT !.state = IF TargetMet(task, f) THEN "passed" ELSE task.state]
    BY <1>2, <1>5 DEF Fed
  <2>2. TaskTyped' /\ task'.samples = task.samples /\ task'.yaw = task.yaw
        /\ task'.pitch = task.pitch /\ task'.below = task.below
    BY <1>2, <2>1 DEF TaskTyped, Tasked
  <2>3. ASSUME task'.state = "passed" PROVE \E g, h \in own' : g # h
    <3>1. TargetMet(task, f)
      BY <1>2, <2>1, <2>3 DEF TaskTyped, Tasked
    <3>2. task.samples = 3
      BY <1>5 DEF TaskTyped, Tasked, BaselineFrames
    <3>3. SUFFICES ASSUME own' \subseteq {f} PROVE FALSE
      OBVIOUS
    <3>4. task.yaw = 3 * f.yaw /\ task.pitch = 3 * f.pitch
      BY <3>2, <3>3 DEF OnePicture
    <3>5. kind \in {"turn_left", "turn_right", "nod"}
      BY <1>5 DEF Kinds
    <3> QED
      <4>1. f.yaw \in Int /\ f.pitch \in Int /\ YawDelta \in Nat /\ PitchDelta \in Nat
        BY <1>1, JudgeAssumption
      <4>2. CASE kind = "turn_left"
        BY <3>1, <3>4, <4>1, <4>2 DEF TargetMet, BaselineFrames
      <4>3. CASE kind = "turn_right"
        BY <3>1, <3>4, <4>1, <4>3 DEF TargetMet, BaselineFrames
      <4>4. CASE kind = "nod"
        BY <3>1, <3>4, <4>1, <4>4 DEF TargetMet, BaselineFrames
      <4> QED
        BY <3>5, <4>2, <4>3, <4>4
  <2> QED
    BY <2>2, <2>3 DEF OnePicture, ShutSeen, PassMoved
<1> QED
  BY <1>3, <1>4, <1>5

\* What the verdict of a burst holds.
LEMMA OutcomeTypes ==
  ASSUME SeenTyped
  PROVE  Outcome(seen) \in [verdict : Verdicts, fault : Faults, light : 0 .. 3]
<1>1. Verdict(seen) \in Verdicts
  BY DEF Verdict, Verdicts
<1>2. Fault(seen) \in Faults
  BY DEF Fault, Faults
<1> QED
  BY <1>1, <1>2 DEF Outcome, SeenTyped, Counted

\* What an unlock and a round start with.
LEMMA NewTypes ==
  /\ NewTask \in Tasked /\ NewTask.samples = 0 /\ NewTask.yaw = 0 /\ NewTask.pitch = 0
  /\ NewTask.below = 0 /\ NewTask.state = "awaiting"
  /\ NoHeld \in [verdict : Verdicts, fault : Faults, light : 0 .. 3]
BY DEF NewTask, Tasked, BaselineFrames, BlinkConsec, NoHeld, Verdicts, Faults,
  Unmeasured

\* A new round knows nothing.
LEMMA RoundStarts ==
  ASSUME NewRound
  PROVE  TaskTyped' /\ OnePicture' /\ ShutSeen' /\ PassMoved' /\ IsFiniteSet(own')
         /\ fed' \in 0 .. Required /\ own' = {} /\ task' = NewTask
<1>1. task' = NewTask /\ fed' = 0 /\ own' = {}
  BY DEF NewRound
<1>2. \A g \in Turns : 0 * g.yaw = 0 /\ 0 * g.pitch = 0
  BY JudgeAssumption
<1>3. OnePicture'
  BY <1>1, <1>2, NewTypes DEF OnePicture
<1>4. IsFiniteSet(own')
  BY <1>1, FS_EmptySet
<1> QED
  BY <1>1, <1>3, <1>4, NewTypes, JudgeAssumption DEF TaskTyped, ShutSeen, PassMoved

\* What the two halves of the invariant say.
Judged == /\ JudgeTypeOK /\ SeenTyped /\ TellsIdle /\ LightFaultless
          /\ StrikesAreJudged
Moved == /\ TaskTyped /\ IsFiniteSet(own) /\ RoundFresh /\ OnePicture /\ ShutSeen
         /\ PassMoved

\* Steps of the burst and of the gates leave the round alone.
LEMMA MovedStep ==
  ASSUME JudgeInv, [JudgeNext]_judgeVars
  PROVE  Moved'
<1> USE DEF JudgeInv, Moved
<1>1. CASE UNCHANGED <<at, task, own>>
  BY <1>1 DEF TaskTyped, RoundFresh, OnePicture, ShutSeen, PassMoved
<1>2. CASE UNCHANGED <<task, own>> /\ at' = "idle"
  BY <1>2 DEF TaskTyped, RoundFresh, OnePicture, ShutSeen, PassMoved
<1>3. CASE UNCHANGED <<task, own>> /\ at \in {"burst", "gates", "light"}
  BY <1>3 DEF TaskTyped, RoundFresh, OnePicture, ShutSeen, PassMoved
<1>4. CASE NewRound
  BY <1>4, RoundStarts DEF RoundFresh
<1>5. ASSUME RoundFrame PROVE Moved'
  <2>1. at = "round" /\ at' = at /\ task.state = "awaiting"
        /\ own \subseteq Turns /\ kind \in Kinds
    BY <1>5 DEF RoundFrame, Rounds, JudgeTypeOK
  <2>2. ASSUME NEW f \in Turns, task' \in Settled(Fed(task, f)), own' = own \cup {f}
        PROVE  Moved'
    <3>1. TaskTyped' /\ OnePicture' /\ ShutSeen' /\ PassMoved'
      BY <2>1, <2>2, FedMoves
    <3>2. IsFiniteSet(own')
      BY <2>2, FS_AddElement
    <3> QED
      BY <2>1, <3>1, <3>2 DEF RoundFresh
  <2>3. ASSUME task' \in Settled(task), own' = own
        PROVE  Moved'
    <3>1. task' = task \/ task' = [task EXCEPT !.state = "failed"]
      BY <2>3 DEF Settled
    <3>2. TaskTyped' /\ task'.samples = task.samples /\ task'.yaw = task.yaw
          /\ task'.pitch = task.pitch /\ task'.below = task.below
          /\ task'.state # "passed"
      BY <2>1, <3>1 DEF TaskTyped, Tasked
    <3> QED
      BY <2>1, <2>3, <3>2 DEF RoundFresh, OnePicture, ShutSeen, PassMoved
  <2> QED
    BY <1>5, <2>2, <2>3 DEF RoundFrame
<1>6. ASSUME ReadFrame \/ ReadRaises \/ Heal \/ EndBurst \/ Gates \/ LightGate
      PROVE  UNCHANGED <<task, own>> /\ at \in {"burst", "gates", "light"}
  BY <1>6 DEF ReadFrame, ReadRaises, Heal, EndBurst, Gates, LightGate, rounding
<1>7. ASSUME EndRound
      PROVE  UNCHANGED <<task, own>> /\ at' = "idle"
  BY <1>7 DEF EndRound, Tell, rounding
<1>8. ASSUME Unlock \/ StartRound
      PROVE  NewRound
  BY <1>8 DEF Unlock, StartRound
<1>9. ASSUME UNCHANGED judgeVars
      PROVE  UNCHANGED <<at, task, own>>
  BY <1>9 DEF judgeVars, rounding
<1> QED
  BY <1>1, <1>2, <1>3, <1>4, <1>5, <1>6, <1>7, <1>8, <1>9 DEF JudgeNext

\* Types and the gates, action by action.
LEMMA JudgedStep ==
  ASSUME JudgeInv, [JudgeNext]_judgeVars
  PROVE  Judged'
<1> DEFINE Told == TellsIdle /\ LightFaultless /\ StrikesAreJudged
<1>0. /\ asked \in JudgeConfigs /\ at \in Places /\ told \in Answers
      /\ burst \in {"first", "healed", "boosted"} /\ left \in 0 .. VerifyFrames
      /\ held \in [verdict : Verdicts, fault : Faults, light : 0 .. 3]
      /\ kind \in Kinds /\ fed \in 0 .. Required /\ own \subseteq Turns
      /\ SeenTyped /\ Told
  BY DEF JudgeInv, JudgeTypeOK
<1>a. VerifyFrames \in Nat /\ Required \in Nat
  BY JudgeAssumption
<1>s. ASSUME SeenTyped', left' \in 0 .. VerifyFrames
      PROVE  seen'.ok \in 0 .. VerifyFrames /\ seen'.matches \in 0 .. VerifyFrames
  BY <1>a, <1>s DEF SeenTyped, Counted
<1>b. ASSUME NEW which, NewBurst(which)
      PROVE  left' \in 0 .. VerifyFrames /\ SeenTyped'
  BY <1>a, <1>b, SeenTypes DEF NewBurst, SeenTyped
<1>u. seen' = Unseen /\ left' = left => SeenTyped'
  BY <1>0, <1>a, SeenTypes DEF SeenTyped
<1>k. seen' = seen /\ left' = left => SeenTyped'
  BY <1>0 DEF SeenTyped
<1> USE DEF Places, Answers, Told, TellsIdle, LightFaultless, StrikesAreJudged
<1>1. ASSUME Unlock PROVE Judged'
  <2>1. asked' = asked /\ kind' = kind /\ held' = NoHeld /\ NewRound
    BY <1>1 DEF Unlock
  <2>2. fed' \in 0 .. Required /\ own' \subseteq Turns
        /\ held' \in [verdict : Verdicts, fault : Faults, light : 0 .. 3]
    BY <2>1, RoundStarts, NewTypes
  <2>3. CASE Tell("camera-busy") /\ UNCHANGED <<burst, left, seen>>
    BY <1>0, <1>k, <1>s, <2>1, <2>2, <2>3 DEF Judged, JudgeTypeOK, Tell
  <2>4. CASE NewBurst("first") /\ at' = "burst" /\ told' = "none"
    BY <1>0, <1>b, <1>s, <2>1, <2>2, <2>4 DEF Judged, JudgeTypeOK, NewBurst
  <2> QED
    BY <1>1, <2>3, <2>4 DEF Unlock
<1>2. ASSUME ReadFrame PROVE Judged'
  <2>1. left' = left - 1 /\ left' \in 0 .. VerifyFrames /\ at = "burst"
        /\ UNCHANGED <<asked, at, burst, held, kind, task, fed, own, told>>
    BY <1>0, <1>a, <1>2 DEF ReadFrame, rounding
  <2>2. SeenTyped'
    <3>0. seen \in Counted /\ seen.matches <= seen.ok /\ seen.ok + left <= VerifyFrames
          /\ seen.ok \in Nat /\ seen.matches \in Nat
      BY <1>0 DEF SeenTyped, Counted
    <3>1. CASE seen' = seen
      BY <1>0, <1>a, <2>1, <3>0, <3>1 DEF SeenTyped
    <3>2. ASSUME NEW f \in Sights, seen' = WithError(seen, f.light)
          PROVE  SeenTyped'
      <4>1. f.light \in 0 .. 3
        BY JudgeAssumption
      <4>2. seen' \in Counted /\ seen'.ok = seen.ok + 1 /\ seen'.matches = seen.matches
        BY <3>0, <3>2, <4>1, SeenTypes
      <4> QED
        BY <1>0, <1>a, <2>1, <3>0, <4>2 DEF SeenTyped
    <3>3. ASSUME NEW f \in Sights, seen' = WithSight(seen, f)
          PROVE  SeenTyped'
      <4>1. seen' \in Counted /\ seen'.ok = seen.ok + 1
            /\ seen'.matches \in {seen.matches, seen.matches + 1}
        BY <3>0, <3>3, SeenTypes
      <4> QED
        BY <1>0, <1>a, <2>1, <3>0, <4>1 DEF SeenTyped
    <3> QED
      BY <1>2, <3>1, <3>2, <3>3 DEF ReadFrame, Analysed
  <2> QED
    BY <1>0, <1>s, <2>1, <2>2 DEF Judged, JudgeTypeOK
<1>3. ASSUME ReadRaises PROVE Judged'
  <2>1. left' = 0 /\ seen' = Unseen /\ UNCHANGED <<asked, burst, held, kind, fed, own>>
    BY <1>3 DEF ReadRaises, rounding
  <2>2. SeenTyped' /\ left' \in 0 .. VerifyFrames
    BY <1>a, <2>1, SeenTypes DEF SeenTyped
  <2> QED
    BY <1>0, <1>3, <1>s, <2>1, <2>2 DEF ReadRaises, Judged, JudgeTypeOK, Tell
<1>4. ASSUME Heal PROVE Judged'
  <2>1. held' = Outcome(seen) /\ UNCHANGED <<asked, kind, fed, own, told>> /\ at = "burst"
    BY <1>4 DEF Heal, rounding
  <2>2. held' \in [verdict : Verdicts, fault : Faults, light : 0 .. 3]
    BY <1>0, <2>1, OutcomeTypes
  <2>3. CASE NewBurst("healed") /\ UNCHANGED at
    BY <1>0, <1>b, <1>s, <2>1, <2>2, <2>3 DEF Judged, JudgeTypeOK, NewBurst
  <2>4. CASE at' = "gates" /\ seen' = Unseen /\ UNCHANGED <<burst, left>>
    BY <1>0, <1>u, <1>s, <2>1, <2>2, <2>4 DEF Judged, JudgeTypeOK
  <2> QED
    BY <1>4, <2>3, <2>4 DEF Heal
<1>5. ASSUME EndBurst PROVE Judged'
  <2>1. held' = Outcome(seen) /\ seen' = Unseen /\ at = "burst"
        /\ UNCHANGED <<asked, burst, left, kind, fed, own, told>>
        /\ at' = IF burst = "boosted" THEN "light" ELSE "gates"
    BY <1>5 DEF EndBurst, rounding
  <2>2. held' \in [verdict : Verdicts, fault : Faults, light : 0 .. 3]
    BY <1>0, <2>1, OutcomeTypes
  <2> QED
    BY <1>0, <1>u, <1>s, <2>1, <2>2 DEF Judged, JudgeTypeOK
<1>6. ASSUME Gates PROVE Judged'
  <2>1. UNCHANGED <<asked, held, kind, fed, own>> /\ at = "gates"
    BY <1>6 DEF Gates, rounding
  <2>2. CASE held.fault # "none" /\ Tell(held.fault) /\ UNCHANGED <<burst, left, seen>>
    <3>1. held.fault \in {"no-frames", "engine-error"}
      BY <1>0, <2>2 DEF Faults
    <3> QED
      BY <1>0, <1>k, <1>s, <2>1, <2>2, <3>1 DEF Judged, JudgeTypeOK, Tell
  <2>3. CASE held.fault = "none" /\ at' = "light" /\ UNCHANGED <<burst, left, seen, told>>
    BY <1>0, <1>k, <1>s, <2>1, <2>3 DEF Judged, JudgeTypeOK
  <2>4. CASE NewBurst("boosted") /\ at' = "burst" /\ UNCHANGED told
    BY <1>0, <1>b, <1>s, <2>1, <2>4 DEF Judged, JudgeTypeOK, NewBurst
  <2> QED
    BY <1>6, <2>2, <2>3, <2>4 DEF Gates
<1>7. ASSUME LightGate PROVE Judged'
  BY <1>0, <1>k, <1>s, <1>7 DEF LightGate, Judged, JudgeTypeOK, Tell, bursting
<1>8. ASSUME StartRound PROVE Judged'
  <2>1. /\ held' = NoHeld /\ NewRound /\ UNCHANGED <<asked, burst, left, seen, kind>>
        /\ told' \in {"camera-busy", "none"} /\ at' \in {"idle", "round"}
        /\ told' = "camera-busy" => at' = "idle"
    BY <1>8 DEF StartRound, Tell
  <2>2. fed' \in 0 .. Required /\ own' \subseteq Turns
        /\ held' \in [verdict : Verdicts, fault : Faults, light : 0 .. 3]
    BY <2>1, RoundStarts, NewTypes
  <2> QED
    BY <1>0, <1>k, <1>s, <2>1, <2>2 DEF Judged, JudgeTypeOK
<1>9. ASSUME RoundFrame PROVE Judged'
  <2>1. /\ fed' = Smaller(fed + 1, Required) /\ at = "round"
        /\ own' = own \/ \E f \in Turns : own' = own \cup {f}
        /\ UNCHANGED <<asked, at, burst, left, seen, held, kind, told>>
    BY <1>9 DEF RoundFrame, Rounds, bursting
  <2>2. fed' \in 0 .. Required
    BY <1>0, <1>a, <2>1 DEF Smaller
  <2>3. own' \subseteq Turns
    BY <1>0, <2>1
  <2> QED
    BY <1>0, <1>k, <1>s, <2>1, <2>2, <2>3 DEF Judged, JudgeTypeOK
<1>10. ASSUME EndRound PROVE Judged'
  BY <1>0, <1>k, <1>s, <1>10 DEF EndRound, Judged, JudgeTypeOK, Tell, bursting, rounding
<1>11. ASSUME UNCHANGED judgeVars PROVE Judged'
  BY <1>0, <1>k, <1>s, <1>11 DEF judgeVars, Judged, JudgeTypeOK, bursting, rounding
<1> QED
  BY <1>1, <1>2, <1>3, <1>4, <1>5, <1>6, <1>7, <1>8, <1>9, <1>10, <1>11 DEF JudgeNext

LEMMA JudgeInvariant == JudgeSpec => []JudgeInv
<1>1. JudgeInit => JudgeInv
  <2> SUFFICES ASSUME JudgeInit PROVE JudgeInv
    OBVIOUS
  <2>2. \A g \in Turns : 0 * g.yaw = 0 /\ 0 * g.pitch = 0
    BY JudgeAssumption
  <2>3. OnePicture
    BY <2>2, NewTypes DEF JudgeInit, OnePicture
  <2>4. Moved
    BY <2>3, NewTypes, FS_EmptySet
    DEF JudgeInit, Moved, TaskTyped, RoundFresh, ShutSeen, PassMoved
  <2>5. SeenTyped
    BY SeenTypes, JudgeAssumption DEF JudgeInit, SeenTyped
  <2>6. JudgeTypeOK
    BY <2>5, SeenTypes, NewTypes, JudgeAssumption
    DEF JudgeInit, JudgeTypeOK, Places, Answers, Kinds
  <2> QED
    BY <2>4, <2>5, <2>6
    DEF JudgeInit, JudgeInv, Moved, TellsIdle, LightFaultless, StrikesAreJudged
<1>2. JudgeInv /\ [JudgeNext]_judgeVars => JudgeInv'
  BY JudgedStep, MovedStep DEF JudgeInv, Judged, Moved
<1> QED
  BY <1>1, <1>2, PTL DEF JudgeSpec

\* Counters of a burst stay within it, and what is told is an answer of the service
\* (service.py _analyze_burst).
THEOREM JudgingIsTyped == JudgeSpec => []JudgeTypeOK
<1>1. JudgeInv => JudgeTypeOK
  BY DEF JudgeInv
<1> QED
  BY <1>1, JudgeInvariant, PTL

\* A strike follows a burst the engine judged, and a gesture that passes was made by
\* a face that moved: no single picture of it can (service.py _cmd_unlock, liveness.py
\* feed).
THEOREM AnswersAreEarned == JudgeSpec => []OutcomesEarned
<1>1. JudgeInv => OutcomesEarned
  <2> SUFFICES ASSUME JudgeInv, task.state = "passed" PROVE Cardinality(own) >= 2
    BY DEF JudgeInv, OutcomesEarned, RoundsAreMoved
  <2>1. PICK f, g \in own : f # g
    BY DEF JudgeInv, PassMoved
  <2>2. IsFiniteSet(own) /\ {f, g} \subseteq own
    BY <2>1 DEF JudgeInv
  <2>3. Cardinality({f}) = 1 /\ IsFiniteSet({f})
    BY FS_Singleton
  <2>4. Cardinality({f} \cup {g}) = 2
    BY <2>1, <2>3, FS_AddElement
  <2>5. {f, g} = {f} \cup {g}
    OBVIOUS
  <2>6. Cardinality({f, g}) <= Cardinality(own) /\ Cardinality(own) \in Nat
    BY <2>2, FS_Subset, FS_CardinalityType
  <2> QED
    BY <2>4, <2>5, <2>6
<1> QED
  BY <1>1, JudgeInvariant, PTL

-----------------------------------------------------------------------------
(***************************************************************************)
(* Custody, for every tree of the data directory and any number of changes *)
(* and starts. An errand covers the entries that are below its path; until *)
(* a problem is met, what is not as it should be is covered by an errand   *)
(* that is left.                                                           *)
(***************************************************************************)

Entries == [kind : EntryKinds, ours : BOOLEAN, acl : Descriptors]
\* Only a directory is ever listed.
ErrandSet ==
  {e \in [op : {"visit", "list"}, path : Paths] : e.op = "list" => e.path \in Dirs}
Walks == Seq(ErrandSet)

\* What is below an entry, itself included: the least closed set it is in.
Beneath(a) == {p \in Paths : \A S \in SUBSET Paths : (a \in S /\ Closed(S)) => p \in S}
Covers(e) ==
  IF e.op = "visit" THEN Beneath(e.path) ELSE UNION {Beneath(q) : q \in Under(e.path)}

Elements(s) == {s[i] : i \in DOMAIN s}
Owed(p) == \E e \in Elements(itinerary) : p \in Covers(e)

\* Only what is so known is there that the service may not change.
Spoiling == (\E p \in Paths : Untouchable(disk[p]) \/ ~disk[p].ours) => spoilt

\* An entry is in a directory.
Rooted ==
  \A p \in Paths :
    /\ disk[p].kind = "dir" => p \in Dirs
    /\ Exists(p) => \A d \in Dirs : p \in Under(d) => disk[d].kind = "dir"

\* Nobody takes the data directory itself away.
TopThere ==
  /\ disk[Top].kind \in {"none", "dir", "link"}
  /\ walking \in {"heal", "verify"} => Exists(Top)

\* The entries a walk has still to see are there, or one of them went away.
Found ==
  /\ itinerary \in Walks
  /\ \A e \in Elements(itinerary) : Exists(e.path) \/ hindered
Faulted == IF walking = "down" THEN ~problems ELSE problems => spoilt \/ hindered
NoWalk == walking \in {"down", "up"} => itinerary = << >>

\* The descriptor an entry has, while the walk of heal and the one of verify go on.
Fine(p) ==
  /\ disk[p].acl \notin {"null", "foreign"}
  /\ p \in Secret => disk[p].acl = "locked"
Sealed ==
  (walking # "down" /\ ~problems) =>
    \A p \in Paths : Exists(p) =>
      \/ disk[p].acl = Target(p)
      \/ walking = "heal" /\ Owed(p)
      \/ /\ p \in DOMAIN Temporary /\ hindered
         /\ walking = "heal" \/ Fine(p) \/ Owed(p)

\* Whose an entry is, and what, once verify has seen it.
Owned ==
  (walking \in {"verify", "up"} /\ ~problems) =>
    \A p \in Paths : Exists(p) =>
      \/ disk[p].ours /\ ~Untouchable(disk[p])
      \/ Owed(p)
      \/ spoilt /\ hindered

CustodyInv ==
  /\ CustodyTypeOK /\ Spoiling /\ Rooted /\ TopThere /\ Found /\ Faulted /\ NoWalk
  /\ Sealed /\ Owned

-----------------------------------------------------------------------------

\* What is below an entry is closed, and no closed set it is in holds less.
LEMMA BeneathLeast ==
  /\ \A a \in Paths : a \in Beneath(a) /\ Beneath(a) \subseteq Paths /\ Closed(Beneath(a))
  /\ \A a \in Paths, S \in SUBSET Paths : (a \in S /\ Closed(S)) => Beneath(a) \subseteq S
  /\ Beneath(Top) = Paths
<1>1. ASSUME NEW a \in Paths
      PROVE  a \in Beneath(a) /\ Beneath(a) \subseteq Paths /\ Closed(Beneath(a))
  <2>1. a \in Beneath(a) /\ Beneath(a) \subseteq Paths
    BY DEF Beneath
  <2>2. ASSUME NEW d \in Beneath(a) \cap Dirs, NEW p \in Under(d) PROVE p \in Beneath(a)
    <3>1. p \in Paths
      BY DEF Paths
    <3>2. ASSUME NEW S \in SUBSET Paths, a \in S, Closed(S) PROVE p \in S
      BY <3>2 DEF Beneath, Closed
    <3> QED
      BY <3>1, <3>2 DEF Beneath
  <2> QED
    BY <2>1, <2>2 DEF Closed
<1>2. \A a \in Paths, S \in SUBSET Paths : (a \in S /\ Closed(S)) => Beneath(a) \subseteq S
  BY DEF Beneath
<1>3. Beneath(Top) = Paths
  BY CustodyAssumption DEF TreeAssumption, Beneath, Paths
<1> QED
  BY <1>1, <1>2, <1>3

\* What is below a directory is itself and what is below its entries.
LEMMA BeneathDir ==
  \A d \in Dirs : Beneath(d) \subseteq {d} \cup UNION {Beneath(q) : q \in Under(d)}
<1> SUFFICES ASSUME NEW d \in Dirs
             PROVE  Beneath(d) \subseteq {d} \cup UNION {Beneath(q) : q \in Under(d)}
  OBVIOUS
<1> DEFINE S == {d} \cup UNION {Beneath(q) : q \in Under(d)}
<1>1. \A q \in Under(d) : q \in Paths
  BY DEF Paths
<1>2. S \in SUBSET Paths /\ d \in S
  BY <1>1, CustodyAssumption, BeneathLeast
<1>3. ASSUME NEW c \in S \cap Dirs PROVE Under(c) \subseteq S
  <2>1. CASE c = d
    BY <1>1, <2>1, BeneathLeast
  <2>2. CASE c # d
    BY <1>1, <2>2, BeneathLeast DEF Closed
  <2> QED
    BY <2>1, <2>2
<1>4. Closed(S)
  BY <1>3 DEF Closed
<1> HIDE DEF S
<1>5. Beneath(d) \subseteq S
  BY <1>2, <1>4, BeneathLeast, CustodyAssumption
<1> QED
  BY <1>5 DEF S

\* What an errand covers is closed.
LEMMA CoversClosed ==
  \A e \in ErrandSet : Covers(e) \subseteq Paths /\ Closed(Covers(e))
  BY BeneathLeast DEF Covers, Closed, ErrandSet, Paths

\* An entry below another one is there only if that is a directory.
LEMMA BelowDir ==
  ASSUME Rooted, NEW a \in Paths, NEW p \in Beneath(a), p # a, Exists(p)
  PROVE  disk[a].kind = "dir" /\ Exists(a)
<1> DEFINE S == {x \in Beneath(a) : x # a /\ Exists(x) => disk[a].kind = "dir"}
<1>1. S \in SUBSET Paths /\ a \in S
  BY BeneathLeast
<1>2. ASSUME NEW d \in S \cap Dirs, NEW x \in Under(d) PROVE x \in S
  <2>1. x \in Beneath(a) /\ x \in Paths /\ d \in Paths
    BY <1>1, BeneathLeast DEF Closed
  <2>2. Exists(x) => disk[d].kind = "dir"
    BY <2>1 DEF Rooted
  <2> QED
    BY <2>1, <2>2 DEF Exists
<1>3. Closed(S)
  BY <1>2 DEF Closed
<1> HIDE DEF S
<1>4. p \in S
  BY <1>1, <1>3, BeneathLeast
<1> QED
  BY <1>4 DEF Exists, S

-----------------------------------------------------------------------------

\* The elements of the sequences a walk is made of.
LEMMA SequenceElements ==
  /\ Elements(<< >>) = {} /\ << >> \in Walks
  /\ \A t \in ErrandSet : Elements(<<t>>) = {t} /\ <<t>> \in Walks
  /\ \A s, t \in Walks :
       s \o t \in Walks /\ Elements(s \o t) = Elements(s) \cup Elements(t)
  /\ \A s \in Walks : s # << >> =>
       /\ Tail(s) \in Walks /\ s[1] \in ErrandSet
       /\ Elements(s) = {s[1]} \cup Elements(Tail(s))
<1> USE DEF Walks
<1>1. Elements(<< >>) = {} /\ << >> \in Walks
  BY DEF Elements
<1>2. ASSUME NEW t \in ErrandSet PROVE Elements(<<t>>) = {t} /\ <<t>> \in Walks
  BY DEF Elements
<1>3. ASSUME NEW s \in Walks, NEW t \in Walks
      PROVE  s \o t \in Walks /\ Elements(s \o t) = Elements(s) \cup Elements(t)
  <2>1. s \o t \in Walks /\ Len(s \o t) = Len(s) + Len(t)
    OBVIOUS
  <2>2. Len(s) \in Nat /\ Len(t) \in Nat
    OBVIOUS
  <2>3. DOMAIN s = 1 .. Len(s) /\ DOMAIN t = 1 .. Len(t)
        /\ DOMAIN (s \o t) = 1 .. Len(s) + Len(t)
    BY <2>1
  <2>4. \A i \in 1 .. Len(s) : (s \o t)[i] = s[i]
    OBVIOUS
  <2>5. \A i \in 1 .. Len(t) : (s \o t)[Len(s) + i] = t[i]
    OBVIOUS
  <2>6. ASSUME NEW i \in 1 .. Len(s) + Len(t)
        PROVE  (s \o t)[i] \in Elements(s) \cup Elements(t)
    <3>1. CASE i <= Len(s)
      BY <2>2, <2>3, <2>4, <3>1 DEF Elements
    <3>2. CASE i > Len(s)
      <4>1. i - Len(s) \in 1 .. Len(t) /\ Len(s) + (i - Len(s)) = i
        BY <2>2, <3>2
      <4> QED
        BY <2>3, <2>5, <4>1 DEF Elements
    <3> QED
      BY <2>2, <3>1, <3>2
  <2>7. ASSUME NEW x \in Elements(s) PROVE x \in Elements(s \o t)
    BY <2>2, <2>3, <2>4 DEF Elements
  <2>8. ASSUME NEW x \in Elements(t) PROVE x \in Elements(s \o t)
    <3>1. PICK i \in 1 .. Len(t) : x = t[i]
      BY <2>3 DEF Elements
    <3>2. Len(s) + i \in 1 .. Len(s) + Len(t) /\ x = (s \o t)[Len(s) + i]
      BY <2>2, <2>5, <3>1
    <3> QED
      BY <2>3, <3>2 DEF Elements
  <2>9. Elements(s \o t) \subseteq Elements(s) \cup Elements(t)
    BY <2>3, <2>6 DEF Elements
  <2> QED
    BY <2>1, <2>7, <2>8, <2>9
<1>4. ASSUME NEW s \in Walks, s # << >>
      PROVE  /\ Tail(s) \in Walks /\ s[1] \in ErrandSet
             /\ Elements(s) = {s[1]} \cup Elements(Tail(s))
  <2>1. Len(s) \in Nat /\ Len(s) > 0 /\ DOMAIN s = 1 .. Len(s)
    BY <1>4
  <2>2. Tail(s) \in Walks /\ Len(Tail(s)) = Len(s) - 1 /\ DOMAIN Tail(s) = 1 .. Len(s) - 1
    BY <1>4, <2>1
  <2>3. \A i \in 1 .. Len(s) - 1 : Tail(s)[i] = s[i + 1]
    BY <1>4, <2>1
  <2>4. ASSUME NEW i \in 1 .. Len(s) PROVE s[i] \in {s[1]} \cup Elements(Tail(s))
    <3>1. CASE i = 1
      BY <3>1
    <3>2. CASE i # 1
      <4>1. i - 1 \in 1 .. Len(s) - 1 /\ (i - 1) + 1 = i
        BY <2>1, <3>2
      <4> QED
        BY <2>2, <2>3, <4>1 DEF Elements
    <3> QED
      BY <3>1, <3>2
  <2>5. ASSUME NEW x \in Elements(Tail(s)) PROVE x \in Elements(s)
    <3>1. PICK i \in 1 .. Len(s) - 1 : x = Tail(s)[i]
      BY <2>2 DEF Elements
    <3>2. i + 1 \in 1 .. Len(s) /\ x = s[i + 1]
      BY <2>1, <2>3, <3>1
    <3> QED
      BY <2>1, <3>2 DEF Elements
  <2>6. s[1] \in ErrandSet /\ s[1] \in Elements(s)
    BY <2>1 DEF Elements
  <2> QED
    BY <2>1, <2>2, <2>4, <2>5, <2>6 DEF Elements
<1> QED
  BY <1>1, <1>2, <1>3, <1>4

\* A visit leaves a directory to be listed.
LEMMA Descent ==
  ASSUME CustodyInv, At("visit"), itinerary' = Descends(Visited) \o Tail(itinerary)
  PROVE  /\ itinerary' \in Walks
         /\ Elements(itinerary') = Elements(Tail(itinerary))
              \cup (IF disk[Visited].kind = "dir" THEN {Errand("list", Visited)} ELSE {})
         /\ Elements(itinerary) = {Errand("visit", Visited)} \cup Elements(Tail(itinerary))
         /\ Visited \in Paths
<1>1. itinerary \in Walks /\ itinerary # << >> /\ itinerary[1].op = "visit"
  BY DEF CustodyInv, Found, At
<1>2. /\ Tail(itinerary) \in Walks /\ itinerary[1] \in ErrandSet
      /\ Elements(itinerary) = {itinerary[1]} \cup Elements(Tail(itinerary))
  BY <1>1, SequenceElements
<1>3. Visited \in Paths /\ itinerary[1] = Errand("visit", Visited)
  BY <1>1, <1>2 DEF ErrandSet, Visited, Errand
<1>4. CASE disk[Visited].kind = "dir"
  <2>1. Errand("list", Visited) \in ErrandSet
    BY <1>3, <1>4 DEF ErrandSet, Errand, CustodyInv, Rooted
  <2>2. Descends(Visited) = <<Errand("list", Visited)>>
    BY <1>4 DEF Descends
  <2>3. /\ Descends(Visited) \in Walks
        /\ Elements(Descends(Visited)) = {Errand("list", Visited)}
    BY <2>1, <2>2, SequenceElements
  <2>4. /\ Descends(Visited) \o Tail(itinerary) \in Walks
        /\ Elements(Descends(Visited) \o Tail(itinerary)) =
             {Errand("list", Visited)} \cup Elements(Tail(itinerary))
    BY <1>2, <2>3, SequenceElements
  <2> QED
    BY <1>2, <1>3, <1>4, <2>4
<1>5. CASE disk[Visited].kind # "dir"
  <2>1. Descends(Visited) = << >>
    BY <1>5 DEF Descends
  <2>2. Descends(Visited) \in Walks /\ Elements(Descends(Visited)) = {}
    BY <2>1, SequenceElements
  <2>3. /\ Descends(Visited) \o Tail(itinerary) \in Walks
        /\ Elements(Descends(Visited) \o Tail(itinerary)) =
             Elements(Descends(Visited)) \cup Elements(Tail(itinerary))
    BY <1>2, <2>2, SequenceElements
  <2> QED
    BY <1>2, <1>3, <1>5, <2>2, <2>3
<1> QED
  BY <1>4, <1>5

\* A listing leaves the entries that are there to be visited.
LEMMA Listed ==
  ASSUME CustodyInv, List
  PROVE  /\ itinerary' \in Walks
         /\ Elements(itinerary') = Elements(Tail(itinerary))
              \cup {Errand("visit", q) : q \in {r \in Under(Visited) : Exists(r)}}
         /\ Elements(itinerary) = {Errand("list", Visited)} \cup Elements(Tail(itinerary))
         /\ Visited \in Dirs
<1>1. itinerary \in Walks /\ itinerary # << >> /\ itinerary[1].op = "list"
  BY DEF CustodyInv, Found, List, At
<1>2. /\ Tail(itinerary) \in Walks /\ itinerary[1] \in ErrandSet
      /\ Elements(itinerary) = {itinerary[1]} \cup Elements(Tail(itinerary))
  BY <1>1, SequenceElements
<1>3. Visited \in Dirs /\ itinerary[1] = Errand("list", Visited)
  BY <1>1, <1>2 DEF ErrandSet, Visited, Errand
<1> DEFINE present == {i \in DOMAIN Tree[Visited] : Exists(Tree[Visited][i])}
<1>4. PICK order \in [1 .. Cardinality(present) -> present] :
        /\ present = {order[k] : k \in DOMAIN order}
        /\ itinerary' = [k \in DOMAIN order |-> Errand("visit", Tree[Visited][order[k]])]
                         \o Tail(itinerary)
  BY DEF List, Listings
<1>5. Cardinality(present) \in Nat
  <2>1. Tree[Visited] \in Seq(Under(Visited))
    BY <1>3, CustodyAssumption DEF TreeAssumption
  <2>2. DOMAIN Tree[Visited] = 1 .. Len(Tree[Visited]) /\ Len(Tree[Visited]) \in Nat
    BY <2>1
  <2>3. IsFiniteSet(DOMAIN Tree[Visited])
    BY <2>2, FS_Interval
  <2> QED
    BY <2>3, FS_Subset, FS_CardinalityType
<1> DEFINE listed == [k \in DOMAIN order |-> Errand("visit", Tree[Visited][order[k]])]
<1>6. listed \in Walks
  <2>1. \A k \in 1 .. Cardinality(present) :
          Errand("visit", Tree[Visited][order[k]]) \in ErrandSet
    <3>1. \A i \in present : Tree[Visited][i] \in Paths
      BY <1>3 DEF Under, Paths
    <3> HIDE DEF present
    <3>2. \A k \in 1 .. Cardinality(present) : order[k] \in present
      BY <1>4
    <3> QED
      BY <3>1, <3>2 DEF ErrandSet, Errand
  <2> HIDE DEF present
  <2>2. DOMAIN order = 1 .. Cardinality(present)
    BY <1>4
  <2>3. listed = [k \in 1 .. Cardinality(present) |->
                   Errand("visit", Tree[Visited][order[k]])]
    BY <2>2
  <2> HIDE DEF listed
  <2> QED
    BY <1>5, <2>1, <2>3 DEF Walks
<1>7. Elements(listed) = {Errand("visit", q) : q \in {r \in Under(Visited) : Exists(r)}}
  <2>1. Elements(listed) = {Errand("visit", Tree[Visited][i]) : i \in present}
    <3> HIDE DEF present
    <3> QED
      BY <1>4 DEF Elements
  <2> QED
    BY <2>1 DEF Under
<1> HIDE DEF listed
<1>8. itinerary' = listed \o Tail(itinerary)
  BY <1>4 DEF listed
<1>9. /\ listed \o Tail(itinerary) \in Walks
      /\ Elements(listed \o Tail(itinerary)) = Elements(listed) \cup Elements(Tail(itinerary))
  BY <1>2, <1>6, SequenceElements
<1> QED
  BY <1>2, <1>3, <1>7, <1>8, <1>9

\* After a visit nothing else has dropped out of the walk.
LEMMA VisitOwed ==
  ASSUME CustodyInv, At("visit"), itinerary' = Descends(Visited) \o Tail(itinerary),
         NEW p \in Paths, Exists(p), Owed(p), p # Visited
  PROVE  Owed(p)'
<1>1. PICK e \in Elements(itinerary) : p \in Covers(e)
  BY DEF Owed
<1>2. CASE e \in Elements(Tail(itinerary))
  BY <1>1, <1>2, Descent DEF Owed
<1>3. CASE e = Errand("visit", Visited)
  <2>1. p \in Beneath(Visited) /\ Visited \in Paths
    BY <1>1, <1>3, Descent DEF Covers, Errand
  <2>2. disk[Visited].kind = "dir"
    BY <2>1, BelowDir DEF CustodyInv
  <2>3. Visited \in Dirs
    BY <2>1, <2>2 DEF CustodyInv, Rooted
  <2>4. p \in Covers(Errand("list", Visited))
    BY <2>1, <2>3, BeneathDir DEF Covers, Errand
  <2> QED
    BY <2>2, <2>4, Descent DEF Owed
<1> QED
  BY <1>1, <1>2, <1>3, Descent

\* Nor after a listing.
LEMMA ListOwed ==
  ASSUME CustodyInv, List, NEW p \in Paths, Exists(p), Owed(p)
  PROVE  Owed(p)'
<1>1. PICK e \in Elements(itinerary) : p \in Covers(e)
  BY DEF Owed
<1>2. CASE e \in Elements(Tail(itinerary))
  BY <1>1, <1>2, Listed DEF Owed
<1>3. CASE e = Errand("list", Visited)
  <2>1. PICK q \in Under(Visited) : p \in Beneath(q)
    BY <1>1, <1>3 DEF Covers, Errand
  <2>2. q \in Paths
    BY <2>1, Listed DEF Paths
  <2>3. Exists(q)
    BY <2>1, <2>2, BelowDir DEF CustodyInv
  <2>4. Errand("visit", q) \in Elements(itinerary') /\ p \in Covers(Errand("visit", q))
    BY <2>1, <2>3, Listed DEF Covers, Errand
  <2> QED
    BY <2>4 DEF Owed
<1> QED
  BY <1>1, <1>2, <1>3, Listed

-----------------------------------------------------------------------------

LEMMA DiskTypesStep ==
  ASSUME CustodyInv, [CustodyNext]_custodyVars
  PROVE  disk' \in [Paths -> Entries]
<1> USE DEF Entries, EntryKinds, Descriptors
<1>t. disk \in [Paths -> Entries] /\ itinerary \in Walks
  BY DEF CustodyInv, CustodyTypeOK, Found
<1>1. CASE Begin
  <2>1. [NoEntry EXCEPT !.kind = "dir"] \in Entries
    BY DEF NoEntry
  <2>2. UNCHANGED disk \/ disk' = [disk EXCEPT ![Top] = [NoEntry EXCEPT !.kind = "dir"]]
    BY <1>1 DEF Begin
  <2> QED
    BY <1>t, <2>1, <2>2
<1>2. CASE HealEntry
  <2>1. CASE UNCHANGED disk
    BY <1>t, <2>1
  <2>2. CASE At("visit") /\ disk' = [disk EXCEPT ![Visited].acl = Target(Visited)]
    <3>1. Visited \in Paths
      BY <1>t, <2>2, SequenceElements DEF At, Visited, ErrandSet
    <3>2. disk[Visited] \in Entries /\ Target(Visited) \in Descriptors
      BY <1>t, <3>1 DEF Target
    <3>3. [disk[Visited] EXCEPT !.acl = Target(Visited)] \in Entries
      BY <3>2
    <3> QED
      BY <1>t, <2>2, <3>1, <3>3
  <2> QED
    BY <1>2, <2>1, <2>2 DEF HealEntry
<1>3. ASSUME NEW dir \in Dirs, NEW p \in Paths, Creates(dir, p)
      PROVE  disk' \in [Paths -> Entries]
  <2> DEFINE born == IF p \in Dirs THEN "dir" ELSE "file"
             acl == IF p \in Secret THEN "locked" ELSE Inherits(dir)
  <2>1. born \in EntryKinds /\ acl \in Descriptors
    BY DEF Inherits
  <2>2. disk' = [disk EXCEPT ![p] = [kind |-> born, ours |-> TRUE, acl |-> acl]]
    BY <1>3 DEF Creates
  <2> HIDE DEF born, acl
  <2>3. [kind |-> born, ours |-> TRUE, acl |-> acl] \in Entries
    BY <2>1
  <2> QED
    BY <1>t, <2>2, <2>3
<1>4. ASSUME NEW dir \in Dirs, NEW p \in Paths, Intrudes(dir, p)
      PROVE  disk' \in [Paths -> Entries]
  BY <1>t, <1>4 DEF Intrudes
<1>5. ASSUME NEW p \in Paths, RenamesOver(p)
      PROVE  disk' \in [Paths -> Entries]
  <2>1. Temporary[p] \in Paths /\ NoEntry \in Entries
    BY <1>5, CustodyAssumption DEF RenamesOver, TemporaryAssumption, NoEntry
  <2> QED
    BY <1>t, <1>5, <2>1 DEF RenamesOver
<1>6. ASSUME NEW p \in Paths, Deletes(p)
      PROVE  disk' \in [Paths -> Entries]
  BY <1>t, <1>6 DEF Deletes, NoEntry
<1>7. CASE \/ CheckEntry \/ List \/ OperationFails \/ EndHeal \/ EndVerify \/ Ends
           \/ UNCHANGED custodyVars
  BY <1>t, <1>7
  DEF CheckEntry, List, OperationFails, EndHeal, EndVerify, Ends, custodyVars
<1> QED
  BY <1>1, <1>2, <1>3, <1>4, <1>5, <1>6, <1>7 DEF CustodyNext

\* A walk is a sequence of errands, and a service that does not walk has none.
LEMMA WalkStep ==
  ASSUME CustodyInv, [CustodyNext]_custodyVars
  PROVE  itinerary' \in Walks /\ NoWalk'
<1>t. itinerary \in Walks /\ NoWalk
  BY DEF CustodyInv, Found
<1>w. Walk \in Walks /\ << >> \in Walks
  <2>1. Errand("visit", Top) \in ErrandSet
    BY CustodyAssumption DEF Errand, ErrandSet
  <2> QED
    BY <2>1, SequenceElements DEF Walk
<1>1. CASE Begin \/ EndHeal \/ EndVerify \/ Ends
  BY <1>1, <1>w DEF Begin, EndHeal, EndVerify, Ends, NoWalk
<1>2. CASE HealEntry
  <2>1. itinerary # << >> /\ walking' = "heal"
    BY <1>2 DEF HealEntry, At
  <2>2. Tail(itinerary) \in Walks
    BY <1>t, <2>1, SequenceElements
  <2> QED
    BY <1>2, <2>1, <2>2, Descent DEF HealEntry, NoWalk
<1>3. CASE CheckEntry
  BY <1>3, Descent DEF CheckEntry, NoWalk
<1>4. CASE List
  <2>1. walking' = walking /\ itinerary # << >>
    BY <1>4 DEF List, At
  <2> QED
    BY <1>4, <1>t, <2>1, Listed DEF NoWalk
<1>5. CASE OperationFails
  BY <1>5, <1>t, SequenceElements DEF OperationFails, NoWalk
<1>6. CASE UNCHANGED <<walking, itinerary>>
  BY <1>6, <1>t DEF NoWalk
<1> QED
  BY <1>1, <1>2, <1>3, <1>4, <1>5, <1>6
  DEF CustodyNext, Creates, Intrudes, RenamesOver, Deletes, Change, custodyVars

LEMMA CustodyTypesStep ==
  ASSUME CustodyInv, [CustodyNext]_custodyVars
  PROVE  CustodyTypeOK'
<1>t. CustodyTypeOK
  BY DEF CustodyInv
<1>1. disk' \in [Paths -> Entries]
  BY DiskTypesStep
<1>2. itinerary' \in Seq([op : {"visit", "list"}, path : Paths])
  <2> DEFINE T == [op : {"visit", "list"}, path : Paths]
             S == ErrandSet
  <2>1. itinerary' \in Seq(S) /\ \A e \in S : e \in T
    BY WalkStep DEF Walks, ErrandSet
  <2> HIDE DEF S, T
  <2>2. /\ Len(itinerary') \in Nat /\ DOMAIN itinerary' = 1 .. Len(itinerary')
        /\ \A i \in 1 .. Len(itinerary') : itinerary'[i] \in S
        /\ itinerary' = [i \in 1 .. Len(itinerary') |-> itinerary'[i]]
    BY <2>1
  <2>3. itinerary' \in Seq(T)
    BY <2>1, <2>2
  <2> QED
    BY <2>3 DEF T
<1>3. walking' \in {"down", "heal", "verify", "up"}
  BY <1>t DEF CustodyTypeOK, CustodyNext, custodyVars, Begin, HealEntry,
    CheckEntry, List, OperationFails, EndHeal, EndVerify, Ends, Creates, Intrudes,
    RenamesOver, Deletes, Change
<1>4. problems' \in BOOLEAN
  BY <1>t DEF CustodyTypeOK, CustodyNext, custodyVars, Begin, HealEntry,
    CheckEntry, List, OperationFails, EndHeal, EndVerify, Ends, Creates, Intrudes,
    RenamesOver, Deletes, Change
<1>5. spoilt' \in BOOLEAN
  BY <1>t DEF CustodyTypeOK, CustodyNext, custodyVars, Begin, HealEntry,
    CheckEntry, List, OperationFails, EndHeal, EndVerify, Ends, Creates, Intrudes,
    RenamesOver, Deletes, Change
<1>6. hindered' \in BOOLEAN
  BY <1>t DEF CustodyTypeOK, CustodyNext, custodyVars, Begin, HealEntry,
    CheckEntry, List, OperationFails, EndHeal, EndVerify, Ends, Creates, Intrudes,
    RenamesOver, Deletes, Change
<1>7. moves' \in 0 .. MaxChanges /\ starts' \in 0 .. MaxStarts
  <2>1. CASE Begin
    BY <1>t, <2>1, CustodyAssumption DEF CustodyTypeOK, Begin
  <2>2. CASE HealEntry \/ CheckEntry \/ List \/ OperationFails \/ UNCHANGED custodyVars
    BY <1>t, <2>2 DEF CustodyTypeOK, HealEntry, CheckEntry, List, OperationFails,
      custodyVars
  <2>3. CASE EndHeal \/ EndVerify \/ Ends
    BY <1>t, <2>3 DEF CustodyTypeOK, EndHeal, EndVerify, Ends
  <2>4. CASE Change
    BY <1>t, <2>4, CustodyAssumption DEF CustodyTypeOK, Change
  <2> QED
    BY <2>1, <2>2, <2>3, <2>4 DEF CustodyNext, Creates, Intrudes, RenamesOver, Deletes
<1> QED
  BY <1>1, <1>2, <1>3, <1>4, <1>5, <1>6, <1>7 DEF CustodyTypeOK, Entries

-----------------------------------------------------------------------------

\* What an action makes of the entries.
LEMMA HealChanges ==
  ASSUME CustodyInv, HealEntry
  PROVE  /\ \A q \in Paths : disk'[q].kind = disk[q].kind /\ disk'[q].ours = disk[q].ours
         /\ \A q \in Paths \ {Visited} : disk'[q] = disk[q]
         /\ Visited \in Paths
         /\ \/ problems' /\ ~(Exists(Visited) /\ ~Untouchable(disk[Visited]))
                /\ itinerary' = Tail(itinerary)
            \/ /\ Exists(Visited) /\ ~Untouchable(disk[Visited]) /\ problems' = problems
               /\ disk'[Visited].acl = Target(Visited)
               /\ itinerary' = Descends(Visited) \o Tail(itinerary)
<1>1. disk \in [Paths -> Entries] /\ itinerary \in Walks
  BY DEF CustodyInv, CustodyTypeOK, Found, Entries
<1>2. Visited \in Paths
  BY <1>1, SequenceElements DEF HealEntry, At, Visited, ErrandSet
<1>3. CASE Exists(Visited) /\ ~Untouchable(disk[Visited])
  <2>1. disk' = [disk EXCEPT ![Visited].acl = Target(Visited)]
    BY <1>3 DEF HealEntry
  <2>2. disk[Visited] \in Entries
    BY <1>1, <1>2
  <2>3. disk'[Visited] = [disk[Visited] EXCEPT !.acl = Target(Visited)]
    BY <1>1, <1>2, <2>1
  <2>4. /\ disk'[Visited].kind = disk[Visited].kind
        /\ disk'[Visited].ours = disk[Visited].ours
        /\ disk'[Visited].acl = Target(Visited)
    BY <2>2, <2>3 DEF Entries
  <2>5. \A q \in Paths \ {Visited} : disk'[q] = disk[q]
    BY <1>1, <2>1
  <2> QED
    BY <1>2, <1>3, <2>4, <2>5 DEF HealEntry
<1>4. CASE ~(Exists(Visited) /\ ~Untouchable(disk[Visited]))
  BY <1>2, <1>4 DEF HealEntry
<1> QED
  BY <1>3, <1>4

LEMMA BeginChanges ==
  ASSUME CustodyInv, Begin
  PROVE  /\ \A q \in Paths \ {Top} : disk'[q] = disk[q]
         /\ \/ disk'[Top] = disk[Top] /\ (walking' = "heal" => Exists(Top))
            \/ ~Exists(Top) /\ disk'[Top].kind = "dir" /\ disk'[Top].ours
<1>1. disk \in [Paths -> Entries] /\ Top \in Paths
  BY DEF CustodyInv, CustodyTypeOK, Entries, Paths
<1>2. CASE UNCHANGED disk /\ (walking' = "heal" => Exists(Top))
  BY <1>2
<1>3. CASE ~Exists(Top) /\ disk' = [disk EXCEPT ![Top] = [NoEntry EXCEPT !.kind = "dir"]]
  BY <1>1, <1>3 DEF NoEntry
<1> QED
  BY <1>2, <1>3 DEF Begin

LEMMA CreateChanges ==
  ASSUME CustodyInv, NEW dir \in Dirs, NEW p \in Paths, Creates(dir, p)
  PROVE  /\ \A q \in Paths \ {p} : disk'[q] = disk[q]
         /\ disk'[p].kind = IF p \in Dirs THEN "dir" ELSE "file"
         /\ disk'[p].ours
         /\ disk'[p].acl = IF p \in Secret THEN "locked" ELSE Inherits(dir)
  BY DEF CustodyInv, CustodyTypeOK, Creates

LEMMA IntrudeChanges ==
  ASSUME CustodyInv, NEW dir \in Dirs, NEW p \in Paths, Intrudes(dir, p)
  PROVE  /\ \A q \in Paths \ {p} : disk'[q] = disk[q]
         /\ disk'[p].kind \in {"file", "link"}
  BY DEF CustodyInv, CustodyTypeOK, Intrudes

LEMMA RenameChanges ==
  ASSUME CustodyInv, NEW p \in Paths, RenamesOver(p), NEW next, next = Temporary[p]
  PROVE  /\ \A q \in Paths \ {p, next} : disk'[q] = disk[q]
         /\ disk'[p] = disk[next] /\ ~Exists(next)'
         /\ disk[next].kind = "file" /\ disk[p].kind \in {"none", "file"}
         /\ ~Untouchable(NoEntry) /\ disk'[next] = NoEntry /\ NoEntry.ours
         /\ {p, next} \subseteq Paths \ Dirs /\ p # next
         /\ next \notin DOMAIN Temporary /\ p \in DOMAIN Temporary
         /\ next \in Secret <=> p \in Secret
         /\ \A d \in Dirs : next \in Under(d) <=> p \in Under(d)
<1>1. p \in DOMAIN Temporary
  BY DEF RenamesOver
<1>2. /\ {p, next} \subseteq Paths \ Dirs /\ next \notin DOMAIN Temporary
      /\ next \in Secret <=> p \in Secret
      /\ \A d \in Dirs : next \in Under(d) <=> p \in Under(d)
  BY <1>1, CustodyAssumption DEF TemporaryAssumption
<1>3. disk \in [Paths -> Entries]
  BY DEF CustodyInv, CustodyTypeOK, Entries
<1>4. disk' = [disk EXCEPT ![p] = disk[next], ![next] = NoEntry]
  BY DEF RenamesOver
<1>5. disk'[p] = disk[next] /\ disk'[next] = NoEntry
  BY <1>1, <1>2, <1>3, <1>4
<1>6. \A q \in Paths \ {p, next} : disk'[q] = disk[q]
  BY <1>2, <1>3, <1>4
<1>7. disk[next].kind = "file" /\ disk[p].kind \in {"none", "file"}
  BY DEF RenamesOver
<1> QED
  BY <1>1, <1>2, <1>5, <1>6, <1>7 DEF Exists, NoEntry, Untouchable

LEMMA DeleteChanges ==
  ASSUME CustodyInv, NEW p \in Paths, Deletes(p)
  PROVE  /\ \A q \in Paths \ {p} : disk'[q] = disk[q]
         /\ disk'[p] = NoEntry /\ disk[p].kind = "file"
         /\ ~Untouchable(NoEntry) /\ NoEntry.ours /\ ~Exists(p)'
  BY DEF CustodyInv, CustodyTypeOK, Deletes, NoEntry, Untouchable, Exists

\* Only what is so known is there that the service may not change.
LEMMA SpoilingStep ==
  ASSUME CustodyInv, [CustodyNext]_custodyVars
  PROVE  Spoiling'
<1>s. Spoiling
  BY DEF CustodyInv
<1>1. CASE Begin
  BY <1>1, <1>s, BeginChanges DEF Begin, Spoiling, Untouchable
<1>2. CASE HealEntry
  BY <1>2, <1>s, HealChanges DEF HealEntry, Spoiling, Untouchable
<1>3. CASE Ends
  BY <1>3 DEF Ends, Spoiling, Untouchable
<1>4. CASE UNCHANGED <<disk, spoilt>>
  BY <1>4, <1>s DEF Spoiling, Untouchable
<1>5. ASSUME NEW dir \in Dirs, NEW p \in Paths, Creates(dir, p) PROVE Spoiling'
  BY <1>5, <1>s, CreateChanges DEF Creates, Spoiling, Untouchable
<1>6. ASSUME NEW dir \in Dirs, NEW p \in Paths, Intrudes(dir, p) PROVE Spoiling'
  BY <1>6 DEF Intrudes, Spoiling
<1>7. ASSUME NEW p \in Paths, RenamesOver(p) PROVE Spoiling'
  <2> DEFINE next == Temporary[p]
  <2>1. /\ disk'[p] = disk[next] /\ disk'[next] = NoEntry /\ next \in Paths
        /\ NoEntry.ours /\ ~Untouchable(NoEntry)
        /\ \A q \in Paths \ {p, next} : disk'[q] = disk[q]
    BY <1>7, RenameChanges
  <2>2. spoilt' = spoilt
    BY <1>7 DEF RenamesOver
  <2> HIDE DEF next
  <2> QED
    BY <1>s, <2>1, <2>2 DEF Spoiling
<1>8. ASSUME NEW p \in Paths, Deletes(p) PROVE Spoiling'
  BY <1>8, <1>s, DeleteChanges DEF Deletes, Spoiling, Untouchable
<1> QED
  BY <1>1, <1>2, <1>3, <1>4, <1>5, <1>6, <1>7, <1>8
  DEF CustodyNext, CheckEntry, List, OperationFails, EndHeal, EndVerify, custodyVars

\* An entry is in a directory.
LEMMA RootedStep ==
  ASSUME CustodyInv, [CustodyNext]_custodyVars
  PROVE  Rooted'
<1>s. Rooted /\ Dirs \subseteq Paths
  BY CustodyAssumption DEF CustodyInv
<1>1. CASE Begin
  BY <1>1, <1>s, BeginChanges, CustodyAssumption DEF TreeAssumption, Rooted, Exists
<1>2. CASE HealEntry
  BY <1>2, <1>s, HealChanges DEF Rooted, Exists
<1>3. CASE UNCHANGED disk
  BY <1>3, <1>s DEF Rooted, Exists
<1>4. ASSUME NEW dir \in Dirs, NEW p \in Paths, p \in Under(dir), ~Exists(p),
             disk[dir].kind = "dir", \A q \in Paths \ {p} : disk'[q] = disk[q],
             disk'[p].kind = "dir" => p \in Dirs
      PROVE  Rooted'
  <2>1. \A d \in Dirs : p \in Under(d) => d = dir
    BY <1>4, CustodyAssumption DEF TreeAssumption
  <2>2. p # dir
    BY <1>4 DEF Exists
  <2>3. ASSUME NEW q \in Paths, Exists(q)', NEW d \in Dirs, q \in Under(d)
        PROVE  disk'[d].kind = "dir"
    <3>1. CASE q = p
      BY <1>4, <1>s, <2>1, <2>2, <2>3, <3>1
    <3>2. CASE q # p
      BY <1>4, <1>s, <2>3, <3>2 DEF Rooted, Exists
    <3> QED
      BY <3>1, <3>2
  <2>4. \A q \in Paths : disk'[q].kind = "dir" => q \in Dirs
    BY <1>4, <1>s DEF Rooted
  <2> QED
    BY <2>3, <2>4 DEF Rooted
<1>5. ASSUME NEW dir \in Dirs, NEW p \in Paths, Creates(dir, p) PROVE Rooted'
  <2>1. p \in Under(dir) /\ ~Exists(p) /\ disk[dir].kind = "dir"
    BY <1>5 DEF Creates
  <2>2. disk'[p].kind = "dir" => p \in Dirs
    BY <1>5, CreateChanges
  <2>3. \A q \in Paths \ {p} : disk'[q] = disk[q]
    BY <1>5, CreateChanges
  <2> QED
    BY <1>4, <2>1, <2>2, <2>3
<1>6. ASSUME NEW dir \in Dirs, NEW p \in Paths, Intrudes(dir, p) PROVE Rooted'
  BY <1>4, <1>6, IntrudeChanges DEF Intrudes
<1>7. ASSUME NEW p \in Paths, RenamesOver(p) PROVE Rooted'
  BY <1>7, <1>s, RenameChanges DEF Rooted, Exists
<1>8. ASSUME NEW p \in Paths, Deletes(p) PROVE Rooted'
  BY <1>8, <1>s, DeleteChanges DEF Rooted, Exists
<1> QED
  BY <1>1, <1>2, <1>3, <1>5, <1>6, <1>7, <1>8
  DEF CustodyNext, CheckEntry, List, OperationFails, EndHeal, EndVerify, Ends,
    custodyVars

\* Nobody takes the data directory itself away.
LEMMA TopStep ==
  ASSUME CustodyInv, [CustodyNext]_custodyVars
  PROVE  TopThere'
<1>s. TopThere /\ Top \in Dirs /\ Top \in Paths
  BY CustodyAssumption DEF CustodyInv
<1>1. CASE Begin
  BY <1>1, <1>s, BeginChanges DEF Begin, TopThere, Exists
<1>2. CASE HealEntry
  BY <1>2, <1>s, HealChanges DEF HealEntry, TopThere, Exists
<1>3. CASE EndHeal \/ EndVerify \/ Ends
  BY <1>3, <1>s DEF EndHeal, EndVerify, Ends, TopThere, Exists
<1>4. CASE UNCHANGED <<disk, walking>>
  BY <1>4, <1>s DEF TopThere, Exists
<1>5. ASSUME NEW dir \in Dirs, NEW p \in Paths, Creates(dir, p) \/ Intrudes(dir, p)
      PROVE  TopThere'
  <2>1. p # Top /\ UNCHANGED walking
    BY <1>5, CustodyAssumption DEF Creates, Intrudes, Change, TreeAssumption
  <2>2. disk'[Top] = disk[Top]
    BY <1>5, <1>s, <2>1, CreateChanges, IntrudeChanges
  <2> QED
    BY <1>s, <2>1, <2>2 DEF TopThere, Exists
<1>6. ASSUME NEW p \in Paths, RenamesOver(p) PROVE TopThere'
  <2>1. /\ \A q \in Paths \ {p, Temporary[p]} : disk'[q] = disk[q]
        /\ {p, Temporary[p]} \subseteq Paths \ Dirs
    BY <1>6, RenameChanges
  <2>2. disk'[Top] = disk[Top] /\ UNCHANGED walking
    BY <1>6, <1>s, <2>1 DEF RenamesOver, Change
  <2> QED
    BY <1>s, <2>2 DEF TopThere, Exists
<1>7. ASSUME NEW p \in Paths, Deletes(p) PROVE TopThere'
  BY <1>7, <1>s, DeleteChanges DEF Deletes, Change, TopThere, Exists
<1> QED
  BY <1>1, <1>2, <1>3, <1>4, <1>5, <1>6, <1>7
  DEF CustodyNext, CheckEntry, List, OperationFails, custodyVars

\* What a walk has still to see is there, or one of them went away.
LEMMA FoundStep ==
  ASSUME CustodyInv, [CustodyNext]_custodyVars
  PROVE  Found'
<1>1. itinerary' \in Walks
  BY WalkStep
<1>f. Found /\ NoWalk /\ itinerary \in Walks /\ Dirs \subseteq Paths
  BY CustodyAssumption DEF CustodyInv, Found
<1> SUFFICES ASSUME NEW e \in Elements(itinerary') PROVE Exists(e.path)' \/ hindered'
  BY <1>1 DEF Found
<1>e. \A x \in ErrandSet : x.path \in Paths
  BY DEF ErrandSet
<1>p. e.path \in Paths
  BY <1>1, <1>e DEF Elements, Walks
<1>2. CASE itinerary' = << >>
  BY <1>2, SequenceElements
<1>3. CASE Begin
  <2>1. CASE itinerary' = Walk
    <3>1. e = Errand("visit", Top)
      BY <2>1, SequenceElements, CustodyAssumption DEF Walk, Errand, ErrandSet
    <3>2. Exists(Top)'
      BY <1>3, <1>1, TopStep, <2>1 DEF Begin, Exists, Walk, TopThere
    <3> QED
      BY <3>1, <3>2 DEF Errand
  <2> QED
    BY <1>2, <1>3, <2>1 DEF Begin
<1>4. CASE UNCHANGED <<disk, itinerary, hindered>>
  BY <1>4, <1>f DEF Found, Exists
<1>5. CASE HealEntry \/ CheckEntry
  <2>1. /\ At("visit") /\ UNCHANGED hindered
        /\ \/ itinerary' = Tail(itinerary)
           \/ itinerary' = Descends(Visited) \o Tail(itinerary)
    BY <1>5, HealChanges DEF HealEntry, CheckEntry
  <2>2. /\ Elements(itinerary) = {itinerary[1]} \cup Elements(Tail(itinerary))
    BY <2>1, <1>f, SequenceElements DEF At
  <2>3. \A q \in Paths : Exists(q)' <=> Exists(q)
    BY <1>5, HealChanges DEF CheckEntry, Exists
  <2>4. CASE e \in Elements(Tail(itinerary))
    BY <1>f, <1>p, <2>1, <2>2, <2>3, <2>4 DEF Found
  <2>5. CASE disk[Visited].kind = "dir" /\ e = Errand("list", Visited)
    BY <1>p, <2>3, <2>5 DEF Exists, Errand
  <2> QED
    BY <2>1, <2>4, <2>5, Descent
<1>6. CASE List
  <2>1. UNCHANGED <<disk, hindered>>
    BY <1>6 DEF List
  <2>2. CASE e \in Elements(itinerary)
    BY <1>f, <2>1, <2>2 DEF Found, Exists
  <2>3. CASE \E q \in Paths : Exists(q) /\ e = Errand("visit", q)
    BY <2>1, <2>3 DEF Exists, Errand
  <2>4. \A q \in Under(Visited) : q \in Paths
    BY <1>6, Listed DEF Paths
  <2> QED
    BY <1>6, <2>2, <2>3, <2>4, Listed
<1>7. CASE OperationFails
  BY <1>7 DEF OperationFails
<1>8. CASE EndHeal
  <2>1. CASE itinerary' = Walk /\ ~problems
    <3>1. e = Errand("visit", Top)
      BY <2>1, SequenceElements, CustodyAssumption DEF Walk, Errand, ErrandSet
    <3>2. Exists(Top)
      BY <1>8 DEF EndHeal, CustodyInv, TopThere
    <3> QED
      BY <1>8, <3>1, <3>2 DEF EndHeal, Errand, Exists
  <2> QED
    BY <1>2, <1>8, <2>1 DEF EndHeal
<1>9. ASSUME NEW dir \in Dirs, NEW p \in Paths, Creates(dir, p) \/ Intrudes(dir, p)
      PROVE  Exists(e.path)' \/ hindered'
  <2>1. \A q \in Paths \ {p} : disk'[q] = disk[q]
    BY <1>9, CreateChanges, IntrudeChanges
  <2>2. ~Exists(p) /\ UNCHANGED <<itinerary, hindered>>
    BY <1>9 DEF Creates, Intrudes, Change
  <2> QED
    BY <1>f, <1>p, <2>1, <2>2 DEF Found, Exists
<1>10. ASSUME NEW p \in Paths, RenamesOver(p) \/ Deletes(p)
       PROVE  Exists(e.path)' \/ hindered'
  <2>1. CASE itinerary # << >>
    BY <1>10, <2>1 DEF RenamesOver, Deletes
  <2> QED
    BY <1>2, <1>10, <2>1 DEF RenamesOver, Deletes, Change
<1> QED
  BY <1>2, <1>3, <1>4, <1>5, <1>6, <1>7, <1>8, <1>9, <1>10
  DEF CustodyNext, EndVerify, Ends, custodyVars

\* A walk that begins covers everything.
LEMMA WalkCovers ==
  ASSUME itinerary' = Walk, NEW p \in Paths
  PROVE  Owed(p)'
<1>1. Errand("visit", Top) \in ErrandSet
  BY CustodyAssumption DEF Errand, ErrandSet
<1>2. Elements(itinerary') = {Errand("visit", Top)}
  BY <1>1, SequenceElements DEF Walk
<1>3. p \in Covers(Errand("visit", Top))
  BY BeneathLeast DEF Covers, Errand
<1> QED
  BY <1>2, <1>3 DEF Owed

\* What an errand covers is covered with what is below it.
LEMMA OwedBelow ==
  ASSUME CustodyInv, NEW dir \in Dirs, NEW p \in Under(dir), Owed(dir)
  PROVE  Owed(p)
<1>1. PICK e \in Elements(itinerary) : dir \in Covers(e)
  BY DEF Owed
<1>2. e \in ErrandSet
  BY DEF CustodyInv, Found, Walks, Elements
<1>3. p \in Covers(e)
  BY <1>1, <1>2, CoversClosed DEF Closed
<1> QED
  BY <1>3 DEF Owed

LEMMA OwedSame ==
  ASSUME UNCHANGED itinerary
  PROVE  \A p : Owed(p)' <=> Owed(p)
BY DEF Owed

LEMMA NothingOwed ==
  ASSUME itinerary = << >>
  PROVE  \A p : ~Owed(p)
BY SequenceElements DEF Owed

\* A problem has a reason.
LEMMA FaultedStep ==
  ASSUME CustodyInv, [CustodyNext]_custodyVars
  PROVE  Faulted'
<1>s. /\ Faulted /\ Spoiling /\ Found /\ Sealed /\ NoWalk /\ itinerary \in Walks
      /\ Top \in Paths /\ Dirs \subseteq Paths /\ disk \in [Paths -> Entries]
  BY CustodyAssumption DEF CustodyInv, Found, CustodyTypeOK, Entries
<1>1. CASE Begin
  BY <1>1, <1>s DEF Begin, Faulted, Spoiling, Untouchable
<1>2. CASE HealEntry
  <2>1. CASE UNCHANGED problems
    BY <1>2, <1>s, <2>1 DEF HealEntry, Faulted
  <2>2. CASE ~(Exists(Visited) /\ ~Untouchable(disk[Visited]))
    <3>1. itinerary[1] \in Elements(itinerary) /\ Visited \in Paths
      BY <1>2, <1>s, HealChanges, SequenceElements DEF HealEntry, At
    <3>2. Exists(Visited) \/ hindered
      BY <1>s, <3>1 DEF Found, Visited
    <3> QED
      BY <1>2, <1>s, <2>2, <3>1, <3>2 DEF HealEntry, Faulted, Spoiling
  <2> QED
    BY <1>2, <2>1, <2>2 DEF HealEntry
<1>3. CASE CheckEntry
  <2>1. CASE problems \/ Verified(Visited)
    BY <1>3, <1>s, <2>1 DEF CheckEntry, Faulted
  <2>2. CASE ~problems /\ ~Verified(Visited)
    <3>1. /\ itinerary[1] \in Elements(itinerary) /\ Visited \in Paths
          /\ walking = "verify"
      BY <1>3, <1>s, Descent, SequenceElements DEF CheckEntry, At
    <3>2. Exists(Visited) \/ hindered
      BY <1>s, <3>1 DEF Found, Visited
    <3>3. disk[Visited].kind \in EntryKinds
      BY <1>s, <3>1 DEF Entries
    <3>4. CASE Exists(Visited) /\ disk[Visited].acl = Target(Visited)
      <4>1. Untouchable(disk[Visited]) \/ ~disk[Visited].ours
        BY <2>2, <3>3, <3>4, CustodyAssumption
        DEF Verified, Target, Untouchable, EntryKinds, Exists
      <4> QED
        BY <1>3, <1>s, <3>1, <4>1 DEF CheckEntry, Faulted, Spoiling
    <3>5. CASE Exists(Visited) /\ disk[Visited].acl # Target(Visited)
      BY <1>3, <1>s, <2>2, <3>1, <3>5 DEF CheckEntry, Faulted, Sealed
    <3> QED
      BY <1>3, <3>1, <3>2, <3>4, <3>5 DEF CheckEntry, Faulted
  <2> QED
    BY <2>1, <2>2
<1>4. CASE OperationFails
  BY <1>4, <1>s DEF OperationFails, Faulted, NoWalk
<1>5. CASE EndHeal \/ EndVerify
  <2>1. /\ walking # "down" /\ walking' # "down"
        /\ UNCHANGED <<problems, spoilt, hindered>>
    BY <1>5 DEF EndHeal, EndVerify
  <2> QED
    BY <1>s, <2>1 DEF Faulted
<1>7. CASE Ends
  BY <1>7 DEF Ends, Faulted
<1>6. CASE UNCHANGED <<walking, problems>> /\ (spoilt => spoilt') /\ (hindered => hindered')
  BY <1>6, <1>s DEF Faulted
<1>8. CASE List \/ UNCHANGED custodyVars
  BY <1>6, <1>8 DEF List, custodyVars
<1>9. ASSUME NEW dir \in Dirs, NEW p \in Paths, Creates(dir, p) \/ Intrudes(dir, p)
      PROVE  Faulted'
  BY <1>6, <1>9 DEF Creates, Intrudes, Change
<1>10. ASSUME NEW p \in Paths, RenamesOver(p) \/ Deletes(p) PROVE Faulted'
  BY <1>6, <1>10 DEF RenamesOver, Deletes, Change
<1> QED
  BY <1>1, <1>2, <1>3, <1>4, <1>5, <1>7, <1>8, <1>9, <1>10 DEF CustodyNext

\* Until a problem is met, what is not as it should be has still to be seen, or is a
\* file that was renamed while the service walked.
LEMMA SealedStep ==
  ASSUME CustodyInv, [CustodyNext]_custodyVars
  PROVE  Sealed'
<1>s. /\ Sealed /\ Rooted /\ NoWalk
      /\ Top \in Paths /\ Dirs \subseteq Paths /\ disk \in [Paths -> Entries]
  BY CustodyAssumption DEF CustodyInv, CustodyTypeOK, Entries
<1>1. CASE Begin
  <2>1. CASE problems'
    BY <2>1 DEF Sealed
  <2>2. CASE walking' = "heal" /\ itinerary' = Walk
    BY <2>2, WalkCovers DEF Sealed
  <2> QED
    BY <1>1, <2>1, <2>2 DEF Begin
<1>2. CASE HealEntry
  <2> SUFFICES ASSUME ~problems', NEW p \in Paths, Exists(p)'
               PROVE  \/ disk'[p].acl = Target(p)
                      \/ walking' = "heal" /\ Owed(p)'
                      \/ p \in DOMAIN Temporary /\ hindered' /\ walking' = "heal"
    BY DEF Sealed
  <2>1. /\ walking = "heal" /\ walking' = "heal" /\ UNCHANGED hindered /\ At("visit")
        /\ disk'[Visited].acl = Target(Visited) /\ ~problems
        /\ itinerary' = Descends(Visited) \o Tail(itinerary)
        /\ \A q \in Paths \ {Visited} : disk'[q] = disk[q]
    <3>1. walking = "heal" /\ walking' = "heal" /\ UNCHANGED hindered /\ At("visit")
      BY <1>2 DEF HealEntry
    <3>2. /\ problems' = problems /\ disk'[Visited].acl = Target(Visited)
          /\ itinerary' = Descends(Visited) \o Tail(itinerary)
      BY <1>2, HealChanges
    <3>3. \A q \in Paths \ {Visited} : disk'[q] = disk[q]
      BY <1>2, HealChanges
    <3> QED
      BY <3>1, <3>2, <3>3
  <2>2. CASE p = Visited
    BY <2>1, <2>2
  <2>3. CASE p # Visited
    BY <1>s, <2>1, <2>3, VisitOwed DEF Sealed, Exists
  <2> QED
    BY <2>2, <2>3
<1>3. CASE CheckEntry
  <2> SUFFICES ASSUME ~problems', NEW p \in Paths, Exists(p)'
               PROVE  \/ disk'[p].acl = Target(p)
                      \/ /\ p \in DOMAIN Temporary /\ hindered'
                         /\ Fine(p)' \/ Owed(p)'
    BY DEF Sealed
  <2>1. /\ walking = "verify" /\ UNCHANGED <<disk, hindered>> /\ ~problems
        /\ At("visit") /\ itinerary' = Descends(Visited) \o Tail(itinerary)
        /\ Verified(Visited)
    BY <1>3 DEF CheckEntry
  <2>2. \/ disk[p].acl = Target(p)
        \/ /\ p \in DOMAIN Temporary /\ hindered
           /\ Fine(p) \/ Owed(p)
    BY <1>s, <2>1 DEF Sealed, Exists
  <2>3. Fine(p)' <=> Fine(p)
    BY <2>1 DEF Fine
  <2>4. p = Visited => Fine(p)
    BY <2>1 DEF Verified, Fine
  <2>5. p # Visited /\ Owed(p) => Owed(p)'
    BY <2>1, VisitOwed DEF Exists
  <2> QED
    BY <2>1, <2>2, <2>3, <2>4, <2>5
<1>4. CASE List
  <2> SUFFICES ASSUME walking # "down", ~problems, NEW p \in Paths, Exists(p)
               PROVE  \/ disk[p].acl = Target(p)
                      \/ walking = "heal" /\ Owed(p)'
                      \/ /\ p \in DOMAIN Temporary /\ hindered
                         /\ walking = "heal" \/ Fine(p) \/ Owed(p)'
    BY <1>4 DEF List, Sealed, Exists, Fine
  <2>1. Owed(p) => Owed(p)'
    BY <1>4, ListOwed
  <2> QED
    BY <1>s, <2>1 DEF Sealed
<1>5. CASE OperationFails
  BY <1>5 DEF OperationFails, Sealed
<1>6. CASE EndHeal
  <2>1. CASE problems'
    BY <2>1 DEF Sealed
  <2>2. CASE /\ walking = "heal" /\ ~problems /\ UNCHANGED <<disk, hindered>>
             /\ itinerary = << >> /\ itinerary' = Walk
    BY <1>s, <2>2, WalkCovers, NothingOwed DEF Sealed, Exists
  <2> QED
    BY <1>6, <2>1, <2>2 DEF EndHeal
<1>7. CASE EndVerify
  BY <1>7, <1>s, OwedSame DEF EndVerify, Sealed, Exists, Fine
<1>8. CASE Ends
  BY <1>8 DEF Ends, Sealed
<1>9. CASE UNCHANGED custodyVars
  BY <1>9, <1>s, OwedSame DEF custodyVars, Sealed, Exists, Fine
<1>10. ASSUME NEW p \in Paths, Deletes(p) PROVE Sealed'
  <2>1. /\ UNCHANGED <<walking, problems, itinerary>> /\ (hindered => hindered')
        /\ ~Exists(p)' /\ \A q \in Paths \ {p} : disk'[q] = disk[q]
    BY <1>10, DeleteChanges DEF Deletes, Change
  <2>2. \A q \in Paths : Exists(q)' => q # p /\ Exists(q) /\ (Fine(q) => Fine(q)')
    BY <2>1 DEF Exists, Fine
  <2> QED
    BY <1>s, <2>1, <2>2, OwedSame DEF Sealed
<1>t. ASSUME NEW dir \in Dirs, disk[dir].kind = "dir", walking # "down", ~problems
      PROVE  disk[dir].acl = Target(dir) \/ (walking = "heal" /\ Owed(dir))
  <2>1. dir \notin DOMAIN Temporary /\ Exists(dir) /\ dir \in Paths
    BY <1>s, <1>t, CustodyAssumption DEF Exists, TemporaryAssumption
  <2> QED
    BY <1>s, <1>t, <2>1 DEF Sealed
<1>11. ASSUME NEW dir \in Dirs, NEW p \in Paths, p \in Under(dir),
              disk[dir].kind = "dir", Change, UNCHANGED hindered,
              \A q \in Paths \ {p} : disk'[q] = disk[q],
              disk'[p].acl = Target(p) \/ disk[dir].acl # Target(dir)
       PROVE  Sealed'
  <2> SUFFICES ASSUME walking # "down", ~problems, NEW q \in Paths, Exists(q)'
               PROVE  \/ disk'[q].acl = Target(q)
                      \/ walking = "heal" /\ Owed(q)
                      \/ /\ q \in DOMAIN Temporary /\ hindered
                         /\ walking = "heal" \/ Fine(q)' \/ Owed(q)
    BY <1>11, OwedSame DEF Change, Sealed
  <2>1. CASE q # p
    BY <1>11, <1>s, <2>1 DEF Sealed, Exists, Fine
  <2>2. CASE q = p /\ disk'[p].acl # Target(p)
    BY <1>11, <1>t, <2>2, OwedBelow
  <2> QED
    BY <2>1, <2>2
<1>12. ASSUME NEW dir \in Dirs, NEW p \in Paths, Creates(dir, p) PROVE Sealed'
  <2>1. /\ p \in Under(dir) /\ disk[dir].kind = "dir" /\ Change /\ UNCHANGED hindered
    BY <1>12 DEF Creates
  <2>2. p # Top /\ dir \notin Secret
    BY <2>1, CustodyAssumption DEF TreeAssumption
  <2>3. disk[dir].acl = Target(dir) => disk'[p].acl = Target(p)
    BY <1>12, <2>2, CreateChanges DEF Target, Inherits
  <2>4. \A q \in Paths \ {p} : disk'[q] = disk[q]
    BY <1>12, CreateChanges
  <2> QED
    BY <1>11, <2>1, <2>3, <2>4
<1>13. ASSUME NEW dir \in Dirs, NEW p \in Paths, Intrudes(dir, p) PROVE Sealed'
  <2>1. /\ p \in Under(dir) /\ disk[dir].kind = "dir" /\ Change /\ UNCHANGED hindered
        /\ disk[dir].acl # Target(dir)
    BY <1>13 DEF Intrudes, Target
  <2>2. \A q \in Paths \ {p} : disk'[q] = disk[q]
    BY <1>13, IntrudeChanges
  <2> QED
    BY <1>11, <2>1, <2>2
<1>14. ASSUME NEW p \in Paths, RenamesOver(p) PROVE Sealed'
  <2> DEFINE next == Temporary[p]
  <2>1. /\ \A q \in Paths \ {p, next} : disk'[q] = disk[q]
        /\ disk'[p] = disk[next] /\ ~Exists(next)' /\ Exists(next)
        /\ {p, next} \subseteq Paths \ Dirs /\ next \notin DOMAIN Temporary
        /\ p \in DOMAIN Temporary /\ (next \in Secret <=> p \in Secret)
    BY <1>14, RenameChanges DEF Exists
  <2>2. /\ UNCHANGED <<walking, problems, itinerary>>
        /\ (hindered => hindered') /\ (itinerary # << >> => hindered')
    BY <1>14 DEF RenamesOver, Change
  <2> HIDE DEF next
  <2>3. Target(next) = Target(p)
    BY <2>1, CustodyAssumption DEF Target
  <2> SUFFICES ASSUME walking # "down", ~problems, NEW q \in Paths, Exists(q)'
               PROVE  \/ disk'[q].acl = Target(q)
                      \/ walking = "heal" /\ Owed(q)
                      \/ /\ q \in DOMAIN Temporary /\ hindered'
                         /\ walking = "heal" \/ Fine(q)' \/ Owed(q)
    BY <2>2, OwedSame DEF Sealed
  <2>4. CASE q # p
    <3>1. q # next /\ disk'[q] = disk[q] /\ Exists(q) /\ (Fine(q) => Fine(q)')
      BY <2>1, <2>4 DEF Exists, Fine
    <3> QED
      BY <1>s, <2>2, <3>1 DEF Sealed
  <2>5. CASE q = p /\ disk[next].acl # Target(next)
    <3>1. walking = "heal" /\ Owed(next)
      BY <1>s, <2>1, <2>5 DEF Sealed
    <3> QED
      BY <2>1, <2>2, <2>5, <3>1, NothingOwed
  <2> QED
    BY <2>1, <2>3, <2>4, <2>5
<1> QED
  BY <1>1, <1>2, <1>3, <1>4, <1>5, <1>6, <1>7, <1>8, <1>9, <1>10, <1>12, <1>13, <1>14
  DEF CustodyNext

\* What verify has seen is the service's own, or known not to be.
LEMMA OwnedStep ==
  ASSUME CustodyInv, [CustodyNext]_custodyVars
  PROVE  Owned'
<1>s. /\ Owned /\ Sealed /\ Spoiling /\ NoWalk
      /\ Top \in Paths /\ Dirs \subseteq Paths /\ disk \in [Paths -> Entries]
  BY CustodyAssumption DEF CustodyInv, CustodyTypeOK, Entries
<1>1. CASE problems' \/ walking' \in {"down", "heal"}
  BY <1>1 DEF Owned
<1>2. CASE CheckEntry
  <2> SUFFICES ASSUME ~problems', NEW p \in Paths, Exists(p)'
               PROVE  \/ disk'[p].ours /\ ~Untouchable(disk'[p])
                      \/ Owed(p)'
                      \/ spoilt' /\ hindered'
    BY DEF Owned
  <2>1. /\ walking = "verify" /\ UNCHANGED <<disk, spoilt, hindered>> /\ ~problems
        /\ At("visit") /\ itinerary' = Descends(Visited) \o Tail(itinerary)
        /\ Verified(Visited)
    BY <1>2 DEF CheckEntry
  <2>2. CASE p = Visited
    BY <2>1, <2>2 DEF Verified, Untouchable
  <2>3. CASE p # Visited
    BY <1>s, <2>1, <2>3, VisitOwed DEF Owned, Exists
  <2> QED
    BY <2>2, <2>3
<1>3. CASE List
  <2> SUFFICES ASSUME walking \in {"verify", "up"}, ~problems, NEW p \in Paths, Exists(p)
               PROVE  \/ disk[p].ours /\ ~Untouchable(disk[p])
                      \/ Owed(p)'
                      \/ spoilt /\ hindered
    BY <1>3 DEF List, Owned, Exists
  <2>1. Owed(p) => Owed(p)'
    BY <1>3, ListOwed
  <2> QED
    BY <1>s, <2>1 DEF Owned
<1>4. CASE EndHeal
  <2>1. CASE itinerary' = Walk
    BY <2>1, WalkCovers DEF Owned
  <2> QED
    BY <1>1, <1>4, <2>1 DEF EndHeal
<1>5. CASE EndVerify \/ UNCHANGED custodyVars
  <2>1. UNCHANGED <<disk, itinerary, problems, spoilt, hindered>>
    BY <1>5 DEF EndVerify, custodyVars
  <2>2. walking' \in {"verify", "up"} => walking \in {"verify", "up"}
    BY <1>5 DEF EndVerify, custodyVars
  <2> QED
    BY <1>s, <2>1, <2>2, OwedSame DEF Owned, Exists
<1>6. ASSUME NEW p \in Paths, Change, (spoilt /\ hindered) => (spoilt' /\ hindered'),
             \A q \in Paths \ {p} : Exists(q)' => disk'[q] = disk[q],
             Exists(p)' =>
                \/ disk'[p].ours /\ ~Untouchable(disk'[p])
                \/ spoilt' /\ hindered'
                \/ walking \notin {"verify", "up"} \/ problems
      PROVE  Owned'
  <2>1. \A q \in Paths \ {p} : Exists(q)' => Exists(q)
    BY <1>6 DEF Exists
  <2> QED
    BY <1>6, <1>s, <2>1, OwedSame DEF Change, Owned
<1>7. ASSUME NEW dir \in Dirs, NEW p \in Paths, Creates(dir, p) PROVE Owned'
  <2>1. disk'[p].ours /\ ~Untouchable(disk'[p])
    BY <1>7, CreateChanges DEF Untouchable
  <2>2. \A q \in Paths \ {p} : disk'[q] = disk[q]
    BY <1>7, CreateChanges
  <2>3. Change /\ UNCHANGED <<spoilt, hindered>>
    BY <1>7 DEF Creates
  <2>4. (spoilt /\ hindered) => (spoilt' /\ hindered')
    BY <2>3
  <2>5. Exists(p)' =>
           \/ disk'[p].ours /\ ~Untouchable(disk'[p])
           \/ spoilt' /\ hindered'
           \/ walking \notin {"verify", "up"} \/ problems
    BY <2>1
  <2>6. \A q \in Paths \ {p} : Exists(q)' => disk'[q] = disk[q]
    BY <2>2
  <2> QED
    BY <1>6, <2>3, <2>4, <2>5, <2>6
<1>8. ASSUME NEW dir \in Dirs, NEW p \in Paths, Intrudes(dir, p) PROVE Owned'
  <2>1. disk[dir].acl # Target(dir) /\ Exists(dir) /\ dir \notin DOMAIN Temporary
    BY <1>8, CustodyAssumption DEF Intrudes, Target, Exists, TemporaryAssumption
  <2>2. walking \notin {"verify", "up"} \/ problems
    BY <1>s, <2>1 DEF Sealed
  <2> QED
    BY <1>1, <1>8, <2>2, <1>6, IntrudeChanges DEF Intrudes
<1>9. ASSUME NEW p \in Paths, Deletes(p) PROVE Owned'
  <2>1. ~Exists(p)' /\ \A q \in Paths \ {p} : disk'[q] = disk[q]
    BY <1>9, DeleteChanges
  <2> QED
    BY <1>6, <1>9, <2>1 DEF Deletes
<1>10. ASSUME NEW p \in Paths, RenamesOver(p) PROVE Owned'
  <2> DEFINE next == Temporary[p]
  <2>1. /\ \A q \in Paths \ {p, next} : disk'[q] = disk[q]
        /\ disk'[p] = disk[next] /\ ~Exists(next)' /\ Exists(next)
        /\ next \in Paths
    BY <1>10, RenameChanges DEF Exists
  <2>2. /\ Change /\ UNCHANGED spoilt
        /\ (hindered => hindered') /\ (itinerary # << >> => hindered')
    BY <1>10 DEF RenamesOver
  <2> HIDE DEF next
  <2>3. \/ disk[next].ours /\ ~Untouchable(disk[next])
        \/ spoilt' /\ hindered'
        \/ walking \notin {"verify", "up"} \/ problems
    BY <1>s, <2>1, <2>2, NothingOwed DEF Owned, Spoiling
  <2>4. \A q \in Paths \ {p} : Exists(q)' => disk'[q] = disk[q]
    BY <2>1
  <2>5. Exists(p)' =>
           \/ disk'[p].ours /\ ~Untouchable(disk'[p])
           \/ spoilt' /\ hindered'
           \/ walking \notin {"verify", "up"} \/ problems
    BY <2>1, <2>3 DEF Untouchable
  <2>6. (spoilt /\ hindered) => (spoilt' /\ hindered')
    BY <2>2
  <2> QED
    BY <1>6, <2>2, <2>4, <2>5, <2>6
<1> QED
  BY <1>1, <1>2, <1>3, <1>4, <1>5, <1>7, <1>8, <1>9, <1>10
  DEF CustodyNext, Begin, HealEntry, OperationFails, Ends

LEMMA CustodyInvariance == CustodySpec => []CustodyInv
<1>1. CustodyInit => CustodyInv
  <2> SUFFICES ASSUME CustodyInit PROVE CustodyInv
    OBVIOUS
  <2> USE CustodyAssumption DEF CustodyInit
  <2>1. disk \in [Paths -> Entries] /\ Top \in Paths
    BY DEF Entries
  <2>2. CustodyTypeOK
    <3>1. << >> \in Seq([op : {"visit", "list"}, path : Paths])
      OBVIOUS
    <3>2. spoilt \in BOOLEAN
      OBVIOUS
    <3>3. moves \in 0 .. MaxChanges /\ starts \in 0 .. MaxStarts
      OBVIOUS
    <3>4. walking = "down" /\ itinerary = << >> /\ problems = FALSE /\ hindered = FALSE
      OBVIOUS
    <3> QED
      BY ONLY <2>1, <3>1, <3>2, <3>3, <3>4 DEF CustodyTypeOK, Entries
  <2>3. Spoiling
    BY DEF Spoiling
  <2>4. Rooted
    BY DEF Rooted, Exists
  <2>5. TopThere
    BY DEF TopThere
  <2>6. Found /\ NoWalk
    BY SequenceElements DEF Found, NoWalk
  <2>7. Faulted /\ Sealed /\ Owned
    BY DEF Faulted, Sealed, Owned
  <2> QED
    BY <2>2, <2>3, <2>4, <2>5, <2>6, <2>7 DEF CustodyInv
<1>2. CustodyInv /\ [CustodyNext]_custodyVars => CustodyInv'
  BY CustodyTypesStep, SpoilingStep, RootedStep, TopStep, FoundStep, FaultedStep,
    WalkStep,
     SealedStep, OwnedStep
  DEF CustodyInv
<1> QED
  BY <1>1, <1>2, PTL DEF CustodySpec

\* The entries, the walk and its flags keep their types (datadir.py).
THEOREM CustodyIsTyped == CustodySpec => []CustodyTypeOK
<1>1. CustodyInv => CustodyTypeOK
  BY DEF CustodyInv
<1> QED
  BY <1>1, CustodyInvariance, PTL

\* A service that holds its directory for secure is right about every entry in it,
\* those written since included, and one that does not has met an entry it may not
\* change, a failed operation or one that went away (datadir.py heal_data_dir).
THEOREM CustodyHolds == CustodySpec => []CustodyTrue
<1>1. CustodyInv => CustodyTrue
  <2> SUFFICES ASSUME CustodyInv, walking = "up"
               PROVE  IF problems THEN spoilt \/ hindered
                      ELSE \/ spoilt /\ hindered
                           \/ \A p \in Paths : Exists(p) =>
                                Verified(p) /\ (hindered \/ disk[p].acl = Target(p))
    BY DEF CustodyTrue
  <2>1. CASE problems
    BY <2>1 DEF CustodyInv, Faulted
  <2>2. ASSUME ~problems, ~(spoilt /\ hindered), NEW p \in Paths, Exists(p)
        PROVE  Verified(p) /\ (hindered \/ disk[p].acl = Target(p))
    <3>1. ~Owed(p)
      BY NothingOwed DEF CustodyInv, NoWalk
    <3>2. disk[p].ours /\ ~Untouchable(disk[p])
      BY <2>2, <3>1 DEF CustodyInv, Owned
    <3>3. disk[p].acl = Target(p) \/ (p \in DOMAIN Temporary /\ hindered /\ Fine(p))
      <4>1. Sealed
        BY DEF CustodyInv
      <4> QED
        BY <2>2, <3>1, <4>1 DEF Sealed
    <3>4. disk[p].kind \in {"file", "dir"}
      BY <2>2, <3>2 DEF CustodyInv, CustodyTypeOK, EntryKinds, Exists, Untouchable
    <3>5. p \in DOMAIN Temporary => p # Top
      BY CustodyAssumption DEF TemporaryAssumption
    <3>6. Top \notin Secret
      BY CustodyAssumption
    <3> QED
      BY <3>2, <3>3, <3>4, <3>5, <3>6 DEF Verified, Target, Fine
  <2> QED
    BY <2>1, <2>2
<1> QED
  BY <1>1, CustodyInvariance, PTL

=============================================================================
