---------------------------- MODULE RecordsProofs ----------------------------
(***************************************************************************)
(* Proofs about what the service keeps of its attempts: the strikes of the *)
(* face lockout, the audit log and the diagnostic frames. Every theorem is *)
(* about the specification of one of the three alone.                      *)
(***************************************************************************)
EXTENDS Lockout, Traces, FiniteSetTheorems, TLAPS

-----------------------------------------------------------------------------
(***************************************************************************)
(* Lockout: its types, the agreement of file and memory when saves succeed, *)
(* and that it then implements StrikeLedger.                               *)
(***************************************************************************)

USE DEF LockoutState, Clean

\* What one failed attempt leaves is a lockout state.
LEMMA AfterFailureType ==
  ASSUME NEW l \in LockoutState, NEW t \in Nat, NEW m \in Nat, NEW s \in Nat
  PROVE  AfterFailure(l, t, m, s) \in LockoutState
  BY DEF AfterFailure

-----------------------------------------------------------------------------

\* A save leaves a sane file whatever becomes of it.
LEMMA SaveType ==
  ASSUME TypeOK, NEW new \in LockoutState, Save(new)
  PROVE  readable' \in BOOLEAN /\ disk' \in LockoutState
  BY DEF TypeOK, Save, file

LEMMA TypeInit == Init => TypeOK
  BY LockoutAssumption DEF Init, TypeOK, Loaded

LEMMA TypeStep == TypeOK /\ [Next]_vars => TypeOK'
<1> SUFFICES ASSUME TypeOK, [Next]_vars PROVE TypeOK'
  OBVIOUS
<1> USE LockoutAssumption
<1>1. CASE RecordSuccess
  BY <1>1, SaveType DEF RecordSuccess, TypeOK, config, file
<1>2. CASE RecordFailure
  <2>1. mem' \in LockoutState
    BY <1>2, AfterFailureType DEF RecordFailure, TypeOK
  <2>2. readable' \in BOOLEAN /\ disk' \in LockoutState
    BY <1>2, <2>1, SaveType DEF RecordFailure, TypeOK, file
  <2> QED
    BY <1>2, <2>1, <2>2 DEF RecordFailure, TypeOK, config, file
<1>3. CASE Reset
  BY <1>3, SaveType DEF Reset, TypeOK, config
<1>4. CASE Reconfigure
  BY <1>4 DEF Reconfigure, TypeOK, file
<1>5. CASE Die
  BY <1>5 DEF Die, TypeOK, config, file
<1>6. CASE Start
  BY <1>6 DEF Start, Loaded, TypeOK, file
<1>7. CASE ClockMoves
  BY <1>7 DEF ClockMoves, TypeOK, config, file
<1>8. CASE UNCHANGED vars
  BY <1>8 DEF vars, config, file, TypeOK
<1> QED
  BY <1>1, <1>2, <1>3, <1>4, <1>5, <1>6, <1>7, <1>8 DEF Next

\* In every behaviour of lockout.py, restarts included, the state keeps its shape.
THEOREM TypeCorrect == Spec => []TypeOK
  BY TypeInit, TypeStep, PTL DEF Spec

-----------------------------------------------------------------------------

LEMMA CurrentInit == Init => DiskCurrent
  BY DEF Init, DiskCurrent

LEMMA CurrentStep == TypeOK /\ DiskCurrent /\ [Next]_vars => DiskCurrent'
<1> SUFFICES ASSUME TypeOK, DiskCurrent, [Next]_vars, ~SaveCanFail, up'
             PROVE  Loaded' = mem'
  BY DEF DiskCurrent
<1>1. CASE RecordSuccess
  <2>1. CASE mem = Clean
    BY <1>1, <2>1 DEF RecordSuccess, DiskCurrent, Loaded, file, config
  <2>2. CASE mem # Clean
    BY <1>1, <2>2 DEF RecordSuccess, Save, Loaded
  <2> QED BY <2>1, <2>2
<1>2. CASE RecordFailure
  <2>1. CASE IsLocked(mem, now)
    BY <1>2, <2>1 DEF RecordFailure, AfterFailure, DiskCurrent, Loaded, file, config
  <2>2. CASE ~IsLocked(mem, now)
    BY <1>2, <2>2 DEF RecordFailure, Save, Loaded
  <2> QED BY <2>1, <2>2
<1>3. CASE Reset
  BY <1>3 DEF Reset, Save, Loaded
<1>4. CASE Reconfigure
  BY <1>4 DEF Reconfigure, DiskCurrent, Loaded, file
<1>5. CASE Die
  BY <1>5 DEF Die
<1>6. CASE Start
  BY <1>6 DEF Start, Loaded, file
<1>7. CASE ClockMoves
  BY <1>7 DEF ClockMoves, DiskCurrent, Loaded, config, file
<1>8. CASE UNCHANGED vars
  BY <1>8 DEF vars, config, file, DiskCurrent, Loaded
<1> QED
  BY <1>1, <1>2, <1>3, <1>4, <1>5, <1>6, <1>7, <1>8 DEF Next

\* While saves succeed, lockout.json is never behind the running service.
THEOREM DiskStaysCurrent == Spec => []DiskCurrent
<1>1. TypeOK /\ DiskCurrent /\ [Next]_vars => DiskCurrent'
  BY CurrentStep
<1> QED
  BY <1>1, CurrentInit, TypeCorrect, PTL DEF Spec

-----------------------------------------------------------------------------

LEMMA LedgerInit == Init => Ledger!Init
  BY LockoutAssumption DEF Init, Ledger!Init, Ledger!Clean, Loaded

\* Every step of the object, of its file and of the process is one step of the
\* ledger or none: the strike that is saved, the amnesty that is saved, new
\* thresholds, the clock; a death and a start move nothing.
LEMMA LedgerStep ==
  ASSUME ~SaveCanFail, TypeOK, DiskCurrent, DiskCurrent', [Next]_vars
  PROVE  [Ledger!Next]_(Ledger!vars)
<1> USE LockoutAssumption DEF Ledger!vars, Ledger!Clean
<1>1. CASE RecordSuccess
  <2>1. Ledger!Forgive
    BY <1>1 DEF RecordSuccess, Ledger!Forgive, config
  <2> QED BY <2>1 DEF Ledger!Next
<1>2. CASE RecordFailure
  <2>1. CASE IsLocked(mem, now)
    BY <1>2, <2>1 DEF RecordFailure, AfterFailure, config, file
  <2>2. CASE ~IsLocked(mem, now)
    <3>1. Ledger!Strike
      BY <1>2, <2>2
      DEF RecordFailure, Ledger!Strike, config, IsLocked, Ledger!IsLocked, Remaining,
          Ledger!Remaining, AfterFailure, Ledger!AfterFailure
    <3> QED BY <3>1 DEF Ledger!Next
  <2> QED BY <2>1, <2>2
<1>3. CASE Reset
  <2>1. Ledger!Forgive
    BY <1>3 DEF Reset, Ledger!Forgive, config
  <2> QED BY <2>1 DEF Ledger!Next
<1>4. CASE Reconfigure
  <2>1. Ledger!Retune
    BY <1>4 DEF Reconfigure, Ledger!Retune, file
  <2> QED BY <2>1 DEF Ledger!Next
<1>5. CASE Die
  BY <1>5 DEF Die, DiskCurrent, Loaded, config, file
<1>6. CASE Start
  <2>1. Ledger!Retune
    BY <1>6 DEF Start, Ledger!Retune, Loaded, file
  <2> QED BY <2>1 DEF Ledger!Next
<1>7. CASE ClockMoves
  <2>1. Ledger!ClockMoves
    BY <1>7 DEF ClockMoves, Ledger!ClockMoves, TypeOK, Loaded, config, file
  <2> QED BY <2>1 DEF Ledger!Next
<1>8. CASE UNCHANGED vars
  BY <1>8 DEF vars, config, file, Loaded
<1> QED
  BY <1>1, <1>2, <1>3, <1>4, <1>5, <1>6, <1>7, <1>8 DEF Next

\* With working saves the persisted lockout is the restart-proof ledger.
THEOREM ImplementsLedger == ~SaveCanFail => (Spec => IsALedger)
<1> SUFFICES ASSUME ~SaveCanFail PROVE Spec => IsALedger
  OBVIOUS
<1>1. TypeOK /\ DiskCurrent /\ DiskCurrent' /\ [Next]_vars
        => [Ledger!Next]_(Ledger!vars)
  BY LedgerStep
<1> QED
  BY <1>1, LedgerInit, TypeCorrect, DiskStaysCurrent, PTL
     DEF Spec, IsALedger, Ledger!Spec

-----------------------------------------------------------------------------
(***************************************************************************)
(* AuditLog, for any number of backups, lines, sizes and limits. What is said *)
(* of the log is said of any log first, so that it can be said of what a   *)
(* rotation leaves and of what a line is appended to. A rotation moves a file *)
(* one further or not at all, and two files never meet.                    *)
(***************************************************************************)

FileStates == [there : BOOLEAN, lines : Seq(Nat), size : Nat, open : BOOLEAN]
Sound(one) == (one.lines # << >> => one.there) /\ (one.open => one.lines # << >>)
LogStates == {f \in [LogFiles -> FileStates] : \A i \in LogFiles : Sound(f[i])}
LegibleIn(f, i) == {k \in DOMAIN f[i].lines : f[i].lines[k] # Fragment}
RecordedIn(f) == UNION {{f[i].lines[k] : k \in LegibleIn(f, i)} : i \in LogFiles}
InOrderIn(f) ==
  \A i, j \in LogFiles : \A k \in LegibleIn(f, i), l \in LegibleIn(f, j) :
    i > j \/ (i = j /\ k < l) => f[i].lines[k] < f[j].lines[l]

\* Nothing is cut short.
CleanIn(f) ==
  \A i \in LogFiles : /\ f[i].there => f[i].lines # << >>
                      /\ ~f[i].open
                      /\ \A k \in DOMAIN f[i].lines : f[i].lines[k] # Fragment

\* From the oldest attempt that is told on, all are, up to the n-th.
Unbroken(f, n) ==
  /\ n > 0 => n \in RecordedIn(f)
  /\ \A m \in RecordedIn(f) : m .. n \subseteq RecordedIn(f)

\* What the property says of limits, sizes and of what was dropped.
Roofed == roof > 0 => limit > 0 /\ limit <= roof
Bounded == roof > 0 => \A i \in LogFiles : logs[i].size <= roof \/ Len(logs[i].lines) = 1
Spared == attempts > 0 /\ 1 \notin RecordedIn(logs) =>
            Brimful \/ \E i \in LogFiles \ {0} : logs[i].there

AuditInv ==
  /\ AuditTypeOK
  /\ InOrderIn(logs) /\ RecordedIn(logs) \subseteq 1 .. attempts
  /\ Roofed
  /\ intact => CleanIn(logs) /\ Unbroken(logs, attempts) /\ Spared /\ Bounded

\* What a file of a log is.
LEMMA StatesOf ==
  ASSUME NEW f \in LogStates, NEW i \in LogFiles
  PROVE  /\ f[i] \in FileStates
         /\ f[i].lines \in Seq(Nat) /\ f[i].size \in Nat
         /\ f[i].there \in BOOLEAN /\ f[i].open \in BOOLEAN
         /\ f[i].lines # << >> => f[i].there
         /\ f[i].open => f[i].lines # << >>
<1>1. f[i] \in FileStates
  BY DEF LogStates
<1>2. Sound(f[i])
  BY DEF LogStates
<1> QED
  BY <1>1, <1>2 DEF FileStates, Sound

\* The property speaks of the log as these do.
LEMMA LogReading ==
  /\ Recorded = RecordedIn(logs) /\ (InOrder <=> InOrderIn(logs))
BY DEF Recorded, RecordedIn, InOrder, InOrderIn, Legible, LegibleIn

\* A rotation leaves files, each of them where it was or one further.
LEMMA RotationMoves ==
  ASSUME logs \in LogStates, NEW steps
  PROVE  /\ Rotated(steps) \in LogStates
         /\ \A i \in LogFiles :
              \/ Rotated(steps)[i].lines = << >>
              \/ i \in LogFiles \ {0} /\ i - 1 \in LogFiles \cap steps /\ logs[i - 1].there
                 /\ Rotated(steps)[i] = logs[i - 1]
              \/ i \notin steps /\ Rotated(steps)[i] = logs[i]
<1>1. ASSUME NEW i \in LogFiles, i > 0
      PROVE  i - 1 \in LogFiles
  BY <1>1, AuditAssumption DEF LogFiles
<1>2. NoFileYet \in FileStates
  BY DEF NoFileYet, FileStates
<1>3. Rotated(steps) \in LogStates
  <2>1. Sound(NoFileYet)
    BY DEF Sound, NoFileYet
  <2>2. ASSUME NEW i \in LogFiles
        PROVE  Rotated(steps)[i] \in FileStates /\ Sound(Rotated(steps)[i])
    BY <1>1, <1>2, <2>1 DEF LogStates, Rotated
  <2> QED
    BY <2>2 DEF LogStates, Rotated
<1>4. \A i \in LogFiles : i # 0 => i > 0
  BY AuditAssumption DEF LogFiles
<1> QED
  BY <1>1, <1>3, <1>4 DEF Rotated, NoFileYet

\* What holds of every file of the log holds of what a rotation leaves.
LEMMA RotatedClean ==
  ASSUME logs \in LogStates, CleanIn(logs), NEW steps
  PROVE  CleanIn(Rotated(steps))
<1>1. ASSUME NEW i \in LogFiles
      PROVE  \/ Rotated(steps)[i] = NoFileYet
             \/ \E s \in LogFiles : Rotated(steps)[i] = logs[s]
  <2>1. i > 0 => i - 1 \in LogFiles
    BY AuditAssumption DEF LogFiles
  <2> QED
    BY <2>1 DEF Rotated
<1> QED
  BY <1>1 DEF CleanIn, NoFileYet

LEMMA RotatedBounded ==
  ASSUME logs \in LogStates, Bounded, NEW steps, NEW i \in LogFiles, roof \in Nat, roof > 0
  PROVE  Rotated(steps)[i].size <= roof \/ Len(Rotated(steps)[i].lines) = 1
<1>1. i > 0 => i - 1 \in LogFiles
  BY AuditAssumption DEF LogFiles
<1>2. Rotated(steps)[i] = NoFileYet \/ \E s \in LogFiles : Rotated(steps)[i] = logs[s]
  BY <1>1 DEF Rotated
<1> QED
  BY <1>2 DEF Bounded, NoFileYet

\* Two files never swap places, whatever steps fail.
LEMMA RotationKeepsOrder ==
  ASSUME logs \in LogStates, InOrderIn(logs), NEW steps
  PROVE  /\ InOrderIn(Rotated(steps))
         /\ RecordedIn(Rotated(steps)) \subseteq RecordedIn(logs)
<1> DEFINE g == Rotated(steps)
<1>1. ASSUME NEW i \in LogFiles, NEW k \in LegibleIn(g, i)
      PROVE  \E s \in LogFiles : /\ g[i] = logs[s] /\ k \in LegibleIn(logs, s)
                                 /\ \/ s = i /\ i \notin steps
                                    \/ s = i - 1 /\ s \in steps
  <2>1. g[i].lines # << >>
    BY DEF LegibleIn
  <2>2. \/ i - 1 \in LogFiles \cap steps /\ g[i] = logs[i - 1]
        \/ i \notin steps /\ g[i] = logs[i]
    BY <2>1, RotationMoves
  <2> QED
    BY <1>1, <2>2 DEF LegibleIn
<1>2. ASSUME NEW i \in LogFiles, NEW j \in LogFiles,
             NEW k \in LegibleIn(g, i), NEW l \in LegibleIn(g, j),
             i > j \/ (i = j /\ k < l)
      PROVE  g[i].lines[k] < g[j].lines[l]
  <2>0. CASE i = j
    <3>1. k \in LegibleIn(g, i) /\ l \in LegibleIn(g, i)
      BY <2>0
    <3>2. PICK s \in LogFiles : g[i] = logs[s]
      BY <1>1, <3>1
    <3>3. k \in LegibleIn(logs, s) /\ l \in LegibleIn(logs, s)
      BY <3>1, <3>2 DEF LegibleIn
    <3>4. k < l
      BY <1>2, <2>0, AuditAssumption DEF LogFiles
    <3> QED
      BY <2>0, <3>2, <3>3, <3>4 DEF InOrderIn
  <2>1. PICK s \in LogFiles : /\ g[i] = logs[s] /\ k \in LegibleIn(logs, s)
                              /\ \/ s = i /\ i \notin steps
                                 \/ s = i - 1 /\ s \in steps
    BY <1>1
  <2>2. PICK t \in LogFiles : /\ g[j] = logs[t] /\ l \in LegibleIn(logs, t)
                              /\ \/ t = j /\ j \notin steps
                                 \/ t = j - 1 /\ t \in steps
    BY <1>1
  <2>3. i \in Nat /\ j \in Nat
    BY AuditAssumption DEF LogFiles
  <2>4. s > t \/ i = j
    BY <1>2, <2>1, <2>2, <2>3
  <2> QED
    BY <2>0, <2>1, <2>2, <2>4 DEF InOrderIn
<1>3. RecordedIn(g) \subseteq RecordedIn(logs)
  BY <1>1 DEF RecordedIn
<1> QED
  BY <1>2, <1>3 DEF InOrderIn

\* A sequence of numbers holds numbers.
LEMMA NumbersInside ==
  ASSUME NEW s \in Seq(Nat), NEW k \in DOMAIN s
  PROVE  s[k] \in Nat
OBVIOUS

\* A rotation that goes as far as it goes loses nothing but the oldest file.
LEMMA RotationDropsOldest ==
  ASSUME logs \in LogStates, InOrderIn(logs), NEW steps \in SUBSET LogFiles,
         \A i \in steps : i = Backups \/ i + 1 \in steps,
         NEW m \in RecordedIn(Rotated(steps)), NEW p \in RecordedIn(logs), m <= p
  PROVE  p \in RecordedIn(Rotated(steps))
<1> DEFINE g == Rotated(steps)
<1>0. PICK i \in LogFiles : \E k \in LegibleIn(logs, i) : p = logs[i].lines[k]
  BY DEF RecordedIn
<1>1. PICK k \in LegibleIn(logs, i) : p = logs[i].lines[k]
  BY <1>0
<1>2. logs[i].there
  <2>1. logs[i].lines # << >>
    BY <1>1 DEF LegibleIn
  <2> QED
    BY <2>1, StatesOf
<1>3. ASSUME NEW h \in LogFiles, g[h] = logs[i]
      PROVE  p \in RecordedIn(g)
  BY <1>1, <1>3 DEF RecordedIn, LegibleIn
<1>4. CASE i \notin steps
  <2>1. ~(i > 0 /\ i - 1 \in steps)
    BY <1>4, AuditAssumption DEF LogFiles
  <2> QED
    BY <1>3, <1>4, <2>1 DEF Rotated
<1>5. CASE i \in steps /\ i # Backups
  <2>1. i + 1 \in LogFiles /\ i + 1 > 0 /\ (i + 1) - 1 = i
    BY <1>5, AuditAssumption DEF LogFiles
  <2> QED
    BY <1>2, <1>3, <1>5, <2>1 DEF Rotated
<1>6. CASE i \in steps /\ i = Backups
  <2>0. PICK h \in LogFiles : \E l \in LegibleIn(g, h) : m = g[h].lines[l]
    BY DEF RecordedIn
  <2>1. PICK l \in LegibleIn(g, h) : m = g[h].lines[l]
    BY <2>0
  <2>2. g[h].lines # << >>
    BY DEF LegibleIn
  <2>3. PICK s \in LogFiles : g[h] = logs[s] /\ s < Backups /\ l \in LegibleIn(logs, s)
    <3>1. \/ h \in LogFiles \ {0} /\ h - 1 \in LogFiles /\ g[h] = logs[h - 1]
          \/ h \notin steps /\ g[h] = logs[h]
      BY <2>2, RotationMoves
    <3>2. h - 1 < Backups /\ (h \notin steps => h < Backups)
      BY <1>6, AuditAssumption DEF LogFiles
    <3> QED
      BY <3>1, <3>2 DEF LegibleIn
  <2>4. p < m
    BY <1>1, <1>6, <2>1, <2>3 DEF InOrderIn
  <2>5. m \in Nat /\ p \in Nat
    <3>1. logs[i].lines \in Seq(Nat) /\ g[h].lines \in Seq(Nat)
      BY <2>3 DEF LogStates, FileStates
    <3> QED
      BY <1>1, <2>1, <3>1, NumbersInside DEF LegibleIn
  <2> QED
    BY <2>4, <2>5
<1> QED
  BY <1>4, <1>5, <1>6

\* A sequence and one more.
LEMMA OneMore ==
  ASSUME NEW s \in Seq(Nat), NEW e \in Nat
  PROVE  /\ Append(s, e) \in Seq(Nat) /\ Append(s, e) # << >>
         /\ DOMAIN s \subseteq DOMAIN Append(s, e)
         /\ DOMAIN Append(s, e) = 1 .. Len(s) + 1
         /\ \A k \in DOMAIN s : Append(s, e)[k] = s[k]
         /\ Append(s, e)[Len(s) + 1] = e
<1>1. Append(s, e) \in Seq(Nat) /\ Len(Append(s, e)) = Len(s) + 1
  OBVIOUS
<1>2. Append(s, e) # << >>
  BY <1>1
<1> QED
  BY <1>1, <1>2

\* One line more, and what it does to the whole.
LineMore(f, g, number, size) ==
  /\ g \in LogStates
  /\ \A i \in LogFiles \ {0} : g[i] = f[i]
  /\ g[0].lines = f[0].lines \/ g[0].lines = Append(f[0].lines, number)
  /\ CleanIn(f) => g[0].lines = Append(f[0].lines, number)
  /\ g[0].open = (number = Fragment)
  /\ g[0].size = f[0].size + size /\ g[0].there
AttemptMore(f, g, number, n) ==
  /\ InOrderIn(g)
  /\ RecordedIn(g) \subseteq 1 .. n + 1
  /\ CleanIn(f) /\ number = n + 1 =>
       CleanIn(g) /\ RecordedIn(g) = RecordedIn(f) \cup {n + 1}

LEMMA LineAdded ==
  ASSUME NEW f \in LogStates, NEW number \in Nat, NEW size \in Nat,
         NEW g, g = [f EXCEPT ![0] = Appended(@, number, size)]
  PROVE  LineMore(f, g, number, size)
<1>0. 0 \in LogFiles
  BY AuditAssumption DEF LogFiles
<1>1. f[0] \in FileStates
  BY <1>0 DEF LogStates
<1>2. DOMAIN f = LogFiles
  BY DEF LogStates
<1>3. g[0] = Appended(f[0], number, size)
  BY <1>0, <1>2
<1>b. f[0].lines \in Seq(Nat) /\ f[0].size \in Nat
  BY <1>1 DEF FileStates
<1>c. Append(f[0].lines, number) \in Seq(Nat) /\ Append(f[0].lines, number) # << >>
  BY <1>b, OneMore
<1>d. f[0].size + size \in Nat
  BY <1>b
<1>e. PICK lines :
        /\ \/ lines = f[0].lines /\ f[0].lines # << >>
           \/ lines = Append(f[0].lines, number)
        /\ g[0] = [there |-> TRUE, size |-> f[0].size + size, open |-> number = Fragment,
                   lines |-> lines]
  <2>1. f[0].open => f[0].lines # << >>
    BY <1>0, StatesOf
  <2> QED
    BY <1>3, <2>1 DEF Appended
<1>f. lines \in Seq(Nat) /\ lines # << >>
  BY <1>b, <1>c, <1>e
<1>g. /\ g[0].lines = lines /\ g[0].size = f[0].size + size /\ g[0].there
      /\ g[0].open = (number = Fragment)
  BY <1>e
<1>4. g[0] \in FileStates
  <2>1. ASSUME NEW size0 \in Nat, NEW lines0 \in Seq(Nat), NEW open0 \in BOOLEAN
        PROVE  [there |-> TRUE, size |-> size0, open |-> open0, lines |-> lines0] \in FileStates
    BY DEF FileStates
  <2>2. (number = Fragment) \in BOOLEAN
    OBVIOUS
  <2> QED
    BY <1>d, <1>e, <1>f, <2>1, <2>2
<1>5. \A i \in LogFiles \ {0} : g[i] = f[i]
  BY <1>2
<1>6. g \in LogStates
  <2>1. g \in [LogFiles -> FileStates]
    BY <1>4, <1>5, <1>3 DEF LogStates
  <2> QED
    <3>1. Sound(g[0])
      BY <1>f, <1>g DEF Sound
    <3> QED
      BY <2>1, <1>5, <3>1 DEF LogStates
<1>7. CleanIn(f) => g[0].lines = Append(f[0].lines, number)
  BY <1>0, <1>3 DEF CleanIn, Appended
<1> QED
  <2>1. g[0].lines = f[0].lines \/ g[0].lines = Append(f[0].lines, number)
    BY <1>e, <1>g
  <2> QED
    BY <1>5, <1>6, <1>7, <1>g, <2>1 DEF LineMore

LEMMA LineKeepsOrder ==
  ASSUME NEW f \in LogStates, NEW number \in Nat, NEW size \in Nat, NEW n \in Nat,
         InOrderIn(f), RecordedIn(f) \subseteq 1 .. n, number \in {Fragment, n + 1},
         NEW g, LineMore(f, g, number, size)
  PROVE  AttemptMore(f, g, number, n)
<1>a. /\ g \in LogStates
      /\ \A i \in LogFiles \ {0} : g[i] = f[i]
      /\ g[0].lines = f[0].lines \/ g[0].lines = Append(f[0].lines, number)
      /\ CleanIn(f) => g[0].lines = Append(f[0].lines, number)
      /\ g[0].open = (number = Fragment)
  BY DEF LineMore
<1>0. 0 \in LogFiles
  BY AuditAssumption DEF LogFiles
<1>1. f[0].lines \in Seq(Nat) /\ g[0].lines \in Seq(Nat)
  BY <1>0, <1>a DEF LogStates, FileStates
<1> DEFINE final == Len(f[0].lines) + 1
<1>2. ASSUME NEW i \in LogFiles, NEW k \in LegibleIn(g, i)
      PROVE  \/ k \in LegibleIn(f, i) /\ g[i].lines[k] = f[i].lines[k]
             \/ /\ i = 0 /\ k = final /\ g[i].lines[k] = n + 1 /\ number = n + 1
  <2>1. CASE i # 0
    BY <1>a, <2>1 DEF LegibleIn
  <2>2. CASE i = 0 /\ g[0].lines = f[0].lines
    BY <2>2 DEF LegibleIn
  <2>3. CASE i = 0 /\ g[0].lines = Append(f[0].lines, number)
    <3>1. k \in 1 .. final /\ g[0].lines[k] # Fragment
      BY <1>1, <2>3 DEF LegibleIn
    <3>2. CASE k = final
      <4>1. g[0].lines[k] = number
        BY <1>1, <2>3, <3>2
      <4> QED
        BY <2>3, <3>1, <3>2, <4>1 DEF Fragment
    <3>3. CASE k # final
      <4>1. k \in DOMAIN f[0].lines /\ g[0].lines[k] = f[0].lines[k]
        BY <1>1, <2>3, <3>1, <3>3
      <4> QED
        BY <2>3, <3>1, <4>1 DEF LegibleIn
    <3> QED
      BY <3>2, <3>3
  <2> QED
    BY <1>a, <2>1, <2>2, <2>3
<1>3. ASSUME NEW i \in LogFiles, NEW k \in LegibleIn(f, i)
      PROVE  f[i].lines[k] \in 1 .. n /\ (i = 0 => k < final)
  <2>1. f[i].lines[k] \in 1 .. n
    BY DEF RecordedIn
  <2>2. i = 0 => k < final
    BY <1>1 DEF LegibleIn
  <2> QED
    BY <2>1, <2>2
<1>4. ASSUME NEW i \in LogFiles, NEW j \in LogFiles,
             NEW k \in LegibleIn(g, i), NEW l \in LegibleIn(g, j),
             i > j \/ (i = j /\ k < l)
      PROVE  g[i].lines[k] < g[j].lines[l]
  <2>0. i \in Nat /\ j \in Nat
    BY AuditAssumption DEF LogFiles
  <2>1. CASE k \in LegibleIn(f, i) /\ g[i].lines[k] = f[i].lines[k]
    <3>1. CASE l \in LegibleIn(f, j) /\ g[j].lines[l] = f[j].lines[l]
      BY <1>4, <2>1, <3>1 DEF InOrderIn
    <3>2. CASE g[j].lines[l] = n + 1
      BY <1>3, <2>1, <3>2
    <3> QED
      BY <1>2, <3>1, <3>2
  <2>2. CASE i = 0 /\ k = final
    <3>1. j = 0 /\ l > final
      BY <1>1, <1>4, <2>0, <2>2
    <3>2. l \in LegibleIn(f, 0) \/ l = final
      BY <1>2, <3>1
    <3>3. l \in 1 .. Len(f[0].lines) + 1
      BY <1>1, <3>2 DEF LegibleIn
    <3> QED
      BY <1>1, <3>1, <3>3
  <2> QED
    BY <1>2, <2>1, <2>2
<1>5. RecordedIn(g) \subseteq RecordedIn(f) \cup {n + 1}
  <2>1. ASSUME NEW i \in LogFiles, NEW k \in LegibleIn(g, i)
        PROVE  g[i].lines[k] \in RecordedIn(f) \cup {n + 1}
    <3>1. \/ k \in LegibleIn(f, i) /\ g[i].lines[k] = f[i].lines[k]
          \/ g[i].lines[k] = n + 1
      BY <1>2
    <3> QED
      BY <3>1 DEF RecordedIn
  <2> QED
    BY <2>1 DEF RecordedIn
<1>7. RecordedIn(g) \subseteq 1 .. n + 1
  BY <1>5
<1>6. ASSUME CleanIn(f), number = n + 1
      PROVE  CleanIn(g) /\ RecordedIn(g) = RecordedIn(f) \cup {n + 1}
  <2>1. g[0].lines = Append(f[0].lines, n + 1)
    BY <1>6, <1>a
  <2>2. \A i \in LogFiles : i # 0 => g[i] = f[i]
    BY <1>a
  <2>a. /\ DOMAIN g[0].lines = DOMAIN f[0].lines \cup {final}
        /\ \A k \in DOMAIN f[0].lines : g[0].lines[k] = f[0].lines[k]
        /\ g[0].lines[final] = n + 1
    <3>1. n + 1 \in Nat
      OBVIOUS
    <3>2. DOMAIN f[0].lines = 1 .. Len(f[0].lines) /\ Len(f[0].lines) \in Nat
      BY <1>1
    <3>3. DOMAIN g[0].lines = 1 .. final
      BY <1>1, <2>1, <3>1, OneMore
    <3> QED
      BY <1>1, <2>1, <3>1, <3>2, <3>3, OneMore
  <2>3. CleanIn(g)
    <3>1. ~g[0].open /\ g[0].lines # << >>
      <4>1. number # Fragment
        BY <1>6 DEF Fragment
      <4>2. ~g[0].open
        BY <1>a, <4>1
      <4>3. n + 1 \in Nat
        OBVIOUS
      <4>4. g[0].lines # << >>
        <5>1. Append(f[0].lines, n + 1) # << >>
          BY ONLY <1>1, <4>3, OneMore
        <5> QED
          BY ONLY <2>1, <5>1
      <4> QED
        BY <4>2, <4>4
    <3>2. \A k \in DOMAIN g[0].lines : g[0].lines[k] # Fragment
      BY <1>0, <1>6, <1>a, <2>a, <2>2 DEF CleanIn, Fragment
    <3>3. ASSUME NEW i \in LogFiles \ {0}
          PROVE  /\ g[i].there => g[i].lines # << >>
                 /\ ~g[i].open
                 /\ \A k \in DOMAIN g[i].lines : g[i].lines[k] # Fragment
      BY <1>6, <1>a DEF CleanIn
    <3> QED
      BY <3>1, <3>2, <3>3 DEF CleanIn
  <2>4. ASSUME NEW i \in LogFiles, NEW k \in LegibleIn(f, i)
        PROVE  k \in LegibleIn(g, i) /\ g[i].lines[k] = f[i].lines[k]
    BY <2>a, <2>2 DEF LegibleIn
  <2>5. final \in LegibleIn(g, 0) /\ g[0].lines[final] = n + 1
    BY <1>1, <2>1 DEF LegibleIn, Fragment
  <2>6. RecordedIn(f) \subseteq RecordedIn(g)
    BY <2>4 DEF RecordedIn
  <2>7. n + 1 \in RecordedIn(g)
    BY <1>0, <2>5 DEF RecordedIn
  <2> QED
    BY <1>5, <2>3, <2>6, <2>7
<1> QED
  BY <1>4, <1>7, <1>6 DEF InOrderIn, AttemptMore

\* Its types, in short.
LEMMA AuditTyped ==
  AuditTypeOK <=> /\ logs \in LogStates
                  /\ enabled \in BOOLEAN /\ limit \in Limits /\ roof \in Limits
                  /\ attempts \in 0 .. MaxLines /\ intact \in BOOLEAN
<1>1. (logs \in LogStates) <=>
        logs \in [LogFiles -> FileStates] /\ \A i \in LogFiles : Sound(logs[i])
  BY DEF LogStates
<1> QED
  BY <1>1 DEF AuditTypeOK, FileStates, Sound

LEMMA TypedAfter ==
  AuditTypeOK' <=> /\ logs' \in LogStates
                   /\ enabled' \in BOOLEAN /\ limit' \in Limits /\ roof' \in Limits
                   /\ attempts' \in 0 .. MaxLines /\ intact' \in BOOLEAN
<1>1. (logs' \in LogStates) <=>
        logs' \in [LogFiles -> FileStates] /\ \A i \in LogFiles : Sound(logs'[i])
  BY DEF LogStates
<1> QED
  BY <1>1 DEF AuditTypeOK, FileStates, Sound

\* The limit and the roof of a reconfiguration.
LEMMA RoofRises ==
  ASSUME AuditInv, Configured
  PROVE  /\ enabled' \in BOOLEAN /\ limit' \in Limits /\ roof' \in Limits /\ Roofed'
         /\ roof' > 0 => roof > 0 /\ roof <= roof'
<1>1. limit \in Nat /\ limit' \in Nat /\ roof \in Nat
  BY AuditAssumption, AuditTyped DEF AuditInv, Configured
<1>2. roof \in Limits /\ limit' \in Limits /\ enabled' \in BOOLEAN
  BY AuditTyped DEF AuditInv, Configured
<1> QED
  BY <1>1, <1>2 DEF AuditInv, Configured, Roofed

LEMMA ReconfigureKeeps ==
  ASSUME AuditInv, ReconfigureLog
  PROVE  AuditInv'
<1>1. UNCHANGED <<logs, attempts, intact>>
  BY DEF ReconfigureLog
<1>2. AuditTypeOK' /\ Roofed'
  BY <1>1, RoofRises DEF ReconfigureLog, AuditInv, AuditTypeOK
<1>3. Spared => Spared'
  BY <1>1 DEF Spared, Brimful
<1>4. AuditInv /\ Bounded => Bounded'
  <2>1. roof' > 0 => roof > 0 /\ roof <= roof'
    BY RoofRises DEF ReconfigureLog
  <2>2. \A i \in LogFiles : logs[i].size \in Nat
    BY AuditTyped DEF AuditInv, LogStates, FileStates
  <2>3. roof \in Nat /\ roof' \in Nat
    BY <1>2, AuditAssumption, AuditTyped DEF AuditInv, AuditTypeOK
  <2> QED
    BY <1>1, <2>1, <2>2, <2>3 DEF Bounded
<1> QED
  BY <1>1, <1>2, <1>3, <1>4 DEF AuditInv

LEMMA DeathKeeps ==
  ASSUME AuditInv, NEW k \in LogFiles, Dies(k)
  PROVE  AuditInv'
<1> DEFINE steps == {i \in LogFiles : i > Backups - k}
<1>0. 0 \in LogFiles /\ 0 \notin steps /\ Backups \in Nat \ {0} /\ k \in Nat
  BY AuditAssumption DEF LogFiles
<1>1. /\ logs' = Rotated(steps) /\ attempts' = attempts /\ intact' = intact
      /\ Configured
  BY DEF Dies
<1>2. PICK size \in LineSizes : Full(size)
  BY DEF Dies
<1>3. logs \in LogStates /\ attempts \in Nat
  BY AuditTyped, AuditAssumption DEF AuditInv
<1>4. logs' \in LogStates /\ AuditTypeOK'
  <2>1. logs' \in LogStates
    BY <1>1, <1>3, RotationMoves
  <2>2. attempts' \in 0 .. MaxLines /\ intact' \in BOOLEAN
    BY <1>1, AuditTyped DEF AuditInv
  <2> QED
    BY <1>1, <2>1, <2>2, RoofRises, TypedAfter
<1>5. InOrderIn(logs') /\ RecordedIn(logs') \subseteq 1 .. attempts'
  BY <1>1, <1>3, RotationKeepsOrder DEF AuditInv
<1>6. Roofed'
  BY <1>1, RoofRises
<1>7. logs'[0] = logs[0] /\ logs[0].there
  <2>1. ~(0 > 0)
    OBVIOUS
  <2> QED
    BY <1>0, <1>1, <1>2, <2>1 DEF Rotated, Full
<1>8. ASSUME intact
      PROVE  CleanIn(logs') /\ Unbroken(logs', attempts') /\ Spared' /\ Bounded'
  <2>1. CleanIn(logs) /\ Unbroken(logs, attempts) /\ Bounded
    BY <1>8 DEF AuditInv
  <2>2. CleanIn(logs')
    BY <1>1, <1>3, <2>1, RotatedClean
  <2>3. \A i \in steps : i = Backups \/ i + 1 \in steps
    BY <1>0 DEF LogFiles
  <2>4. \A m \in RecordedIn(logs'), p \in RecordedIn(logs) :
          m <= p => p \in RecordedIn(logs')
    BY <1>1, <1>3, <2>3, RotationDropsOldest DEF AuditInv
  <2>5. \A m \in RecordedIn(logs') : m .. attempts \subseteq RecordedIn(logs')
    <3>1. ASSUME NEW m \in RecordedIn(logs'), NEW p \in m .. attempts
          PROVE  p \in RecordedIn(logs')
      <4>1. m \in RecordedIn(logs) /\ m \in Nat
        BY <1>1, <1>3, RotationKeepsOrder DEF AuditInv
      <4>2. p \in RecordedIn(logs) /\ m <= p
        BY <2>1, <4>1 DEF Unbroken
      <4> QED
        BY <2>4, <4>2
    <3> QED
      BY <3>1
  <2>6. attempts > 0 => attempts \in RecordedIn(logs')
    <3>1. logs[0].lines # << >> /\ logs[0].lines \in Seq(Nat)
      BY <1>0, <1>3, <1>7, <2>1 DEF CleanIn, LogStates, FileStates
    <3>2. 1 \in LegibleIn(logs, 0)
      BY <1>0, <2>1, <3>1 DEF LegibleIn, CleanIn
    <3>3. logs[0].lines[1] \in RecordedIn(logs) /\ logs[0].lines[1] \in RecordedIn(logs')
      BY <1>0, <1>7, <3>2 DEF RecordedIn, LegibleIn
    <3>4. logs[0].lines[1] \in 1 .. attempts
      BY <3>3 DEF AuditInv
    <3> QED
      BY <1>3, <2>5, <3>3, <3>4
  <2>7. Spared'
    <3>1. limit \in Limits \ {0} /\ logs'[0].size + size > limit
      BY <1>2, <1>7, AuditTyped DEF Full, AuditInv
    <3> QED
      BY <3>1 DEF Spared, Brimful
  <2>8. Bounded'
    <3>1. roof' > 0 => roof > 0 /\ roof <= roof'
      BY <1>1, RoofRises
    <3>2. roof \in Nat /\ roof' \in Nat
      BY <1>4, AuditAssumption, AuditTyped DEF AuditInv, AuditTypeOK
    <3>3. ASSUME NEW i \in LogFiles, roof > 0
          PROVE  logs'[i].size <= roof \/ Len(logs'[i].lines) = 1
      BY <1>1, <1>3, <2>1, <3>2, <3>3, RotatedBounded
    <3>4. \A i \in LogFiles : logs'[i].size \in Nat
      BY <1>4 DEF LogStates, FileStates
    <3> QED
      BY <3>1, <3>2, <3>3, <3>4 DEF Bounded
  <2> QED
    BY <1>1, <2>2, <2>5, <2>6, <2>7, <2>8 DEF Unbroken
<1> QED
  BY <1>1, <1>4, <1>5, <1>6, <1>8 DEF AuditInv

\* What a line is appended to: the log, or what a rotation left of it.
LEMMA WriteStarts ==
  ASSUME AuditInv, NEW size \in LineSizes, NEW steps \in SUBSET LogFiles,
         NEW f, f = IF Full(size) THEN Rotated(steps) ELSE logs
  PROVE  /\ f \in LogStates /\ InOrderIn(f) /\ RecordedIn(f) \subseteq 1 .. attempts
         /\ (intact /\ (Full(size) => steps = LogFiles)) =>
              /\ CleanIn(f)
              /\ \A m \in RecordedIn(f) : m .. attempts \subseteq RecordedIn(f)
<1>1. logs \in LogStates
  BY AuditTyped DEF AuditInv
<1>2. CASE ~Full(size)
  BY <1>1, <1>2 DEF AuditInv, Unbroken
<1>3. CASE Full(size)
  <2>1. f \in LogStates /\ InOrderIn(f) /\ RecordedIn(f) \subseteq RecordedIn(logs)
    BY <1>1, <1>3, RotationMoves, RotationKeepsOrder DEF AuditInv
  <2>2. ASSUME intact, steps = LogFiles, NEW m \in RecordedIn(f), NEW p \in m .. attempts
        PROVE  p \in RecordedIn(f)
    <3>1. \A i \in steps : i = Backups \/ i + 1 \in steps
      BY <2>2, AuditAssumption DEF LogFiles
    <3>2. m \in Nat /\ m \in RecordedIn(logs) /\ attempts \in Nat
      BY <2>1, AuditTyped, AuditAssumption DEF AuditInv
    <3>3. p \in RecordedIn(logs) /\ m <= p
      BY <2>2, <3>2 DEF AuditInv, Unbroken
    <3> QED
      BY <1>1, <1>3, <3>1, <3>3, RotationDropsOldest DEF AuditInv
  <2>3. intact => CleanIn(f)
    BY <1>1, <1>3, RotatedClean DEF AuditInv
  <2> QED
    BY <1>3, <2>1, <2>2, <2>3 DEF AuditInv
<1> QED
  BY <1>2, <1>3

LEMMA WriteKeeps ==
  ASSUME AuditInv, NEW size \in LineSizes, NEW steps \in SUBSET LogFiles,
         Write(size, steps)
  PROVE  AuditInv'
<1> DEFINE whole == intact /\ (Full(size) => steps = LogFiles)
<1>1. PICK f : f = IF Full(size) THEN Rotated(steps) ELSE logs
  OBVIOUS
<1>2. /\ attempts' = attempts + 1 /\ attempts < MaxLines
      /\ UNCHANGED <<enabled, limit, roof>>
  BY DEF Write
<1>3. \/ logs' = [f EXCEPT ![0] = Appended(@, attempts + 1, size)] /\ intact' = whole
      \/ logs' = f /\ intact' = FALSE
      \/ logs' = [f EXCEPT ![0].there = TRUE] /\ intact' = FALSE
      \/ logs' = [f EXCEPT ![0] = Appended(@, Fragment, size)] /\ intact' = FALSE
  BY <1>1 DEF Write
<1>4. /\ 0 \in LogFiles /\ attempts \in Nat /\ attempts + 1 \in Nat /\ size \in Nat
      /\ size > 0 /\ Fragment \in Nat /\ logs \in LogStates /\ intact \in BOOLEAN
      /\ attempts + 1 \in 0 .. MaxLines
  BY <1>2, AuditTyped, AuditAssumption DEF AuditInv, LogFiles, Fragment
<1>5. /\ f \in LogStates /\ InOrderIn(f) /\ RecordedIn(f) \subseteq 1 .. attempts
      /\ whole => /\ CleanIn(f)
                  /\ \A m \in RecordedIn(f) : m .. attempts \subseteq RecordedIn(f)
  BY <1>1, WriteStarts
<1>6. Roofed'
  BY <1>2 DEF AuditInv, Roofed
<1>7. ASSUME logs' \in LogStates, intact' \in BOOLEAN
      PROVE  AuditTypeOK'
  <2>1. enabled' \in BOOLEAN /\ limit' \in Limits /\ roof' \in Limits
    BY <1>2, AuditTyped DEF AuditInv
  <2> QED
    BY <1>2, <1>4, <1>7, <2>1, TypedAfter
<1>8. CASE logs' = f /\ intact' = FALSE
  <2>1. RecordedIn(logs') \subseteq 1 .. attempts'
    BY <1>2, <1>4, <1>5, <1>8
  <2> QED
    BY <1>5, <1>6, <1>7, <1>8, <2>1 DEF AuditInv
<1>9. CASE logs' = [f EXCEPT ![0].there = TRUE] /\ intact' = FALSE
  <2>1. DOMAIN f = LogFiles /\ f[0] \in FileStates
    BY <1>4, <1>5 DEF LogStates
  <2>2. /\ logs'[0] = [f[0] EXCEPT !.there = TRUE]
        /\ \A i \in LogFiles \ {0} : logs'[i] = f[i]
    BY <1>4, <1>9, <2>1
  <2>3. logs'[0] \in FileStates /\ logs'[0].lines = f[0].lines /\ logs'[0].there
    BY <2>1, <2>2 DEF FileStates
  <2>4. logs' \in LogStates
    <3>1. logs' \in [LogFiles -> FileStates]
      BY <1>5, <1>9, <2>1, <2>2, <2>3 DEF LogStates
    <3> QED
      <4>1. Sound(logs'[0])
        BY <1>4, <1>5, <2>1, <2>2, <2>3, StatesOf DEF Sound, FileStates
      <4> QED
        BY <1>5, <2>2, <3>1, <4>1 DEF LogStates
  <2>5. \A i \in LogFiles : logs'[i].lines = f[i].lines
    BY <2>2, <2>3
  <2>6. InOrderIn(logs') /\ RecordedIn(logs') = RecordedIn(f)
    <3>1. \A i \in LogFiles : LegibleIn(logs', i) = LegibleIn(f, i)
      BY <2>5 DEF LegibleIn
    <3> QED
      BY <1>5, <2>5, <3>1 DEF InOrderIn, RecordedIn
  <2>7. RecordedIn(logs') \subseteq 1 .. attempts'
    BY <1>2, <1>4, <1>5, <2>6
  <2> QED
    BY <1>6, <1>7, <1>9, <2>4, <2>6, <2>7 DEF AuditInv
<1>10. ASSUME NEW number \in {Fragment, attempts + 1},
              logs' = [f EXCEPT ![0] = Appended(@, number, size)]
       PROVE  /\ logs' \in LogStates /\ InOrderIn(logs')
              /\ RecordedIn(logs') \subseteq 1 .. attempts'
              /\ \A i \in LogFiles \ {0} : logs'[i] = f[i]
              /\ CleanIn(f) => logs'[0].lines = Append(f[0].lines, number)
              /\ logs'[0].size = f[0].size + size /\ logs'[0].there
              /\ CleanIn(f) /\ number = attempts + 1 =>
                   CleanIn(logs') /\ RecordedIn(logs') = RecordedIn(f) \cup {attempts + 1}
  <2>1. PICK g : g = logs'
    OBVIOUS
  <2>2. number \in Nat
    BY <1>4
  <2>3. LineMore(f, g, number, size)
    BY <1>4, <1>5, <1>10, <2>1, <2>2, LineAdded
  <2>4. AttemptMore(f, g, number, attempts)
    BY <1>4, <1>5, <2>2, <2>3, LineKeepsOrder
  <2> QED
    BY <1>2, <2>1, <2>3, <2>4 DEF LineMore, AttemptMore
<1>11. CASE logs' = [f EXCEPT ![0] = Appended(@, Fragment, size)] /\ intact' = FALSE
  BY <1>6, <1>7, <1>10, <1>11 DEF AuditInv
<1>12. CASE logs' = [f EXCEPT ![0] = Appended(@, attempts + 1, size)] /\ intact' = whole
  <2>1. ASSUME whole
        PROVE  CleanIn(logs') /\ Unbroken(logs', attempts') /\ Spared' /\ Bounded'
    <3>1. /\ CleanIn(f) /\ CleanIn(logs')
          /\ RecordedIn(logs') = RecordedIn(f) \cup {attempts + 1}
          /\ \A i \in LogFiles \ {0} : logs'[i] = f[i]
          /\ logs'[0].lines = Append(f[0].lines, attempts + 1)
          /\ logs'[0].size = f[0].size + size
      BY <1>5, <1>10, <1>12, <2>1
    <3>2. Unbroken(logs', attempts')
      BY <1>2, <1>4, <1>5, <2>1, <3>1 DEF Unbroken
    <3>3. CASE Full(size)
      <4>1. f = Rotated(LogFiles) /\ logs[0].there
        BY <1>1, <2>1, <3>3 DEF Full
      <4>2. 1 \in LogFiles \ {0} /\ 1 - 1 = 0 /\ ~(0 > 0)
        BY AuditAssumption DEF LogFiles
      <4>3. f[1] = logs[0] /\ f[0] = NoFileYet
        BY <1>4, <4>1, <4>2 DEF Rotated
      <4>4. Spared'
        BY <3>1, <4>1, <4>2, <4>3 DEF Spared
      <4>5. Bounded'
        <5>1. Len(logs'[0].lines) = 1
          BY <1>4, <3>1, <4>3 DEF NoFileYet
        <5>2. roof \in Nat
          BY AuditTyped, AuditAssumption DEF AuditInv
        <5>3. ASSUME roof > 0, NEW i \in LogFiles \ {0}
              PROVE  logs'[i].size <= roof \/ Len(logs'[i].lines) = 1
          BY <1>4, <2>1, <3>1, <4>1, <5>2, <5>3, RotatedBounded DEF AuditInv
        <5> QED
          BY <1>2, <5>1, <5>3 DEF Bounded
      <4> QED
        BY <3>1, <3>2, <4>4, <4>5
    <3>4. CASE ~Full(size)
      <4>1. f = logs
        BY <1>1, <3>4
      <4>2. Spared /\ Bounded
        BY <2>1 DEF AuditInv
      <4>3. logs[0].size \in Nat /\ limit \in Nat /\ roof \in Nat /\ Limits \subseteq Nat
        BY <1>4, AuditTyped, AuditAssumption DEF AuditInv, LogStates, FileStates
      <4>4. Spared'
        <5> SUFFICES ASSUME 1 \notin RecordedIn(logs')
                     PROVE  Brimful' \/ \E i \in LogFiles \ {0} : logs'[i].there
          BY DEF Spared
        <5>1. attempts > 0 /\ 1 \notin RecordedIn(logs)
          BY <1>4, <3>1, <4>1
        <5>2. CASE Brimful
          <6>1. PICK l \in Limits \ {0}, s \in LineSizes : logs[0].size + s > l
            BY <5>2 DEF Brimful
          <6>2. logs'[0].size + s > l
            BY <1>4, <3>1, <4>1, <4>3, <6>1, AuditAssumption
          <6> QED
            BY <6>1, <6>2 DEF Brimful
        <5>3. CASE \E i \in LogFiles \ {0} : logs[i].there
          BY <3>1, <4>1, <5>3
        <5> QED
          BY <4>2, <5>1, <5>2, <5>3 DEF Spared
      <4>5. Bounded'
        <5>1. ASSUME roof > 0
              PROVE  logs'[0].size <= roof \/ Len(logs'[0].lines) = 1
          <6>1. limit > 0 /\ limit <= roof
            BY <5>1 DEF AuditInv, Roofed
          <6>2. CASE logs[0].there
            BY <1>4, <3>1, <3>4, <4>1, <4>3, <6>1, <6>2 DEF Full
          <6>3. CASE ~logs[0].there
            <7>1. logs[0].lines = << >>
              BY <1>4, <6>3, StatesOf
            <7> QED
              BY <1>4, <3>1, <4>1, <7>1
          <6> QED
            BY <6>2, <6>3
        <5> QED
          BY <1>2, <3>1, <4>1, <4>2, <5>1 DEF Bounded
      <4> QED
        BY <3>1, <3>2, <4>4, <4>5
    <3> QED
      BY <3>3, <3>4
  <2>2. intact' \in BOOLEAN
    BY <1>4, <1>12
  <2> QED
    BY <1>6, <1>7, <1>10, <1>12, <2>1, <2>2 DEF AuditInv
<1> QED
  BY <1>3, <1>8, <1>9, <1>11, <1>12

\* AuditInv is inductive.
LEMMA AuditInvariance == AuditSpec => []AuditInv
<1>1. AuditInit => AuditInv
  <2> SUFFICES ASSUME AuditInit
               PROVE  AuditInv
    OBVIOUS
  <2>1. logs = [i \in LogFiles |-> NoFileYet] /\ NoFileYet \in FileStates
    BY DEF AuditInit, NoFileYet, FileStates
  <2>2. \A i \in LogFiles : logs[i].lines = << >> /\ ~logs[i].there /\ logs[i].size = 0
                           /\ ~logs[i].open
    BY <2>1 DEF NoFileYet
  <2>3. logs \in LogStates
    BY <2>1, <2>2 DEF LogStates, Sound
  <2>4. \A i \in LogFiles : LegibleIn(logs, i) = {}
    BY <2>2 DEF LegibleIn
  <2>5. RecordedIn(logs) = {} /\ InOrderIn(logs)
    BY <2>4 DEF RecordedIn, InOrderIn
  <2>6. CleanIn(logs)
    BY <2>2 DEF CleanIn
  <2>7. AuditTypeOK
    BY <2>3, AuditTyped, AuditAssumption DEF AuditInit
  <2>8. limit \in Nat
    BY AuditAssumption DEF AuditInit
  <2>9. Roofed /\ Spared /\ Bounded /\ Unbroken(logs, attempts)
    BY <2>2, <2>5, <2>8 DEF AuditInit, Roofed, Spared, Bounded, Unbroken
  <2> QED
    BY <2>5, <2>6, <2>7, <2>9 DEF AuditInv
<1>2. AuditInv /\ [AuditNext]_auditVars => AuditInv'
  <2> SUFFICES ASSUME AuditInv, [AuditNext]_auditVars
               PROVE  AuditInv'
    OBVIOUS
  <2>1. CASE \E size \in LineSizes, steps \in SUBSET LogFiles : Write(size, steps)
    BY <2>1, WriteKeeps
  <2>2. CASE ReconfigureLog
    BY <2>2, ReconfigureKeeps
  <2>3. CASE \E k \in LogFiles : Dies(k)
    BY <2>3, DeathKeeps
  <2>4. CASE UNCHANGED auditVars
    <3>1. UNCHANGED <<logs, enabled, limit, attempts, intact, roof>>
      BY <2>4 DEF auditVars
    <3> QED
      BY <3>1 DEF AuditInv, AuditTypeOK, Roofed, Spared, Brimful, Bounded
  <2> QED
    BY <2>1, <2>2, <2>3, <2>4 DEF AuditNext
<1> QED
  BY <1>1, <1>2, PTL DEF AuditSpec

\* Every variable of the audit log has its type (AuditLog).
THEOREM LogIsTyped == AuditSpec => []AuditTypeOK
<1>1. AuditInv => AuditTypeOK
  BY DEF AuditInv
<1> QED
  BY <1>1, AuditInvariance, PTL

\* Whatever fails and however often the process dies, the log tells attempts once
\* and in order; without a failure none is missing but the oldest, and no file
\* outgrows the limit or one line (AuditLog.write, _rotate).
THEOREM LogIsKept == AuditSpec => []LogKept
<1>1. AuditInv => LogKept
  BY LogReading DEF AuditInv, LogKept, Unbroken, Spared, Bounded
<1> QED
  BY <1>1, AuditInvariance, PTL

-----------------------------------------------------------------------------
(***************************************************************************)
(* FrameDumps, for every ring and folder. The entries a pruning leaves are *)
(* counted by a bijection with the positions they had.                     *)
(***************************************************************************)

HoldingOf(s, names) == {i \in DOMAIN s : s[i] \in names}

\* The names of what a prune may not take, in such a folder.
KeptNames(where) == IF where = "link" THEN DumpNames ELSE DumpNames \ {"dump"}

DumpsInv ==
  /\ DumpsTypeOK /\ placed <= puts
  /\ Cardinality(HoldingOf(entries, KeptNames(folder))) = placed
  /\ pruned /\ folder # "link" =>
       Cardinality(DumpsIn(entries)) <= IF dumping THEN Ring ELSE 0

\* Positions are finitely many.
LEMMA Positions ==
  ASSUME NEW s \in Seq(DumpNames), NEW P \in SUBSET DOMAIN s
  PROVE  IsFiniteSet(P) /\ Cardinality(P) \in Nat /\ Cardinality(P) <= Len(s)
<1>1. DOMAIN s = 1 .. Len(s) /\ Len(s) \in Nat
  OBVIOUS
<1>2. IsFiniteSet(1 .. Len(s)) /\ Cardinality(1 .. Len(s)) = Len(s)
  <2>1. ASSUME NEW m \in Nat
        PROVE  IsFiniteSet(1 .. m) /\ Cardinality(1 .. m) = m
    BY FS_Interval
  <2> QED
    BY <1>1, <2>1
<1>3. IsFiniteSet(P) /\ Cardinality(P) <= Cardinality(1 .. Len(s))
  BY <1>1, <1>2, FS_Subset
<1> QED
  BY <1>2, <1>3, FS_CardinalityType

\* Each position has another number of them before it.
LEMMA BeforeRises ==
  ASSUME NEW P \in SUBSET Nat, IsFiniteSet(P), NEW i \in P, NEW j \in P, i < j
  PROVE  /\ Before(P, i) \in Nat /\ Before(P, j) \in Nat
         /\ Before(P, i) < Before(P, j) /\ Before(P, j) < Cardinality(P)
<1> DEFINE below(k) == {h \in P : h < k}
<1>1. \A S \in SUBSET P : IsFiniteSet(S) /\ Cardinality(S) \in Nat
  BY FS_Subset, FS_CardinalityType
<1>2. below(i) \in SUBSET below(j) /\ i \in below(j) /\ i \notin below(i)
  <2>1. \A h \in P : h \in Nat
    OBVIOUS
  <2>2. \A h \in P : h < i => h < j
    BY <2>1
  <2>3. ~(i < i)
    BY <2>1
  <2> QED
    BY <2>2, <2>3
<1>3. below(j) \in SUBSET P /\ below(i) \in SUBSET P /\ j \notin below(j)
  OBVIOUS
<1>4. /\ Cardinality(below(i)) <= Cardinality(below(j))
      /\ Cardinality(below(i)) # Cardinality(below(j))
  BY <1>1, <1>2, <1>3, FS_Subset
<1>5. Cardinality(below(j)) <= Cardinality(P) /\ Cardinality(below(j)) # Cardinality(P)
  BY <1>1, <1>3, FS_Subset
<1>6. Before(P, i) = Cardinality(below(i)) /\ Before(P, j) = Cardinality(below(j))
  BY DEF Before
<1>7. Cardinality(P) \in Nat
  BY FS_CardinalityType
<1> QED
  BY <1>1, <1>3, <1>4, <1>5, <1>6, <1>7

\* Every place in the order of a set is some member's.
LEMMA BeforeReaches ==
  ASSUME NEW P \in SUBSET Nat, IsFiniteSet(P), NEW k \in 1 .. Cardinality(P)
  PROVE  \E i \in P : Before(P, i) = k - 1
<1> DEFINE rank == [i \in P |-> Before(P, i) + 1]
           n == Cardinality(P)
<1>1. n \in Nat
  BY FS_CardinalityType
<1>2. ASSUME NEW i \in P
      PROVE  Before(P, i) \in Nat /\ Before(P, i) < n
  <2> DEFINE below == {h \in P : h < i}
  <2>1. below \in SUBSET P /\ i \notin below
    OBVIOUS
  <2>2. IsFiniteSet(below) /\ Cardinality(below) <= n /\ Cardinality(below) # n
    BY <2>1, FS_Subset
  <2> QED
    BY <1>1, <2>2, FS_CardinalityType DEF Before
<1>3. rank \in [P -> 1 .. n]
  BY <1>1, <1>2
<1>4. ASSUME NEW i \in P, NEW j \in P, rank[i] = rank[j]
      PROVE  i = j
  <2>1. Before(P, i) = Before(P, j)
    BY <1>2, <1>4
  <2>2. ~(i < j) /\ ~(j < i)
    BY <1>2, <2>1, BeforeRises
  <2> QED
    BY <2>2
<1>5. rank \in Injection(P, 1 .. n)
  BY <1>3, <1>4 DEF Injection, IsInjective
<1>6. IsFiniteSet(1 .. n) /\ Cardinality(1 .. n) = n
  BY <1>1, FS_Interval
<1>7. rank \in Surjection(P, 1 .. n)
  BY <1>5, <1>6, FS_Injection
<1>8. PICK i \in P : rank[i] = k
  BY <1>7 DEF Surjection
<1> QED
  BY <1>2, <1>8

\* What is left holds of each kind what it held where nothing went.
LEMMA WithoutHolds ==
  ASSUME NEW s \in Seq(DumpNames), NEW gone, NEW names
  PROVE  /\ Without(s, gone) \in Seq(DumpNames)
         /\ Len(Without(s, gone)) <= Len(s)
         /\ Cardinality(HoldingOf(Without(s, gone), names)) =
              Cardinality(HoldingOf(s, names) \ gone)
<1> DEFINE rest == DOMAIN s \ gone
           n == Cardinality(rest)
           place == [k \in 1 .. n |-> CHOOSE i \in rest : Before(rest, i) = k - 1]
           t == Without(s, gone)
<1>1. IsFiniteSet(rest) /\ n \in Nat /\ n <= Len(s)
  BY Positions
<1>2. rest \in SUBSET Nat /\ DOMAIN s \in SUBSET Nat
  OBVIOUS
<1>3. \A k \in 1 .. n : place[k] \in rest /\ Before(rest, place[k]) = k - 1
  BY <1>1, <1>2, BeforeReaches
<1>4. t = [k \in 1 .. n |-> s[place[k]]]
  BY DEF Without
<1>5. t \in Seq(DumpNames) /\ Len(t) = n /\ DOMAIN t = 1 .. n
  <2>1. ASSUME NEW k \in 1 .. n
        PROVE  s[place[k]] \in DumpNames
    <3>1. place[k] \in DOMAIN s
      BY <1>3
    <3> HIDE DEF place
    <3> QED
      BY <3>1
  <2>2. ASSUME NEW m \in Nat, m = n
        PROVE  t \in Seq(DumpNames) /\ Len(t) = m /\ DOMAIN t = 1 .. m
    <3>1. t \in [1 .. m -> DumpNames]
      <4> HIDE DEF place, t, n
      <4> QED
        BY <1>4, <2>1, <2>2
    <3> HIDE DEF t
    <3> QED
      BY <3>1
  <2> QED
    BY <1>1, <2>2
<1>6. ASSUME NEW i \in rest
      PROVE  \E k \in 1 .. n : place[k] = i
  <2>1. Before(rest, i) \in Nat /\ Before(rest, i) < n
    <3> DEFINE below == {h \in rest : h < i}
    <3>1. below \in SUBSET rest /\ i \notin below
      BY <1>2
    <3>2. IsFiniteSet(below) /\ Cardinality(below) <= n /\ Cardinality(below) # n
      BY <1>1, <3>1, FS_Subset
    <3> QED
      BY <1>1, <3>2, FS_CardinalityType DEF Before
  <2>2. PICK k \in 1 .. n : k - 1 = Before(rest, i)
    <3> HIDE DEF n, rest
    <3>1. Before(rest, i) + 1 \in 1 .. n /\ (Before(rest, i) + 1) - 1 = Before(rest, i)
      BY <1>1, <2>1
    <3> QED
      BY <3>1
  <2>3. place[k] \in rest /\ Before(rest, place[k]) = Before(rest, i)
    BY <1>3, <2>2
  <2>4. ~(place[k] < i) /\ ~(i < place[k])
    BY <1>1, <1>2, <2>3, <2>1, BeforeRises
  <2>5. place[k] \in Nat /\ i \in Nat
    BY <1>2, <2>3
  <2> HIDE DEF place
  <2> QED
    BY <2>4, <2>5
<1> DEFINE from == HoldingOf(t, names)
           to == HoldingOf(s, names) \ gone
           f == [k \in from |-> place[k]]
<1>7. \A k \in from : k \in 1 .. n /\ place[k] \in to
  BY <1>3, <1>4, <1>5 DEF HoldingOf
<1>8. \A i \in to : \E k \in from : place[k] = i
  <2>1. ASSUME NEW i \in to
        PROVE  \E k \in from : place[k] = i
    <3>1. i \in rest /\ s[i] \in names
      BY DEF HoldingOf
    <3>2. PICK k \in 1 .. n : place[k] = i
      BY <1>6, <3>1
    <3> QED
      BY <1>4, <1>5, <3>1, <3>2 DEF HoldingOf
  <2> QED
    BY <2>1
<1>9. \A k, l \in from : place[k] = place[l] => k = l
  <2> HIDE DEF place, from, to, n, rest
  <2>1. ASSUME NEW k \in from, NEW l \in from, place[k] = place[l]
        PROVE  k = l
    <3>1. k \in 1 .. n /\ l \in 1 .. n
      BY <1>7
    <3>2. k - 1 = l - 1
      BY <1>3, <2>1, <3>1
    <3> QED
      BY <1>1, <3>1, <3>2
  <2> QED
    BY <2>1
<1> HIDE DEF place, from, to
<1>10. f \in Bijection(from, to)
  <2>1. f \in [from -> to]
    BY <1>7
  <2>2. f \in Injection(from, to)
    BY <1>9, <2>1 DEF Injection, IsInjective
  <2>3. f \in Surjection(from, to)
    BY <1>8, <2>1 DEF Surjection
  <2> QED
    BY <2>2, <2>3 DEF Bijection
<1>11. IsFiniteSet(from)
  BY <1>5, Positions DEF from, HoldingOf
<1>12. Cardinality(to) = Cardinality(from)
  BY <1>10, <1>11, FS_Bijection DEF ExistsBijection
<1> QED
  BY <1>1, <1>5, <1>12 DEF from, to

\* What the ring has no room for is all that exceeds it.
LEMMA StaleLeavesRing ==
  ASSUME NEW s \in Seq(DumpNames)
  PROVE  Cardinality(DumpsIn(s) \ Stale(s)) <= Ring
<1> DEFINE D == DumpsIn(s)
           n == Cardinality(D)
<1>1. D \in SUBSET DOMAIN s /\ D \in SUBSET Nat
  BY DEF DumpsIn
<1>2. IsFiniteSet(D) /\ n \in Nat /\ Ring \in Nat \ {0}
  BY <1>1, Positions, FrameDumpsAssumption
<1>3. CASE ~(n > Ring)
  <2>1. D \ Stale(s) = D
    BY <1>3 DEF Stale
  <2>2. n <= Ring
    BY <1>2, <1>3
  <2> QED
    BY <2>1, <2>2
<1>4. CASE n > Ring
  <2> DEFINE R == D \ Stale(s)
  <2>1. Stale(s) = Oldest(s, n - Ring)
    BY <1>4 DEF Stale
  <2>2. n - Ring + 1 \in 1 .. n /\ (n - Ring + 1) - 1 = n - Ring
    BY <1>2, <1>4
  <2>3. PICK m \in D : Before(D, m) = n - Ring
    <3> HIDE DEF D, n
    <3> QED
      BY <1>1, <1>2, <2>2, BeforeReaches DEF n
  <2> DEFINE below == {h \in D : h < m}
  <2>4. below \in SUBSET D /\ R \in SUBSET D /\ Cardinality(below) = n - Ring
    BY <2>3 DEF Before
  <2>5. ASSUME NEW h \in below
        PROVE  h \in Stale(s)
    <3>1. Before(D, h) < n - Ring
      BY <1>1, <1>2, <2>3, BeforeRises
    <3> QED
      BY <2>1, <3>1 DEF Oldest
  <2>6. R \cap below = {}
    BY <2>5
  <2> HIDE DEF D, R, below, n
  <2>7. IsFiniteSet(R) /\ IsFiniteSet(below) /\ Cardinality(R) \in Nat
    BY <1>2, <2>4, FS_Subset, FS_CardinalityType
  <2>8. Cardinality(R \cup below) = Cardinality(R) + Cardinality(below) - 0
    BY <2>6, <2>7, FS_Union, FS_EmptySet
  <2>9. Cardinality(R \cup below) <= n
    <3>1. R \cup below \in SUBSET D
      BY <2>4
    <3> QED
      BY <1>2, <3>1, FS_Subset DEF n
  <2> QED
    BY <1>2, <2>4, <2>7, <2>8, <2>9 DEF R, D
<1> QED
  BY <1>2, <1>3, <1>4

\* Dumps are positions with one name, what a prune may not take those with others.
LEMMA DumpsRead ==
  ASSUME NEW s
  PROVE  DumpsIn(s) = HoldingOf(s, {"dump"})
BY DEF DumpsIn, IsDump, HoldingOf

LEMMA KeptRead ==
  ASSUME DumpsTypeOK
  PROVE  {i \in DOMAIN entries : ~Pruneable(entries[i])} =
           HoldingOf(entries, KeptNames(folder))
<1>1. \A i \in DOMAIN entries : entries[i] \in DumpNames
  BY DEF DumpsTypeOK
<1> QED
  BY <1>1 DEF Pruneable, IsDump, HoldingOf, KeptNames

\* What removes dumps alone leaves what a prune may not take.
LEMMA OthersStay ==
  ASSUME NEW s \in Seq(DumpNames), NEW gone \in SUBSET DumpsIn(s)
  PROVE  /\ Without(s, gone) \in Seq(DumpNames) /\ Len(Without(s, gone)) <= Len(s)
         /\ Cardinality(HoldingOf(Without(s, gone), DumpNames \ {"dump"})) =
              Cardinality(HoldingOf(s, DumpNames \ {"dump"}))
         /\ Cardinality(DumpsIn(Without(s, gone))) = Cardinality(DumpsIn(s) \ gone)
<1>1. HoldingOf(s, DumpNames \ {"dump"}) \ gone = HoldingOf(s, DumpNames \ {"dump"})
  BY DumpsRead DEF HoldingOf
<1>2. /\ DumpsIn(s) = HoldingOf(s, {"dump"})
      /\ DumpsIn(Without(s, gone)) = HoldingOf(Without(s, gone), {"dump"})
  BY DumpsRead
<1>3. Without(s, gone) \in Seq(DumpNames) /\ Len(Without(s, gone)) <= Len(s)
  BY WithoutHolds
<1>4. \A set : Cardinality(HoldingOf(Without(s, gone), set)) =
                Cardinality(HoldingOf(s, set) \ gone)
  BY WithoutHolds
<1> QED
  BY <1>1, <1>2, <1>3, <1>4

LEMMA DumpKeeps ==
  ASSUME DumpsInv, Dump
  PROVE  DumpsInv'
<1> DEFINE names == DumpNames \ {"dump"}
<1>1. /\ folder # "link" /\ folder' # "link" /\ folder' \in {"none", "dir", "link"}
      /\ UNCHANGED <<dumping, dumper, placed, puts>> /\ dumping
      /\ KeptNames(folder) = names /\ KeptNames(folder') = names
  BY DEF Dump, DumpsInv, DumpsTypeOK, KeptNames
<1>2. entries \in Seq(DumpNames) /\ Cardinality(HoldingOf(entries, names)) = placed
  BY <1>1 DEF DumpsInv, DumpsTypeOK
<1>3. CASE pruned' = FALSE /\ UNCHANGED entries
  BY <1>1, <1>2, <1>3 DEF DumpsInv, DumpsTypeOK
<1>4. ASSUME NEW n \in 1 .. 2,
             LET grown == entries \o [i \in 1 .. n |-> "dump"]
                 stale == Stale(grown)
             IN /\ Len(grown) <= MaxEntries
                /\ \E k \in 0 .. Cardinality(stale) :
                     /\ entries' = Without(grown, IF k = Cardinality(stale) THEN stale
                                               ELSE Oldest(grown, k))
                     /\ pruned' = (k = Cardinality(stale))
      PROVE  DumpsInv'
  <2> DEFINE more == [i \in 1 .. n |-> "dump"]
             grown == entries \o more
  <2>1. more \in Seq(DumpNames) /\ Len(more) = n
    BY DEF DumpNames
  <2>2. grown \in Seq(DumpNames) /\ DOMAIN grown = 1 .. Len(entries) + n /\ Len(entries) \in Nat
    BY <1>2, <2>1
  <2>3. \A i \in DOMAIN grown : grown[i] = IF i <= Len(entries) THEN entries[i] ELSE "dump"
    BY <1>2, <2>1, <2>2
  <2>4. HoldingOf(grown, names) = HoldingOf(entries, names)
    <3>1. DOMAIN entries = 1 .. Len(entries)
      BY <1>2
    <3> QED
      BY <2>2, <2>3, <3>1 DEF HoldingOf
  <2> HIDE DEF grown
  <2>5. PICK gone \in SUBSET DumpsIn(grown) :
          /\ entries' = Without(grown, gone)
          /\ pruned' \in BOOLEAN /\ (pruned' => gone = Stale(grown))
    <3>1. /\ Stale(grown) \in SUBSET DumpsIn(grown)
          /\ \A k : Oldest(grown, k) \in SUBSET DumpsIn(grown)
      BY DEF Stale, Oldest
    <3> QED
      BY <1>4, <3>1 DEF grown
  <2>6. /\ entries' \in Seq(DumpNames) /\ Len(entries') <= Len(grown)
        /\ Cardinality(HoldingOf(entries', names)) = placed
        /\ Cardinality(DumpsIn(entries')) = Cardinality(DumpsIn(grown) \ gone)
    BY <1>2, <2>2, <2>4, <2>5, OthersStay
  <2>7. pruned' => Cardinality(DumpsIn(entries')) <= Ring
    BY <2>2, <2>5, <2>6, StaleLeavesRing
  <2>8. Len(entries') <= MaxEntries
    <3>1. Len(grown) <= MaxEntries /\ MaxEntries \in Nat
      BY <1>4, FrameDumpsAssumption DEF grown
    <3> QED
      BY <2>2, <2>6, <3>1
  <2> QED
    BY <1>1, <2>5, <2>6, <2>7, <2>8 DEF DumpsInv, DumpsTypeOK
<1> QED
  BY <1>3, <1>4 DEF Dump

LEMMA StartKeeps ==
  ASSUME DumpsInv, DumperStarts
  PROVE  DumpsInv'
<1> DEFINE names == DumpNames \ {"dump"}
<1>1. /\ dumping' \in BOOLEAN /\ dumper' = TRUE /\ UNCHANGED <<placed, puts>>
      /\ entries \in Seq(DumpNames) /\ Len(entries) <= MaxEntries /\ MaxEntries \in Nat
  BY FrameDumpsAssumption DEF DumperStarts, DumpsInv, DumpsTypeOK
<1>2. CASE dumping' \/ folder # "dir"
  BY <1>1, <1>2 DEF DumperStarts, DumpsInv, DumpsTypeOK
<1>3. CASE ~dumping' /\ folder = "dir"
  <2>1. PICK gone \in SUBSET DumpsIn(entries) :
          /\ entries' = Without(entries, gone)
          /\ pruned' = (gone = DumpsIn(entries))
          /\ folder' \in {"dir", "none"}
    BY <1>3 DEF DumperStarts
  <2>2. KeptNames(folder) = names /\ KeptNames(folder') = names
    BY <1>3, <2>1 DEF KeptNames
  <2>3. Cardinality(HoldingOf(entries, names)) = placed
    BY <2>2 DEF DumpsInv
  <2>4. /\ entries' \in Seq(DumpNames) /\ Len(entries') <= Len(entries)
        /\ Cardinality(HoldingOf(entries', names)) = placed
        /\ Cardinality(DumpsIn(entries')) = Cardinality(DumpsIn(entries) \ gone)
    BY <1>1, <2>1, <2>3, OthersStay
  <2>5. pruned' => Cardinality(DumpsIn(entries')) = 0
    BY <2>1, <2>4, FS_EmptySet
  <2>6. Len(entries') <= MaxEntries
    BY <1>1, <2>4
  <2>7. pruned' \in BOOLEAN
    BY <2>1
  <2> QED
    BY <1>1, <1>3, <2>1, <2>2, <2>4, <2>5, <2>6, <2>7 DEF DumpsInv, DumpsTypeOK
<1> QED
  BY <1>1, <1>2, <1>3

LEMMA PutKeeps ==
  ASSUME DumpsInv, UserPuts
  PROVE  DumpsInv'
<1> DEFINE names == KeptNames(folder)
<1>1. PICK e \in DumpNames :
        /\ entries' = Append(entries, e)
        /\ placed' = IF Pruneable(e) THEN placed ELSE placed + 1
        /\ pruned' = (pruned /\ ~Pruneable(e))
  BY DEF UserPuts
<1>2. /\ puts' = puts + 1 /\ puts < MaxPlaced /\ Len(entries) < MaxEntries
      /\ UNCHANGED <<folder, dumping, dumper>>
      /\ entries \in Seq(DumpNames) /\ Len(entries) \in Nat /\ MaxEntries \in Nat
      /\ placed \in Nat /\ puts \in Nat /\ placed <= puts /\ MaxPlaced \in Nat
      /\ Cardinality(HoldingOf(entries, names)) = placed
  BY FrameDumpsAssumption DEF UserPuts, DumpsInv, DumpsTypeOK
<1>3. /\ entries' \in Seq(DumpNames) /\ Len(entries') = Len(entries) + 1
      /\ DOMAIN entries' = DOMAIN entries \cup {Len(entries) + 1}
      /\ Len(entries) + 1 \notin DOMAIN entries
      /\ \A i \in DOMAIN entries : entries'[i] = entries[i]
      /\ entries'[Len(entries) + 1] = e
  BY <1>1, <1>2
<1>4. Pruneable(e) <=> e \notin names
  BY DEF Pruneable, IsDump, KeptNames, DumpNames
<1>5. HoldingOf(entries, names) \in SUBSET DOMAIN entries
  BY DEF HoldingOf
<1>6. Cardinality(HoldingOf(entries', names)) = placed'
  <2>1. CASE Pruneable(e)
    <3>1. HoldingOf(entries', names) = HoldingOf(entries, names)
      BY <1>3, <1>4, <2>1 DEF HoldingOf
    <3> QED
      BY <1>1, <1>2, <2>1, <3>1
  <2>2. CASE ~Pruneable(e)
    <3>1. HoldingOf(entries', names) = HoldingOf(entries, names) \cup {Len(entries) + 1}
      BY <1>3, <1>4, <2>2 DEF HoldingOf
    <3>2. /\ IsFiniteSet(HoldingOf(entries, names))
          /\ Len(entries) + 1 \notin HoldingOf(entries, names)
      BY <1>2, <1>3, <1>5, Positions
    <3>3. Cardinality(HoldingOf(entries', names)) =
            Cardinality(HoldingOf(entries, names)) + 1
      BY <3>1, <3>2, FS_AddElement
    <3> QED
      BY <1>1, <1>2, <2>2, <3>3
  <2> QED
    BY <2>1, <2>2
<1>7. ASSUME pruned', folder' # "link"
      PROVE  Cardinality(DumpsIn(entries')) <= IF dumping' THEN Ring ELSE 0
  <2>1. pruned /\ e # "dump" /\ folder # "link"
    BY <1>1, <1>2, <1>7 DEF Pruneable, IsDump
  <2>2. DumpsIn(entries') = DumpsIn(entries)
    BY <1>3, <2>1 DEF DumpsIn, IsDump
  <2> QED
    BY <1>2, <2>1, <2>2 DEF DumpsInv
<1>8. placed' \in 0 .. MaxPlaced /\ placed' <= puts' /\ puts' \in 0 .. MaxPlaced
  BY <1>1, <1>2
<1>9. pruned' \in BOOLEAN
  BY <1>1
<1> QED
  BY <1>2, <1>3, <1>6, <1>7, <1>8, <1>9 DEF DumpsInv, DumpsTypeOK

LEMMA TakeKeeps ==
  ASSUME DumpsInv, UserTakes
  PROVE  DumpsInv'
<1> DEFINE names == KeptNames(folder)
<1>1. PICK i \in DOMAIN entries :
        /\ entries' = Without(entries, {i})
        /\ placed' = IF Pruneable(entries[i]) THEN placed ELSE placed - 1
  BY DEF UserTakes
<1>2. /\ UNCHANGED <<folder, dumping, dumper, puts, pruned>>
      /\ entries \in Seq(DumpNames) /\ Len(entries) <= MaxEntries /\ MaxEntries \in Nat
      /\ placed \in 0 .. MaxPlaced /\ puts \in Nat /\ placed <= puts /\ MaxPlaced \in Nat
      /\ Cardinality(HoldingOf(entries, names)) = placed
  BY FrameDumpsAssumption DEF UserTakes, DumpsInv, DumpsTypeOK
<1>3. /\ entries' \in Seq(DumpNames) /\ Len(entries') <= Len(entries)
      /\ \A set : Cardinality(HoldingOf(entries', set)) =
                    Cardinality(HoldingOf(entries, set) \ {i})
  BY <1>1, <1>2, WithoutHolds
<1>4. \A set : HoldingOf(entries, set) \in SUBSET DOMAIN entries
  BY DEF HoldingOf
<1>5. \A set : /\ IsFiniteSet(HoldingOf(entries, set))
               /\ Cardinality(HoldingOf(entries, set)) \in Nat
               /\ Cardinality(HoldingOf(entries, set) \ {i}) =
                    IF i \in HoldingOf(entries, set)
                    THEN Cardinality(HoldingOf(entries, set)) - 1
                    ELSE Cardinality(HoldingOf(entries, set))
  BY <1>2, <1>4, Positions, FS_RemoveElement
<1>6. Pruneable(entries[i]) <=> i \notin HoldingOf(entries, names)
  <2>1. entries[i] \in DumpNames
    BY <1>2
  <2> QED
    BY <2>1 DEF Pruneable, IsDump, KeptNames, HoldingOf
<1>7. /\ Cardinality(HoldingOf(entries', names)) = placed'
      /\ placed' \in {placed, placed - 1}
  BY <1>1, <1>2, <1>3, <1>5, <1>6
<1>8. placed' \in Nat
  <2>1. HoldingOf(entries', names) \in SUBSET DOMAIN entries'
    BY DEF HoldingOf
  <2> QED
    BY <1>3, <1>7, <2>1, Positions
<1>9. Cardinality(DumpsIn(entries')) <= Cardinality(DumpsIn(entries))
  <2>1. /\ DumpsIn(entries) = HoldingOf(entries, {"dump"})
        /\ DumpsIn(entries') = HoldingOf(entries', {"dump"})
    BY DumpsRead
  <2>2. Cardinality(DumpsIn(entries')) = Cardinality(HoldingOf(entries, {"dump"}) \ {i})
    BY <1>3, <2>1
  <2> QED
    BY <1>5, <2>1, <2>2
<1>10. ASSUME pruned', folder' # "link"
       PROVE  Cardinality(DumpsIn(entries')) <= IF dumping' THEN Ring ELSE 0
  <2>1. Cardinality(DumpsIn(entries)) <= IF dumping THEN Ring ELSE 0
    BY <1>2, <1>10 DEF DumpsInv
  <2>2. /\ Cardinality(DumpsIn(entries)) \in Nat /\ Cardinality(DumpsIn(entries')) \in Nat
        /\ Ring \in Nat
    <3>1. DumpsIn(entries') \in SUBSET DOMAIN entries'
      BY DEF DumpsIn
    <3> QED
      BY <1>3, <1>5, <3>1, DumpsRead, Positions, FrameDumpsAssumption
  <2> QED
    BY <1>2, <1>9, <2>1, <2>2
<1>11. placed' \in 0 .. MaxPlaced /\ placed' <= puts' /\ Len(entries') <= MaxEntries
  <2>1. Len(entries') \in Nat /\ Len(entries) \in Nat
    BY <1>2, <1>3
  <2> QED
    BY <1>2, <1>3, <1>7, <1>8, <2>1
<1> QED
  BY <1>2, <1>3, <1>7, <1>10, <1>11 DEF DumpsInv, DumpsTypeOK

LEMMA LinkKeeps ==
  ASSUME DumpsInv, UserLinks
  PROVE  DumpsInv'
<1>1. /\ entries = << >> /\ folder' \in {"none", "dir", "link"}
      /\ UNCHANGED <<entries, dumping, dumper, placed, puts, pruned>>
  BY DEF UserLinks
<1>2. /\ \A set : HoldingOf(entries, set) = {} /\ HoldingOf(entries', set) = {}
      /\ DumpsIn(entries') = {}
  BY <1>1 DEF HoldingOf, DumpsIn
<1>3. Ring \in Nat
  BY FrameDumpsAssumption
<1>4. Cardinality({}) = 0
  BY FS_EmptySet
<1>5. Cardinality(HoldingOf(entries', KeptNames(folder'))) = placed'
  <2>1. Cardinality(HoldingOf(entries, KeptNames(folder))) = placed
    BY DEF DumpsInv
  <2> QED
    BY <1>1, <1>2, <2>1
<1>6. DumpsTypeOK' /\ placed' <= puts'
  BY <1>1 DEF DumpsInv, DumpsTypeOK
<1>7. Cardinality(DumpsIn(entries')) <= IF dumping' THEN Ring ELSE 0
  BY <1>2, <1>3, <1>4
<1> QED
  BY <1>5, <1>6, <1>7 DEF DumpsInv

\* DumpsInv is inductive.
LEMMA DumpsInvariance == DumpsSpec => []DumpsInv
<1>1. DumpsInit => DumpsInv
  <2> SUFFICES ASSUME DumpsInit
               PROVE  DumpsInv
    OBVIOUS
  <2>1. /\ entries = << >> /\ placed = 0 /\ puts = 0 /\ folder = "none"
        /\ dumping = FALSE /\ dumper = FALSE /\ pruned = FALSE
    BY DEF DumpsInit
  <2>2. \A set : HoldingOf(entries, set) = {}
    BY <2>1 DEF HoldingOf
  <2>3. << >> \in Seq(DumpNames) /\ Len(<< >>) = 0
    OBVIOUS
  <2>4. Cardinality(HoldingOf(entries, KeptNames(folder))) = placed
    BY <2>1, <2>2, FS_EmptySet
  <2>5. MaxEntries \in Nat /\ MaxPlaced \in Nat
    BY FrameDumpsAssumption
  <2>a. entries \in Seq(DumpNames) /\ Len(entries) = 0
    BY <2>1, <2>3
  <2>b. placed \in 0 .. MaxPlaced /\ puts \in 0 .. MaxPlaced /\ placed <= puts
    BY <2>1, <2>5
  <2>6. DumpsTypeOK /\ placed <= puts
    <3>1. Len(entries) <= MaxEntries
      BY <2>5, <2>a
    <3>2. folder \in {"none", "dir", "link"}
      BY <2>1
    <3>3. dumping \in BOOLEAN /\ dumper \in BOOLEAN /\ pruned \in BOOLEAN
      BY <2>1
    <3> QED
      BY <2>a, <2>b, <3>1, <3>2, <3>3 DEF DumpsTypeOK
  <2> QED
    BY <2>1, <2>4, <2>6 DEF DumpsInv
<1>2. DumpsInv /\ [DumpsNext]_dumpVars => DumpsInv'
  <2> SUFFICES ASSUME DumpsInv, [DumpsNext]_dumpVars
               PROVE  DumpsInv'
    OBVIOUS
  <2>1. CASE KnobReload
    BY <2>1 DEF KnobReload, DumpsInv, DumpsTypeOK
  <2>2. CASE DumperEnds
    BY <2>2 DEF DumperEnds, DumpsInv, DumpsTypeOK
  <2>3. CASE UNCHANGED dumpVars
    BY <2>3 DEF dumpVars, DumpsInv, DumpsTypeOK
  <2> QED
    BY <2>1, <2>2, <2>3, DumpKeeps, StartKeeps, PutKeeps, TakeKeeps, LinkKeeps DEF DumpsNext
<1> QED
  BY <1>1, <1>2, PTL DEF DumpsSpec

\* Every variable of the frame ring has its type (_maybe_dump_frame).
THEOREM FramesAreTyped == DumpsSpec => []DumpsTypeOK
<1>1. DumpsInv => DumpsTypeOK
  BY DEF DumpsInv
<1> QED
  BY <1>1, DumpsInvariance, PTL

\* No file goes that is not a dump of the service's own, and after a prune or a
\* purge no more faces are on disk than the ring has room for (_maybe_dump_frame,
\* purge_debug_frames).
THEOREM FramesAreKept == DumpsSpec => []DumpsKept
<1>1. DumpsInv => DumpsKept
  BY KeptRead DEF DumpsInv, DumpsKept
<1> QED
  BY <1>1, DumpsInvariance, PTL

\* The log and the frames together (audit.py, _maybe_dump_frame).
THEOREM TracesAreKept == AuditSpec /\ DumpsSpec => []TracesKept
<1>1. LogKept /\ DumpsKept => TracesKept
  BY DEF TracesKept
<1> QED
  BY <1>1, LogIsKept, FramesAreKept, PTL

=============================================================================
