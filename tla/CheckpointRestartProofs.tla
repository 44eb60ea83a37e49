--------------------- MODULE CheckpointRestartProofs ---------------------
(***************************************************************************)
(* Theorems about CheckpointRestart, for every program, every bound and    *)
(* every way the machine may fail.  The inductive invariant is built in    *)
(* layers, each proved on top of the ones before it: Typed, Recorded,      *)
(* Ordered and Remembered.                                                 *)
(***************************************************************************)
EXTENDS CheckpointRestart, TLAPS

----------------------------------------------------------------------------
(* The layers of the inductive invariant *)

\* Where the process is in its code, and what its counters say.
Phased ==
  /\ ~Executing => counter = 0 /\ visit = 0
  /\ pc = "running" => counter <= visit
  /\ pc \in {"start", "save"} => counter < visit
  /\ pc \notin {"restore", "save"} => arg = 0
  /\ pc = "restore" => label # NoLabel /\ arg <= Size[label]
  /\ pc \in {"setup", "restore"} /\ label # NoLabel =>
       /\ restartIndex = arg - 1
       /\ restartDir \in ValidDirs
       /\ label = disk[restartDir].info.label
  /\ pc = "save" => arg <= Size[LabelAt[visit]]
  /\ pc = "save" /\ PerformCurrentCheckpoint =>
       argIndex = arg /\ CurrentDir \in DOMAIN disk

Typed == TypeOK /\ Phased

\* What the directories hold is what the checkpoint block of their visit
\* writes, and the files still to come are not there.
Recorded ==
  /\ \A d \in DOMAIN disk :
       /\ disk[d].visit > 0
       /\ disk[d].info.readable =>
            /\ disk[d].info.label = LabelAt[disk[d].visit]
            /\ disk[d].info.num = Size[LabelAt[disk[d].visit]]
       /\ \A s \in Slots : disk[d].files[s].readable =>
            (disk[d].files[s].alias <=> IsAlias(disk[d].visit, s))
  /\ pc = "save" /\ PerformCurrentCheckpoint =>
       /\ disk[CurrentDir].visit = visit
       /\ \A s \in Slots : s >= arg => ~disk[CurrentDir].files[s].readable

\* The directory names follow the clock: no epoch is ahead of it, and the
\* epoch of a process that still makes checkpoints is the newest there is.
Alive == pc = "restore" \/ Executing
Named ==
  /\ \A d \in DOMAIN disk : d[1] \in epochs
  /\ \A e \in epochs : e <= clock
Own ==
  checkpointing /\ Alive =>
    /\ base \in epochs
    /\ \A e \in epochs : e <= base
    /\ \A d \in DOMAIN disk : d[1] = base => d[2] <= counter

\* A process that restarts does so from the furthest of the valid checkpoints.
Resuming ==
  pc \in {"setup", "restore"} =>
    /\ label = NoLabel => ValidDirs = {}
    /\ label # NoLabel =>
         \A d \in ValidDirs : disk[d].visit <= disk[restartDir].visit

\* No valid checkpoint is ahead of the process.
Ahead ==
  /\ pc = "running" => \A d \in ValidDirs : disk[d].visit <= visit
  /\ pc = "start" => \A d \in ValidDirs : disk[d].visit < visit
  /\ pc = "save" => \A d \in ValidDirs :
       disk[d].visit < visit \/ (d = CurrentDir /\ disk[d].visit = visit)

Ordered == Named /\ Own /\ Resuming /\ Ahead /\ NewestIsFurthest

\* At every visit each alias points at the start of a variable the pass
\* offers as its target.
AddressAt(v, s) == IF IsAlias(v, s) THEN Points[v][s] ELSE s
AliasesFound ==
  \A v \in 1 .. MaxVisit : \A s \in Live(v) : IsAlias(v, s) =>
    \E i \in DOMAIN Candidates[LabelAt[v]][s] :
      AddressAt(v, Candidates[LabelAt[v]][s][i]) = Points[v][s]

\* The files, the restored variables and the alias table hold what the
\* program had in memory at the visit of the checkpoint.
Stored(c) ==
  \A s \in Slots : c.files[s].readable =>
    IF c.files[s].alias
    THEN /\ c.files[s].body \in Slots /\ c.files[s].body < s
         /\ AddressAt(c.visit, c.files[s].body) = Points[c.visit][s]
    ELSE c.files[s].body = c.visit
RestoredTo(v) ==
  \A s \in Slots : IF s < arg
                   THEN mem[s] = Memory(v)[s] /\ table[s] = AddressAt(v, s)
                   ELSE mem[s] = Undefined
Remembered ==
  /\ \A d \in DOMAIN disk : Stored(disk[d])
  /\ MemoryIntact
  /\ ~Alive => mem = NoMemory
  /\ pc = "restore" => RestoredTo(disk[restartDir].visit)

----------------------------------------------------------------------------
(* Types and phases *)

LEMMA ProgramTypes ==
  /\ 0 \in Visits /\ 0 \in Times /\ 0 \in Indices
  /\ NoMemory \in [Slots -> Values]
  /\ \A v \in Visits : Memory(v) \in [Slots -> Values]
  /\ \A v \in Visits : v > 0 =>
       LabelAt[v] \in Labels /\ Size[LabelAt[v]] \in 0 .. MaxVars
  /\ \A l \in Labels : Size[l] \in 0 .. MaxVars
  <1>1. 0 \in Visits /\ 0 \in Times /\ 0 \in Indices
    BY BoundsAssumption DEF Visits, Times, Indices
  <1>2. NoMemory \in [Slots -> Values]
    BY DEF NoMemory, Values
  <1>3. \A l \in Labels : Size[l] \in 0 .. MaxVars
    BY ProgramAssumption
  <1>4. ASSUME NEW v \in Visits, v > 0
        PROVE  LabelAt[v] \in Labels /\ Size[LabelAt[v]] \in 0 .. MaxVars
    <2>1. v \in 1 .. MaxVisit
      BY <1>4, BoundsAssumption DEF Visits
    <2>2. LabelAt[v] \in Labels
      BY <2>1, ProgramAssumption
    <2> QED BY <2>2, <1>3
  <1>5. ASSUME NEW v \in Visits, NEW s \in Slots
        PROVE  (IF s \notin Live(v) THEN Undefined
                ELSE IF IsAlias(v, s) THEN Points[v][s] ELSE v) \in Values
    <2>1. CASE s \notin Live(v)
      BY <2>1 DEF Values
    <2>2. CASE s \in Live(v)
      <3>1. v \in 1 .. MaxVisit
        BY <2>2, BoundsAssumption DEF Live, Visits
      <3>2. Points[v][s] \in Slots \cup {Elsewhere}
        BY <3>1, ProgramAssumption
      <3> QED BY <2>2, <3>2 DEF Values
    <2> QED BY <2>1, <2>2
  <1>6. \A v \in Visits : Memory(v) \in [Slots -> Values]
    BY <1>5 DEF Memory
  <1> QED BY <1>1, <1>2, <1>3, <1>4, <1>6

\* What a death leaves is well typed, whatever it ends.
LEMMA DieTyped ==
  ASSUME Typed, NEW end \in {"off", "done", "aborted"}, Die(end),
         epochs' \subseteq Times, clock' \in Times,
         launches' \in 0 .. MaxLaunches,
         DOMAIN disk' \subseteq Dirs, disk' \in [DOMAIN disk' -> Checkpoints]
  PROVE  Typed'
  <1>1. TypeOK'
    BY ProgramTypes, BoundsAssumption
    DEF TypeOK, Die, InitialState, Dirs, Phases, NoLabel, Indices, Visits
  <1>2. Phased'
    BY DEF Die, InitialState, Phased, Executing
  <1> QED BY <1>1, <1>2 DEF Typed

LEMMA InitTyped == Init => Typed
  <1> SUFFICES ASSUME Init PROVE Typed
    OBVIOUS
  <1>1. DOMAIN disk = {} /\ disk \in [DOMAIN disk -> Checkpoints]
    BY DEF Init
  <1>2. TypeOK
    BY <1>1, ProgramTypes, BoundsAssumption
    DEF TypeOK, Init, InitialState, Dirs, Phases, NoLabel, Indices, Visits
  <1>3. Phased
    BY DEF Init, InitialState, Phased, Executing
  <1> QED BY <1>2, <1>3 DEF Typed

LEMMA NewCheckpointTyped ==
  ASSUME Typed, pc = "start", NEW written \in BOOLEAN
  PROVE  /\ CurrentDir \in Dirs
         /\ NewCheckpoint(written) \in Checkpoints
         /\ DOMAIN WithNew(CurrentDir, written) = DOMAIN disk \cup {CurrentDir}
         /\ WithNew(CurrentDir, written) \in
              [DOMAIN disk \cup {CurrentDir} -> Checkpoints]
  <1>1. visit \in Visits /\ visit > 0 /\ CurrentDir \in Dirs
    BY DEF Typed, TypeOK, Phased, Visits, Indices, CurrentDir, Dirs
  <1>2. NewCheckpoint(written) \in Checkpoints
    BY <1>1, ProgramTypes, BoundsAssumption
    DEF NewCheckpoint, Checkpoints, InfoOf, NoInfo, Infos, Files, Unreadable
  <1> QED BY <1>1, <1>2 DEF WithNew, Typed, TypeOK

LEMMA CrashTyped == ASSUME Typed, Crash PROVE Typed'
  <1> USE DEF Typed, TypeOK
  <1>1. CASE PartialSetup
    BY <1>1, DieTyped DEF Crash, PartialSetup
  <1>2. CASE PartialStart
    <2>1. /\ DOMAIN disk' \subseteq Dirs
          /\ disk' \in [DOMAIN disk' -> Checkpoints]
      BY <1>2, NewCheckpointTyped DEF PartialStart
    <2> QED BY <1>2, <2>1, DieTyped DEF Crash, PartialStart
  <1>3. CASE UNCHANGED <<disk, epochs>>
    BY <1>3, DieTyped DEF Crash
  <1> QED BY <1>1, <1>2, <1>3 DEF Crash

LEMMA LaunchTyped ==
  ASSUME Typed, RestartGetLabel \/ CheckpointSetup PROVE Typed'
  <1> USE DEF Typed, checkpointState, restartState
  <1>1. CASE RestartGetLabel
    <2>1. CASE ValidDirs = {} /\ label' = NoLabel /\ UNCHANGED restartState
      <3>1. TypeOK'
        BY <1>1, <2>1, BoundsAssumption
        DEF RestartGetLabel, TypeOK, Phases, NoLabel
      <3>2. Phased'
        BY <1>1, <2>1
        DEF RestartGetLabel, TypeOK, Phased, Executing, Stopped, NoLabel
      <3> QED BY <3>1, <3>2
    <2>2. ASSUME NEW dir \in DOMAIN disk, NewestValid(dir),
                 label' = disk[dir].info.label, restartDir' = dir,
                 restartIndex' = -1, table' = NoMemory
          PROVE  Typed'
      <3>1. dir \in Dirs /\ dir \in ValidDirs /\ ValidDirs' = ValidDirs
        BY <1>1, <2>2
        DEF RestartGetLabel, TypeOK, NewestValid, ValidDirs, CheckpointValid
      <3>2. label' \in Labels \cup {NoLabel}
        BY <2>2 DEF TypeOK, Checkpoints, Infos
      <3>3. TypeOK'
        BY <1>1, <2>2, <3>1, <3>2, ProgramTypes, BoundsAssumption
        DEF RestartGetLabel, TypeOK, Phases
      <3>4. Phased'
        BY <1>1, <2>2, <3>1
        DEF RestartGetLabel, TypeOK, Phased, Executing, Stopped
      <3> QED BY <3>3, <3>4
    <2> QED BY <1>1, <2>1, <2>2 DEF RestartGetLabel
  <1>2. CASE CheckpointSetup
    <2> PICK env \in EnvIntervals, first, second \in ClockSucceeds :
          /\ interval' = IntervalFrom(env)
          /\ base' = GetTime(first)
          /\ nextTime' = GetTime(second) + IntervalFrom(env)
          /\ checkpointing' \in BOOLEAN
          /\ epochs' = epochs \/ epochs' = epochs \cup {base'}
      BY <1>2 DEF CheckpointSetup
    <2>1. IntervalFrom(env) \in Nat
      BY EnvironmentAssumption, BoundsAssumption
      DEF IntervalFrom, TypeOK, Unset, NotANumber
    <2>2. GetTime(first) \in Times /\ GetTime(second) \in Nat
      BY ProgramTypes, BoundsAssumption DEF GetTime, TypeOK, Times
    <2>3. /\ interval' \in Nat /\ nextTime' \in Nat /\ base' \in Times
          /\ epochs' \subseteq Times
      BY <2>1, <2>2 DEF TypeOK
    <2>4. TypeOK'
      BY <1>2, <2>3 DEF CheckpointSetup, TypeOK, Dispatch, Phases
    <2>5. Phased'
      BY <1>2, ProgramTypes
      DEF CheckpointSetup, TypeOK, Phased, Executing, Dispatch, ValidDirs,
          CheckpointValid, NoLabel
    <2> QED BY <2>4, <2>5
  <1> QED BY <1>1, <1>2

\* The directories do not change: neither does what is valid.
LEMMA SameDirs == ASSUME disk' = disk PROVE ValidDirs' = ValidDirs
  BY DEF ValidDirs, CheckpointValid

LEMMA FileTypes ==
  ASSUME NEW f \in Files
  PROVE  /\ f.readable \in BOOLEAN /\ f.alias \in BOOLEAN /\ f.body \in Values
         /\ f.readable /\ f.alias => f.body \in Slots
  <1>1. CASE f = Unreadable
    BY <1>1 DEF Unreadable, Values
  <1>2. CASE f \in [readable : {TRUE}, alias : {FALSE}, body : Values]
    BY <1>2
  <1>3. CASE f \in [readable : {TRUE}, alias : {TRUE}, body : Slots]
    BY <1>3 DEF Values
  <1> QED BY <1>1, <1>2, <1>3 DEF Files

\* The file the restart block is about to read.
LEMMA RestoreTyped ==
  ASSUME Typed, pc = "restore", arg < Size[label]
  PROVE  /\ label \in Labels /\ arg \in Slots /\ arg + 1 <= Size[label]
         /\ restartIndex + 1 = arg /\ restartDir \in DOMAIN disk
         /\ FileToRead = disk[restartDir].files[arg]
         /\ FileToRead \in Files
         /\ FileToRead.body \in Values
         /\ FileToRead.readable /\ FileToRead.alias => FileToRead.body \in Slots
  <1>1. /\ label \in Labels /\ arg \in Slots /\ arg + 1 <= Size[label]
        /\ restartIndex + 1 = arg /\ restartDir \in DOMAIN disk
    <2>1. label \in Labels /\ arg \in 0 .. MaxVars /\ restartIndex \in -1 .. MaxVars
      BY DEF Typed, TypeOK, Phased, NoLabel
    <2>2. Size[label] \in 0 .. MaxVars
      BY <2>1, ProgramTypes
    <2>3. restartIndex = arg - 1 /\ restartDir \in ValidDirs
      BY DEF Typed, Phased
    <2>4. restartDir \in DOMAIN disk
      BY <2>3 DEF ValidDirs
    <2>5. arg \in Slots /\ arg + 1 <= Size[label]
      BY <2>1, <2>2, BoundsAssumption DEF Slots
    <2>6. restartIndex + 1 = arg
      BY <2>1, <2>3, BoundsAssumption
    <2> QED BY <2>1, <2>4, <2>5, <2>6
  <1>2. FileToRead = disk[restartDir].files[arg]
    BY <1>1 DEF FileToRead
  <1>3. FileToRead \in Files
    BY <1>1, <1>2 DEF Typed, TypeOK, Checkpoints
  <1> QED BY <1>1, <1>2, <1>3, FileTypes

LEMMA RestartTyped == ASSUME Typed, Restart PROVE Typed'
  <1> USE DEF Typed, machine
  <1>1. ASSUME pc = "restore", arg < Size[label],
               restartIndex' = restartIndex + 1, arg' = arg + 1,
               UNCHANGED <<pc, visit, label, checkpointState, restartDir, machine>>,
               NEW m \in Values, NEW t \in Values,
               mem' = [mem EXCEPT ![arg] = m],
               table' = [table EXCEPT ![restartIndex + 1] = t]
        PROVE  Typed'
    <2>1. /\ arg' \in 0 .. MaxVars /\ restartIndex' \in -1 .. MaxVars
          /\ arg' <= Size[label] /\ restartIndex' = arg' - 1
      <3>1. /\ arg \in Nat /\ arg + 1 <= Size[label]
            /\ restartIndex + 1 = arg /\ label \in Labels
        BY <1>1, RestoreTyped, BoundsAssumption DEF Slots
      <3>2. Size[label] \in 0 .. MaxVars /\ restartIndex \in Int
        BY <3>1, ProgramTypes, BoundsAssumption DEF TypeOK
      <3> QED BY <1>1, <3>1, <3>2, BoundsAssumption
    <2>2. mem' \in [Slots -> Values] /\ table' \in [Slots -> Values]
      BY <1>1, RestoreTyped DEF TypeOK
    <2>3. TypeOK'
      BY <1>1, <2>1, <2>2 DEF TypeOK, checkpointState
    <2>4. ValidDirs' = ValidDirs /\ pc' = "restore"
      BY <1>1, SameDirs
    <2>5. Phased'
      BY <1>1, <2>1, <2>4 DEF Phased, Executing, checkpointState
    <2> QED BY <2>3, <2>5
  <1>2. ASSUME Die("aborted"), UNCHANGED machine PROVE Typed'
    BY <1>2, DieTyped DEF TypeOK
  <1>3. CASE RestartReadPointer
    <2>1. CASE Die("aborted")
      BY <1>2, <1>3, <2>1 DEF RestartReadPointer
    <2>2. CASE ~Die("aborted")
      <3>1. arg \in Values /\ FileToRead.body \in Values
        BY <1>3, RestoreTyped DEF RestartReadPointer, Values
      <3> QED BY <1>1, <1>3, <2>2, <3>1 DEF RestartReadPointer
    <2> QED BY <2>1, <2>2
  <1>4. CASE RestartReadAlias
    <2>1. CASE Die("aborted")
      BY <1>2, <1>4, <2>1 DEF RestartReadAlias
    <2>2. CASE ~Die("aborted")
      <3>1. table[FileToRead.body] \in Values
        BY <1>4, <2>2, RestoreTyped DEF RestartReadAlias, TypeOK
      <3> QED BY <1>1, <1>4, <2>2, <3>1 DEF RestartReadAlias
    <2> QED BY <2>1, <2>2
  <1>5. CASE RestartFinish
    <2>1. restartDir \in DOMAIN disk
      BY <1>5 DEF RestartFinish, Phased, ValidDirs
    <2>2. visit' \in Visits
      BY <1>5, <2>1 DEF RestartFinish, TypeOK, Checkpoints
    <2>3. PICK ok \in ClockSucceeds :
            /\ nextTime' = GetTime(ok) + interval
            /\ checkpointing' = (checkpointing /\ ok)
      BY <1>5 DEF RestartFinish
    <2>4. nextTime' \in Nat /\ checkpointing' \in BOOLEAN
      BY <2>3, EnvironmentAssumption, BoundsAssumption
      DEF GetTime, TypeOK, Times
    <2>5. TypeOK'
      BY <1>5, <2>2, <2>4, BoundsAssumption
      DEF RestartFinish, TypeOK, restartState, Phases
    <2>6. Phased'
      BY <1>5, <2>2 DEF RestartFinish, TypeOK, Phased, Executing, Visits
    <2> QED BY <2>5, <2>6
  <1> QED BY <1>3, <1>4, <1>5 DEF Restart

LEMMA ProgramTyped == ASSUME Typed, Reach \/ Exit \/ Tick PROVE Typed'
  <1> USE DEF Typed, machine, checkpointState, restartState
  <1>1. CASE Reach
    <2>1. visit \in Visits /\ visit' \in Visits
      BY <1>1, BoundsAssumption DEF Reach, TypeOK, Visits
    <2>2. mem' \in [Slots -> Values]
      BY <1>1, <2>1, ProgramTypes DEF Reach
    <2>3. TypeOK'
      BY <1>1, <2>1, <2>2 DEF Reach, TypeOK, Phases
    <2>4. Phased'
      BY <1>1, <2>1 DEF Reach, TypeOK, Phased, Executing, Visits, Indices
    <2> QED BY <2>3, <2>4
  <1>2. CASE Exit
    BY <1>2, DieTyped DEF Exit, TypeOK
  <1>3. CASE Tick
    <2>1. clock' \in Times
      BY <1>3, BoundsAssumption DEF Tick, TypeOK, Times
    <2>2. TypeOK'
      BY <1>3, <2>1 DEF Tick, TypeOK, program
    <2>3. Phased'
      BY <1>3, SameDirs
      DEF Tick, Phased, Executing, program, PerformCurrentCheckpoint, CurrentDir
    <2> QED BY <2>2, <2>3
  <1> QED BY <1>1, <1>2, <1>3

\* The checkpoint block and the variable it is about to write.
LEMMA SaveTyped ==
  ASSUME Typed, pc \in {"start", "save"}
  PROVE  /\ visit \in 1 .. MaxVisit /\ LabelAt[visit] \in Labels
         /\ Size[LabelAt[visit]] \in 0 .. MaxVars
         /\ CurrentDir \in Dirs
         /\ Writing => /\ arg \in Slots /\ arg + 1 \in 0 .. MaxVars
                       /\ arg + 1 <= Size[LabelAt[visit]]
  <1>1. visit \in 1 .. MaxVisit /\ CurrentDir \in Dirs
    BY BoundsAssumption
    DEF Typed, TypeOK, Phased, Visits, Indices, CurrentDir, Dirs
  <1>2. LabelAt[visit] \in Labels /\ Size[LabelAt[visit]] \in 0 .. MaxVars
    BY <1>1, ProgramTypes, BoundsAssumption DEF Visits
  <1>3. arg \in Nat
    BY BoundsAssumption DEF Typed, TypeOK
  <1> QED BY <1>1, <1>2, <1>3, BoundsAssumption DEF Writing, Slots

\* The targets the pass offers for the alias about to be written.
LEMMA OfferedTyped ==
  ASSUME Typed, Writing, pc = "save"
  PROVE  /\ 0 \in Slots
         /\ \A i \in DOMAIN Offered : Offered[i] \in Slots /\ Offered[i] < arg
  <1>1. arg \in Slots /\ LabelAt[visit] \in Labels
    BY SaveTyped
  <1>2. Offered \in Seq(Slots)
    BY <1>1, ProgramAssumption DEF Offered
  <1>3. 0 \in Slots
    BY <1>1, BoundsAssumption DEF Slots
  <1>4. \A i \in DOMAIN Offered : Offered[i] \in Slots
    BY <1>2
  <1>5. \A i \in DOMAIN Offered : Offered[i] < arg
    BY <1>1, OrderAssumption DEF Offered
  <1> QED BY <1>3, <1>4, <1>5

LEMMA WriteTyped ==
  ASSUME Typed, Writing, PerformCurrentCheckpoint,
         NEW alias \in BOOLEAN, NEW body \in Values, alias => body \in Slots,
         WriteNextFile(alias, body)
  PROVE  /\ DOMAIN disk' = DOMAIN disk /\ disk' \in [DOMAIN disk' -> Checkpoints]
         /\ argIndex' = arg + 1
  <1>1. argIndex = arg /\ arg \in Slots /\ CurrentDir \in DOMAIN disk
    BY SaveTyped DEF Writing, Typed, Phased
  <1>2. PICK written \in WriteSucceeds :
          disk' = [disk EXCEPT ![CurrentDir].files[arg] =
                                 FileOf(alias, body, written)]
    BY <1>1 DEF WriteNextFile
  <1>3. FileOf(alias, body, written) \in Files
    <2>1. CASE written /\ alias
      BY <2>1 DEF FileOf, Files
    <2>2. CASE written /\ ~alias
      BY <2>2 DEF FileOf, Files
    <2>3. CASE ~written
      BY <2>3 DEF FileOf, Files
    <2> QED BY <2>1, <2>2, <2>3
  <1>4. disk \in [DOMAIN disk -> Checkpoints]
    BY DEF Typed, TypeOK
  <1> DEFINE c == disk[CurrentDir]
             f == FileOf(alias, body, written)
  <1>5. disk' = [disk EXCEPT ![CurrentDir] = [c EXCEPT !.files[arg] = f]]
    BY <1>2
  <1>6. c \in Checkpoints
    BY <1>1, <1>4
  <1> HIDE DEF c, f
  <1>7. [c EXCEPT !.files[arg] = f] \in Checkpoints
    BY <1>1, <1>3, <1>6 DEF Checkpoints, f
  <1>8. DOMAIN disk' = DOMAIN disk /\ disk' \in [DOMAIN disk' -> Checkpoints]
    BY <1>1, <1>4, <1>5, <1>7
  <1>9. argIndex' = arg + 1
    BY <1>1 DEF WriteNextFile
  <1> QED BY <1>8, <1>9

LEMMA StartTyped == ASSUME Typed, CheckpointStart PROVE Typed'
  <1> USE DEF Typed
  <1>1. PICK ok \in ClockSucceeds :
          /\ checkpointing' = (checkpointing /\ ok)
          /\ \/ StartNotDue(GetTime(ok)) \/ StartDisabled(GetTime(ok))
             \/ StartNoDirectory(GetTime(ok)) \/ StartDirectory(GetTime(ok))
    BY DEF CheckpointStart
  <1>2. checkpointing' \in BOOLEAN
    BY <1>1, EnvironmentAssumption DEF TypeOK
  <1>3. /\ enabled' \in BOOLEAN /\ argIndex' \in 0 .. MaxVars
        /\ DOMAIN disk' \subseteq Dirs /\ disk' \in [DOMAIN disk' -> Checkpoints]
        /\ checkpointing' /\ enabled' =>
             argIndex' = 0 /\ CurrentDir \in DOMAIN disk'
    <2>1. CASE StartNotDue(GetTime(ok))
      BY <2>1 DEF StartNotDue, TypeOK
    <2>2. CASE StartDisabled(GetTime(ok))
      BY <2>2, BoundsAssumption DEF StartDisabled, TypeOK
    <2>3. CASE StartNoDirectory(GetTime(ok))
      <3>1. disk' = disk /\ ~enabled' /\ enabled' \in BOOLEAN /\ argIndex' = 0
        BY <2>3 DEF StartNoDirectory
      <3> QED BY <3>1, BoundsAssumption DEF TypeOK
    <2>4. CASE StartDirectory(GetTime(ok))
      <3>1. PICK written \in WriteSucceeds : disk' = WithNew(CurrentDir, written)
        BY <2>4 DEF StartDirectory
      <3>2. /\ DOMAIN disk' = DOMAIN disk \cup {CurrentDir}
            /\ disk' \in [DOMAIN disk \cup {CurrentDir} -> Checkpoints]
            /\ CurrentDir \in Dirs
        BY <3>1, NewCheckpointTyped, EnvironmentAssumption DEF CheckpointStart
      <3> QED BY <2>4, <3>2, BoundsAssumption DEF StartDirectory, TypeOK
    <2> QED BY <1>1, <2>1, <2>2, <2>3, <2>4
  <1>4. TypeOK'
    BY <1>2, <1>3, BoundsAssumption DEF CheckpointStart, TypeOK, restartState, Phases
  <1>5. CurrentDir' = CurrentDir
    BY DEF CheckpointStart, CurrentDir
  <1>6. Phased'
    BY <1>3, <1>5, SaveTyped
    DEF CheckpointStart, Phased, Executing, PerformCurrentCheckpoint
  <1> QED BY <1>4, <1>6

LEMMA VariableTyped ==
  ASSUME Typed, SkipVariable \/ CheckpointPointer \/ CheckpointAlias
  PROVE  Typed'
  <1> USE DEF Typed
  <1>1. /\ pc = "save" /\ Writing /\ arg' = arg + 1
        /\ UNCHANGED <<pc, visit, mem, label, checkpointing, counter, interval,
                       nextTime, base, restartState, epochs, clock, launches>>
    BY DEF SkipVariable, CheckpointPointer, CheckpointAlias, Writing,
           checkpointState, machine
  <1>2. CASE SkipVariable
    <2>1. TypeOK'
      BY <1>1, <1>2, SaveTyped
      DEF SkipVariable, TypeOK, restartState, checkpointState, machine
    <2>2. Phased'
      BY <1>1, <1>2, SaveTyped
      DEF SkipVariable, Phased, Executing, checkpointState, machine,
          PerformCurrentCheckpoint
    <2> QED BY <2>1, <2>2
  <1>3. ASSUME PerformCurrentCheckpoint, enabled' \in BOOLEAN,
               DOMAIN disk' = DOMAIN disk,
               disk' \in [DOMAIN disk' -> Checkpoints], argIndex' = arg + 1
        PROVE  Typed'
    <2>1. TypeOK'
      BY <1>1, <1>3, SaveTyped DEF TypeOK, restartState
    <2>2. Phased'
      BY <1>1, <1>3, SaveTyped
      DEF Phased, Executing, PerformCurrentCheckpoint, CurrentDir
    <2> QED BY <2>1, <2>2
  <1>4. CASE CheckpointPointer
    <2>1. mem[arg] \in Values
      BY <1>1, SaveTyped DEF TypeOK
    <2>2. PerformCurrentCheckpoint /\ WriteNextFile(FALSE, mem[arg])
      BY <1>4 DEF CheckpointPointer
    <2> QED BY <1>1, <1>3, <1>4, <2>1, <2>2, WriteTyped
        DEF CheckpointPointer, TypeOK
  <1>5. CASE CheckpointAlias
    <2>1. PerformCurrentCheckpoint /\ enabled' \in BOOLEAN
      BY <1>5 DEF CheckpointAlias, TypeOK
    <2>2. PICK b \in Slots : WriteNextFile(TRUE, b)
      BY <1>1, <1>5, OfferedTyped DEF CheckpointAlias
    <2>3. b \in Values
      BY DEF Values
    <2> QED BY <1>1, <1>3, <2>1, <2>2, <2>3, WriteTyped
  <1> QED BY <1>2, <1>4, <1>5

LEMMA FinishTyped == ASSUME Typed, CheckpointFinish PROVE Typed'
  <1> USE DEF Typed
  <1>1. /\ nextTime' \in Nat /\ checkpointing' \in BOOLEAN
        /\ counter' \in Indices /\ counter' <= visit
    <2>1. counter + 1 \in Indices /\ counter + 1 <= visit /\ counter <= visit
      BY SaveTyped, BoundsAssumption
      DEF CheckpointFinish, TypeOK, Phased, Indices
    <2>2. CASE ~PerformCurrentCheckpoint
      BY <2>1, <2>2 DEF CheckpointFinish, TypeOK
    <2>3. CASE PerformCurrentCheckpoint
      <3>1. PICK ok \in ClockSucceeds :
              nextTime' = GetTime(ok) + interval /\ checkpointing' = ok
        BY <2>3 DEF CheckpointFinish
      <3> QED BY <2>1, <2>3, <3>1, EnvironmentAssumption, BoundsAssumption
          DEF CheckpointFinish, NextCounter, GetTime, TypeOK, Times
    <2> QED BY <2>2, <2>3
  <1>2. TypeOK'
    BY <1>1, BoundsAssumption
    DEF CheckpointFinish, TypeOK, restartState, machine, Phases
  <1>3. Phased'
    BY <1>1 DEF CheckpointFinish, Phased, Executing
  <1> QED BY <1>2, <1>3

LEMMA StepTyped == Typed /\ [Next]_vars => Typed'
  <1> SUFFICES ASSUME Typed, [Next]_vars PROVE Typed'
    OBVIOUS
  <1>1. CASE Process
    BY <1>1, LaunchTyped, RestartTyped, ProgramTyped, StartTyped, VariableTyped,
       FinishTyped DEF Process, Checkpoint
  <1>2. CASE Crash \/ Tick
    BY <1>2, CrashTyped, ProgramTyped
  <1>3. CASE UNCHANGED vars
    BY <1>3, SameDirs
    DEF vars, program, checkpointState, restartState, machine, Typed, TypeOK,
        Phased, Executing, PerformCurrentCheckpoint, CurrentDir
  <1> QED BY <1>1, <1>2, <1>3 DEF Next

LEMMA Typing == Spec => []Typed
  BY InitTyped, StepTyped, PTL DEF Spec

\* Every variable of the runtime keeps its type: no checkpoint outgrows its
\* variables, no counter the visits, no index the alias table.
THEOREM TypeCorrect == Spec => []TypeOK
  BY Typing, PTL DEF Typed

----------------------------------------------------------------------------
(* What a step does to the disk *)

Makes(written) ==
  /\ pc = "start" /\ checkpointing /\ CurrentDir \notin DOMAIN disk
  /\ disk' = WithNew(CurrentDir, written)

Writes(body, written) ==
  /\ pc = "save" /\ Writing /\ PerformCurrentCheckpoint /\ argIndex = arg
  /\ CurrentDir \in DOMAIN disk
  /\ disk' = [disk EXCEPT ![CurrentDir].files[arg] =
                            FileOf(IsAlias(visit, arg), body, written)]
  /\ UNCHANGED <<pc, visit, mem, label, base, counter, epochs, clock,
                 checkpointing, restartState>>
  /\ arg' = arg + 1
  /\ IF IsAlias(visit, arg)
     THEN (\E i \in Matches : body = Offered[i]) \/ Matches = {}
     ELSE body = mem[arg]

LEMMA VariableWrites ==
  ASSUME Typed, CheckpointPointer \/ CheckpointAlias
  PROVE  \E body \in Values, written \in BOOLEAN : Writes(body, written)
  <1> USE EnvironmentAssumption
  <1>1. /\ pc = "save" /\ Writing /\ PerformCurrentCheckpoint
        /\ argIndex = arg /\ CurrentDir \in DOMAIN disk /\ arg \in Slots
    BY SaveTyped DEF CheckpointPointer, CheckpointAlias, Writing, Typed, Phased
  <1>2. CASE CheckpointPointer
    <2>1. mem[arg] \in Values
      BY <1>1 DEF Typed, TypeOK
    <2>2. PICK written \in WriteSucceeds :
            disk' = [disk EXCEPT ![CurrentDir].files[argIndex] =
                                   FileOf(FALSE, mem[arg], written)]
      BY <1>2 DEF CheckpointPointer, WriteNextFile
    <2>3. IsAlias(visit, arg) = FALSE
      BY <1>2 DEF CheckpointPointer, IsAlias
    <2>4. Writes(mem[arg], written)
      BY <1>1, <1>2, <2>2, <2>3 DEF CheckpointPointer, Writes
    <2> QED BY <2>1, <2>4
  <1>3. CASE CheckpointAlias
    <2>1. PICK b \in Slots :
            /\ WriteNextFile(TRUE, b)
            /\ (\E i \in Matches : b = Offered[i]) \/ Matches = {}
      BY <1>1, <1>3, OfferedTyped DEF CheckpointAlias, FirstMatch
    <2>2. PICK written \in WriteSucceeds :
            disk' = [disk EXCEPT ![CurrentDir].files[argIndex] =
                                   FileOf(TRUE, b, written)]
      BY <2>1 DEF WriteNextFile
    <2>3. IsAlias(visit, arg) = TRUE
      BY <1>3 DEF CheckpointAlias, IsAlias
    <2>4. Writes(b, written)
      BY <1>1, <1>3, <2>1, <2>2, <2>3 DEF CheckpointAlias, Writes
    <2>5. b \in Values
      BY DEF Values
    <2> QED BY <2>4, <2>5
  <1> QED BY <1>2, <1>3

LEMMA DiskStep ==
  ASSUME Typed, [Next]_vars
  PROVE  \/ disk' = disk
         \/ \E written \in BOOLEAN : Makes(written)
         \/ \E body \in Values, written \in BOOLEAN : Writes(body, written)
  <1> USE EnvironmentAssumption DEF machine
  <1>1. CASE CheckpointStart
    BY <1>1 DEF CheckpointStart, StartNotDue, StartDisabled, StartNoDirectory,
                StartDirectory, MayMake, Makes
  <1>2. CASE CheckpointPointer \/ CheckpointAlias
    BY <1>2, VariableWrites
  <1>3. CASE Crash
    BY <1>3 DEF Crash, PartialSetup, PartialStart, MayMake, Makes
  <1>4. CASE RestartGetLabel \/ CheckpointSetup \/ Restart \/ Reach \/ Exit
               \/ SkipVariable \/ CheckpointFinish \/ Tick \/ UNCHANGED vars
    BY <1>4
    DEF RestartGetLabel, CheckpointSetup, Restart, RestartReadPointer,
        RestartReadAlias, RestartFinish, Reach, Exit, SkipVariable,
        CheckpointFinish, Tick, vars
  <1> QED BY <1>1, <1>2, <1>3, <1>4 DEF Next, Process, Checkpoint

\* The directory being written keeps everything but one file.
LEMMA WritesOne ==
  ASSUME Typed, NEW body \in Values, NEW written \in BOOLEAN,
         Writes(body, written)
  PROVE  /\ DOMAIN disk' = DOMAIN disk
         /\ arg \in Slots
         /\ \A d \in DOMAIN disk : d # CurrentDir => disk'[d] = disk[d]
         /\ disk'[CurrentDir].info = disk[CurrentDir].info
         /\ disk'[CurrentDir].visit = disk[CurrentDir].visit
         /\ \A s \in Slots : s # arg =>
              disk'[CurrentDir].files[s] = disk[CurrentDir].files[s]
         /\ disk'[CurrentDir].files[arg] =
              FileOf(IsAlias(visit, arg), body, written)
  <1>1. arg \in Slots /\ CurrentDir \in DOMAIN disk
    BY SaveTyped DEF Writes
  <1>2. disk[CurrentDir] \in Checkpoints
    BY <1>1 DEF Typed, TypeOK
  <1> QED BY <1>1, <1>2 DEF Writes, Checkpoints

\* A new directory does not touch the others and holds no file.
LEMMA MakesOne ==
  ASSUME Typed, NEW written \in BOOLEAN, Makes(written)
  PROVE  /\ DOMAIN disk' = DOMAIN disk \cup {CurrentDir}
         /\ CurrentDir \notin DOMAIN disk
         /\ \A d \in DOMAIN disk : disk'[d] = disk[d]
         /\ disk'[CurrentDir] = NewCheckpoint(written)
  BY DEF Makes, WithNew

----------------------------------------------------------------------------
(* What the directories hold *)

\* The part of Recorded that is about one directory.
Faithful(c) ==
  /\ c.visit > 0
  /\ c.info.readable => /\ c.info.label = LabelAt[c.visit]
                        /\ c.info.num = Size[LabelAt[c.visit]]
  /\ \A s \in Slots : c.files[s].readable =>
       (c.files[s].alias <=> IsAlias(c.visit, s))
\* The part of Recorded that is about the directory being written.
Pending ==
  pc = "save" /\ PerformCurrentCheckpoint =>
    /\ disk[CurrentDir].visit = visit
    /\ \A s \in Slots : s >= arg => ~disk[CurrentDir].files[s].readable

LEMMA RecordedParts ==
  Recorded <=> (\A d \in DOMAIN disk : Faithful(disk[d])) /\ Pending
  BY DEF Recorded, Faithful, Pending

LEMMA NewFaithful ==
  ASSUME Typed, pc = "start", NEW written \in BOOLEAN
  PROVE  /\ Faithful(NewCheckpoint(written))
         /\ NewCheckpoint(written).visit = visit
         /\ \A s \in Slots : ~NewCheckpoint(written).files[s].readable
  <1>1. visit > 0
    BY SaveTyped, BoundsAssumption
  <1> QED BY <1>1 DEF NewCheckpoint, Faithful, InfoOf, NoInfo, Unreadable

LEMMA FaithfulStep ==
  ASSUME Typed, Recorded, [Next]_vars, NEW d \in DOMAIN disk'
  PROVE  Faithful(disk'[d])
  <1>1. \A e \in DOMAIN disk : Faithful(disk[e])
    BY RecordedParts
  <1>2. CASE disk' = disk
    BY <1>1, <1>2
  <1>3. ASSUME NEW written \in BOOLEAN, Makes(written)
        PROVE  Faithful(disk'[d])
    BY <1>1, <1>3, MakesOne, NewFaithful DEF Makes
  <1>4. ASSUME NEW body \in Values, NEW written \in BOOLEAN,
               Writes(body, written)
        PROVE  Faithful(disk'[d])
    <2>1. CASE d # CurrentDir
      BY <1>1, <1>4, <2>1, WritesOne
    <2>2. CASE d = CurrentDir
      <3>1. Faithful(disk[CurrentDir]) /\ disk[CurrentDir].visit = visit
        BY <1>1, <1>4 DEF Recorded, Writes
      <3>2. FileOf(IsAlias(visit, arg), body, written).readable =>
              FileOf(IsAlias(visit, arg), body, written).alias
                = IsAlias(visit, arg)
        BY DEF FileOf, Unreadable
      <3> QED BY <1>4, <2>2, <3>1, <3>2, WritesOne DEF Faithful
    <2> QED BY <2>1, <2>2
  <1> QED BY <1>2, <1>3, <1>4, DiskStep

LEMMA PendingStep == ASSUME Typed, Recorded, [Next]_vars PROVE Pending'
  <1> SUFFICES ASSUME pc' = "save", PerformCurrentCheckpoint'
               PROVE  /\ disk'[CurrentDir'].visit = visit'
                      /\ \A s \in Slots : s >= arg' =>
                           ~disk'[CurrentDir'].files[s].readable
    BY DEF Pending
  <1>1. CASE CheckpointStart
    <2>1. PICK written \in BOOLEAN : Makes(written)
      BY <1>1, EnvironmentAssumption
      DEF CheckpointStart, PerformCurrentCheckpoint, StartNotDue, StartDisabled,
          StartNoDirectory, StartDirectory, MayMake, Makes
    <2>2. CurrentDir' = CurrentDir /\ visit' = visit
      BY <1>1 DEF CheckpointStart, CurrentDir
    <2> QED BY <2>1, <2>2, MakesOne, NewFaithful DEF Makes
  <1>2. ASSUME NEW body \in Values, NEW written \in BOOLEAN,
               Writes(body, written)
        PROVE  /\ disk'[CurrentDir'].visit = visit'
               /\ \A s \in Slots : s >= arg' =>
                    ~disk'[CurrentDir'].files[s].readable
    <2>1. CurrentDir' = CurrentDir /\ visit' = visit /\ arg' = arg + 1
      BY <1>2 DEF Writes, CurrentDir
    <2>2. /\ disk[CurrentDir].visit = visit
          /\ \A s \in Slots : s >= arg => ~disk[CurrentDir].files[s].readable
      BY <1>2 DEF Recorded, Writes
    <2>3. arg \in Int /\ \A s \in Slots : s \in Int
      BY <1>2, WritesOne, BoundsAssumption DEF Slots
    <2>4. \A s \in Slots : s >= arg + 1 => s # arg /\ s >= arg
      BY <2>3
    <2> QED BY <1>2, <2>1, <2>2, <2>4, WritesOne
  <1>3. CASE Tick \/ UNCHANGED vars
    <2>1. UNCHANGED <<pc, visit, arg, checkpointing, enabled, base, counter, disk>>
      BY <1>3 DEF Tick, vars, program, checkpointState, machine
    <2>2. CurrentDir' = CurrentDir /\ pc = "save" /\ PerformCurrentCheckpoint
      BY <2>1 DEF CurrentDir, PerformCurrentCheckpoint
    <2> QED BY <2>1, <2>2 DEF Recorded
  <1>4. CASE CheckpointPointer \/ CheckpointAlias
    BY <1>2, <1>4, VariableWrites
  <1>5. ~SkipVariable
    BY DEF SkipVariable, PerformCurrentCheckpoint, checkpointState
  <1> QED BY <1>1, <1>3, <1>4, <1>5
      DEF Next, Process, Checkpoint, RestartGetLabel, CheckpointSetup, Dispatch,
          Restart, RestartReadPointer, RestartReadAlias, RestartFinish, Reach,
          Exit, Die, Crash, CheckpointFinish

LEMMA StepRecorded == Typed /\ Recorded /\ [Next]_vars => Recorded'
  <1> SUFFICES ASSUME Typed, Recorded, [Next]_vars PROVE Recorded'
    OBVIOUS
  <1>1. \A d \in DOMAIN disk' : Faithful(disk'[d])
    BY FaithfulStep
  <1>2. Pending'
    BY PendingStep
  <1> QED BY <1>1, <1>2 DEF Recorded, Faithful, Pending

LEMMA Recording == Spec => []Recorded
  <1>1. Init => Recorded
    BY DEF Init, Recorded
  <1> QED BY <1>1, StepRecorded, Typing, PTL DEF Spec

\* The directory being written is not yet valid.
LEMMA WrittenInvalid ==
  ASSUME Typed, Recorded, NEW body \in Values, NEW written \in BOOLEAN,
         Writes(body, written)
  PROVE  CurrentDir \notin ValidDirs
  <1>1. /\ arg \in Slots /\ arg < Size[LabelAt[visit]]
        /\ disk[CurrentDir].visit = visit
        /\ ~disk[CurrentDir].files[arg].readable
    <2>1. arg \in Slots /\ arg >= arg
      BY WritesOne, BoundsAssumption DEF Slots
    <2> QED BY <2>1 DEF Writes, Writing, Recorded
  <1>2. disk[CurrentDir].info.readable =>
          disk[CurrentDir].info.num = Size[LabelAt[visit]]
    BY <1>1 DEF Writes, Recorded
  <1>3. Size[LabelAt[visit]] \in Nat
    BY SaveTyped, BoundsAssumption DEF Writes
  <1> QED BY <1>1, <1>2, <1>3, BoundsAssumption DEF ValidDirs, CheckpointValid, Slots

\* No step of any launch changes a checkpoint that a restart could use.
LEMMA StepUntouched ==
  ASSUME Typed, Recorded, [Next]_vars, NEW d \in ValidDirs
  PROVE  d \in DOMAIN disk' /\ disk'[d] = disk[d]
  <1>1. d \in DOMAIN disk
    BY DEF ValidDirs
  <1>2. ASSUME NEW body \in Values, NEW written \in BOOLEAN,
               Writes(body, written)
        PROVE  d \in DOMAIN disk' /\ disk'[d] = disk[d]
    BY <1>1, <1>2, WritesOne, WrittenInvalid
  <1> QED BY <1>1, <1>2, MakesOne, DiskStep

THEOREM ValidStaysUntouched == Spec => CompletedUntouched
  <1>1. Typed /\ Recorded /\ [Next]_vars =>
          [\A d \in ValidDirs : d \in DOMAIN disk' /\ disk'[d] = disk[d]]_vars
    BY StepUntouched
  <1> QED BY <1>1, Typing, Recording, PTL DEF Spec, CompletedUntouched

----------------------------------------------------------------------------
(* The names and the visits *)

LEMMA DirTypes ==
  ASSUME Typed
  PROVE  /\ \A d \in DOMAIN disk :
              /\ d = <<d[1], d[2]>> /\ d[1] \in Int /\ d[2] \in Int
              /\ disk[d].visit \in Int
         /\ \A d \in ValidDirs : d \in DOMAIN disk
         /\ base \in Int /\ counter \in Int /\ clock \in Int /\ visit \in Int
         /\ epochs \subseteq Int
         /\ CurrentDir[1] = base /\ CurrentDir[2] = counter
  BY BoundsAssumption
  DEF Typed, TypeOK, Dirs, Times, Indices, Checkpoints, Visits, ValidDirs,
      CurrentDir

\* The valid checkpoints after a step that touches the disk: those of before,
\* and perhaps the one this process is making.
Grows ==
  /\ pc \in {"start", "save"} /\ checkpointing
  /\ DOMAIN disk' \subseteq DOMAIN disk \cup {CurrentDir}
  /\ \A d \in ValidDirs' :
       \/ d \in ValidDirs /\ disk'[d].visit = disk[d].visit
       \/ d = CurrentDir /\ d \notin ValidDirs /\ disk'[d].visit = visit

LEMMA DiskGrows ==
  ASSUME Typed, Recorded, [Next]_vars
  PROVE  disk' = disk \/ Grows
  <1>1. ASSUME NEW written \in BOOLEAN, Makes(written) PROVE Grows
    <2>1. CurrentDir \notin ValidDirs /\ disk'[CurrentDir].visit = visit
      BY <1>1, MakesOne, NewFaithful DEF Makes, ValidDirs
    <2>2. ASSUME NEW d \in ValidDirs', d # CurrentDir
          PROVE  d \in ValidDirs /\ disk'[d] = disk[d]
      BY <1>1, <2>2, MakesOne DEF ValidDirs, CheckpointValid
    <2> QED BY <1>1, <2>1, <2>2, MakesOne DEF Grows, Makes
  <1>2. ASSUME NEW body \in Values, NEW written \in BOOLEAN,
               Writes(body, written)
        PROVE  Grows
    <2>1. CurrentDir \notin ValidDirs /\ disk'[CurrentDir].visit = visit
      BY <1>2, WrittenInvalid, WritesOne DEF Writes, Recorded
    <2>2. ASSUME NEW d \in ValidDirs', d # CurrentDir
          PROVE  d \in ValidDirs /\ disk'[d] = disk[d]
      BY <1>2, <2>2, WritesOne DEF ValidDirs, CheckpointValid
    <2> QED BY <1>2, <2>1, <2>2, WritesOne
        DEF Grows, Writes, PerformCurrentCheckpoint
  <1> QED BY <1>1, <1>2, DiskStep

LEMMA NewestStep ==
  ASSUME Typed, Recorded, Ordered, [Next]_vars
  PROVE  NewestIsFurthest'
  <1>1. CASE disk' = disk
    BY <1>1, SameDirs DEF Ordered, NewestIsFurthest
  <1>2. CASE Grows
    <2> SUFFICES ASSUME NEW d \in ValidDirs', NEW e \in ValidDirs', Older(d, e)
                 PROVE  disk'[d].visit < disk'[e].visit
      BY DEF NewestIsFurthest, Older
    <2>1. ASSUME NEW x \in ValidDirs
          PROVE  /\ x[1] < base \/ (x[1] = base /\ x[2] <= counter)
                 /\ x # CurrentDir => disk[x].visit < visit
      BY <1>2, DirTypes
      DEF Ordered, Named, Own, Ahead, Grows, Alive, Executing
    <2>2. CASE d \in ValidDirs /\ e \in ValidDirs
      BY <1>2, <2>2 DEF Grows, Ordered, NewestIsFurthest
    <2>3. CASE d \in ValidDirs /\ e = CurrentDir /\ e \notin ValidDirs
      BY <1>2, <2>1, <2>3 DEF Grows
    <2>4. CASE d = CurrentDir /\ d \notin ValidDirs
      <3>1. CASE e = CurrentDir
        BY <2>4, <3>1, DirTypes DEF Older
      <3>2. CASE e \in ValidDirs
        BY <2>1, <2>4, <3>2, DirTypes DEF Older
      <3> QED BY <1>2, <3>1, <3>2 DEF Grows
    <2> QED BY <1>2, <2>2, <2>3, <2>4 DEF Grows
  <1> QED BY <1>1, <1>2, DiskGrows

LEMMA NamedStep ==
  ASSUME Typed, Recorded, Ordered, [Next]_vars PROVE Named'
  <1>1. clock' \in Int /\ clock <= clock'
    <2>1. CASE Tick
      BY <2>1, DirTypes DEF Tick
    <2>2. CASE ~Tick
      <3>1. clock' = clock
        BY <2>2
        DEF Next, Process, Checkpoint, Restart, RestartGetLabel,
            CheckpointSetup, RestartReadPointer, RestartReadAlias,
            RestartFinish, Reach, Exit, CheckpointStart, SkipVariable,
            CheckpointPointer, CheckpointAlias, CheckpointFinish, Crash, vars,
            machine
      <3> QED BY <3>1, DirTypes
    <2> QED BY <2>1, <2>2
  <1>2. epochs' \subseteq epochs \cup {clock} /\ epochs \subseteq epochs'
    <2>1. CASE CheckpointSetup
      BY <2>1, EnvironmentAssumption DEF CheckpointSetup, GetTime
    <2>2. CASE ~CheckpointSetup
      BY <2>2
      DEF Next, Process, Checkpoint, Restart, RestartGetLabel,
          RestartReadPointer, RestartReadAlias, RestartFinish, Reach, Exit,
          CheckpointStart, SkipVariable, CheckpointPointer, CheckpointAlias,
          CheckpointFinish, Crash, PartialSetup, PartialStart, Tick, vars,
          machine
    <2> QED BY <2>1, <2>2
  <1>3. ASSUME NEW d \in DOMAIN disk' PROVE d[1] \in epochs
    <2>1. CASE disk' = disk
      BY <2>1 DEF Ordered, Named
    <2>2. CASE Grows
      BY <2>2, DirTypes DEF Grows, Ordered, Named, Own, Alive, Executing
    <2> QED BY <2>1, <2>2, DiskGrows
  <1> QED BY <1>1, <1>2, <1>3, DirTypes DEF Ordered, Named

LEMMA OwnStep ==
  ASSUME Typed, Recorded, Ordered, [Next]_vars PROVE Own'
  <1> SUFFICES ASSUME checkpointing', Alive'
               PROVE  /\ base' \in epochs'
                      /\ \A e \in epochs' : e <= base'
                      /\ \A d \in DOMAIN disk' : d[1] = base' => d[2] <= counter'
    BY DEF Own
  <1>1. CASE CheckpointSetup
    <2>1. /\ base' \notin epochs /\ epochs' = epochs \cup {base'}
          /\ base' = clock /\ disk' = disk
      BY <1>1, EnvironmentAssumption DEF CheckpointSetup, MayMake, GetTime
    <2> QED BY <2>1, DirTypes DEF Ordered, Named
  <1>2. CASE ~CheckpointSetup
    <2>1. /\ checkpointing /\ Alive /\ base' = base /\ epochs' = epochs
          /\ counter' = counter \/ (counter' = counter + 1 /\ disk' = disk)
      BY <1>2
      DEF Next, Process, Checkpoint, Restart, RestartGetLabel,
          RestartReadPointer, RestartReadAlias, RestartFinish, Reach, Exit,
          CheckpointStart, SkipVariable, CheckpointPointer, CheckpointAlias,
          CheckpointFinish, NextCounter, PerformCurrentCheckpoint, Crash, Tick,
          vars, machine, program, checkpointState, Alive, Executing, Die
    <2>2. /\ base \in epochs /\ \A e \in epochs : e <= base
          /\ \A d \in DOMAIN disk : d[1] = base => d[2] <= counter
      BY <2>1 DEF Ordered, Own
    <2>3. ASSUME NEW d \in DOMAIN disk', d[1] = base' PROVE d[2] <= counter'
      <3>1. CASE disk' = disk
        BY <2>1, <2>2, <2>3, <3>1, DirTypes
      <3>2. CASE Grows /\ counter' = counter
        BY <2>1, <2>2, <2>3, <3>2, DirTypes DEF Grows
      <3> QED BY <2>1, <3>1, <3>2, DiskGrows
    <2> QED BY <2>1, <2>2, <2>3
  <1> QED BY <1>1, <1>2

LEMMA ResumingStep ==
  ASSUME Typed, Recorded, Ordered, [Next]_vars PROVE Resuming'
  <1> SUFFICES ASSUME pc' \in {"setup", "restore"}
               PROVE  /\ label' = NoLabel => ValidDirs' = {}
                      /\ label' # NoLabel => \A d \in ValidDirs' :
                           disk'[d].visit <= disk'[restartDir'].visit
    BY DEF Resuming
  <1>1. CASE RestartGetLabel
    <2>1. disk' = disk /\ ValidDirs' = ValidDirs
      BY <1>1, SameDirs DEF RestartGetLabel
    <2>2. CASE ValidDirs = {} /\ label' = NoLabel
      BY <2>1, <2>2
    <2>3. ASSUME NEW dir \in DOMAIN disk, NewestValid(dir), restartDir' = dir,
                 label' = disk[dir].info.label
          PROVE  /\ label' # NoLabel
                 /\ \A d \in ValidDirs : disk[d].visit <= disk[dir].visit
      <3>1. dir \in ValidDirs /\ disk[dir].info.label >= 0
        BY <2>3 DEF NewestValid, ValidDirs, CheckpointValid
      <3>2. ASSUME NEW d \in ValidDirs PROVE disk[d].visit <= disk[dir].visit
        BY <2>3, <3>1, DirTypes DEF NewestValid, Ordered, NewestIsFurthest
      <3> QED BY <2>3, <3>1, <3>2 DEF NoLabel
    <2> QED BY <1>1, <2>1, <2>2, <2>3 DEF RestartGetLabel
  <1>2. CASE ~RestartGetLabel
    <2>1. /\ pc \in {"setup", "restore"} /\ label' = label
          /\ restartDir' = restartDir /\ disk' = disk
      BY <1>2
      DEF Next, Process, Checkpoint, Restart, CheckpointSetup,
          RestartReadPointer, RestartReadAlias, RestartFinish, Reach, Exit,
          CheckpointStart, SkipVariable, CheckpointPointer, CheckpointAlias,
          CheckpointFinish, Writing, Crash, Tick, vars, machine, program,
          restartState, Die
    <2> QED BY <2>1, SameDirs DEF Ordered, Resuming
  <1> QED BY <1>1, <1>2

LEMMA AheadStep ==
  ASSUME Typed, Recorded, Ordered, [Next]_vars PROVE Ahead'
  <1>1. CASE CheckpointSetup
    <2>1. /\ ValidDirs' = ValidDirs /\ pc = "setup" /\ label' = label
          /\ pc' = Dispatch
      BY <1>1, SameDirs DEF CheckpointSetup
    <2> QED BY <2>1 DEF Dispatch, Ahead, Ordered, Resuming
  <1>2. CASE RestartFinish
    <2>1. /\ ValidDirs' = ValidDirs /\ disk' = disk /\ pc = "restore"
          /\ pc' = "running" /\ visit' = disk[restartDir].visit
          /\ label # NoLabel
      BY <1>2, SameDirs DEF RestartFinish, machine, Typed, Phased
    <2> QED BY <2>1 DEF Ahead, Ordered, Resuming
  <1>3. CASE Reach
    <2>1. /\ ValidDirs' = ValidDirs /\ disk' = disk /\ pc = "running"
          /\ pc' = "start" /\ visit' = visit + 1
      BY <1>3, SameDirs DEF Reach, machine
    <2> QED BY <2>1, DirTypes DEF Ahead, Ordered
  <1>4. CASE CheckpointFinish
    <2>1. /\ ValidDirs' = ValidDirs /\ disk' = disk /\ pc = "save"
          /\ pc' = "running" /\ visit' = visit
      BY <1>4, SameDirs DEF CheckpointFinish, machine
    <2> QED BY <2>1, DirTypes DEF Ahead, Ordered
  <1>5. ASSUME pc \in {"start", "save"}, pc' = "save", visit' = visit,
               CurrentDir' = CurrentDir
        PROVE  Ahead'
    <2>1. CASE disk' = disk
      BY <1>5, <2>1, SameDirs DEF Ahead, Ordered
    <2>2. CASE Grows
      BY <1>5, <2>2 DEF Ahead, Ordered, Grows
    <2> QED BY <2>1, <2>2, DiskGrows
  <1>6. CASE CheckpointStart \/ SkipVariable \/ CheckpointPointer \/ CheckpointAlias
    BY <1>5, <1>6
    DEF CheckpointStart, SkipVariable, CheckpointPointer, CheckpointAlias,
        Writing, CurrentDir, checkpointState
  <1>7. CASE Tick \/ UNCHANGED vars
    <2>1. UNCHANGED <<pc, visit, base, counter, disk>>
      BY <1>7 DEF Tick, vars, program, checkpointState, machine
    <2> QED BY <2>1, SameDirs DEF Ahead, Ordered, CurrentDir
  <1>8. CASE RestartGetLabel \/ RestartReadPointer \/ RestartReadAlias \/ Exit
               \/ Crash
    <2>1. pc' \notin {"running", "start", "save"}
      BY <1>8 DEF RestartGetLabel, RestartReadPointer, RestartReadAlias, Exit,
                  Crash, Die
    <2> QED BY <2>1 DEF Ahead
  <1> QED BY <1>1, <1>2, <1>3, <1>4, <1>6, <1>7, <1>8
      DEF Next, Process, Checkpoint, Restart

LEMMA StepOrdered == Typed /\ Recorded /\ Ordered /\ [Next]_vars => Ordered'
  BY NamedStep, OwnStep, ResumingStep, AheadStep, NewestStep DEF Ordered

LEMMA Ordering == Spec => []Ordered
  <1>1. Init => Ordered
    BY DEF Init, Ordered, Named, Own, Resuming, Ahead, Alive, Executing,
           NewestIsFurthest, ValidDirs
  <1> QED BY <1>1, StepOrdered, Typing, Recording, PTL DEF Spec

\* In any number of launches the checkpoint a restart prefers by name is the
\* furthest one, as long as the machine is not rebooted.
THEOREM NewestFurthest == Spec => []NewestIsFurthest
  BY Ordering, PTL DEF Ordered

----------------------------------------------------------------------------
(* Restoring *)

\* The restart block of a label reads a checkpoint with the files, in number
\* and in kind, that the checkpoint block of that label writes.
LEMMA ReadsItsOwn ==
  ASSUME Typed, Recorded, pc = "restore", arg < Size[label]
  PROVE  /\ FileToRead.readable
         /\ FileToRead.alias <=> arg \in AliasVars[label]
         /\ FileToRead = disk[restartDir].files[arg]
         /\ restartDir \in DOMAIN disk
         /\ label = LabelAt[disk[restartDir].visit]
         /\ disk[restartDir].visit \in 1 .. MaxVisit
  <1>1. /\ restartDir \in ValidDirs /\ restartDir \in DOMAIN disk
        /\ label = disk[restartDir].info.label /\ arg \in Slots
        /\ FileToRead = disk[restartDir].files[arg]
    BY RestoreTyped DEF Typed, Phased
  <1>2. /\ disk[restartDir].info.readable
        /\ \A i \in 0 .. disk[restartDir].info.num - 1 :
             disk[restartDir].files[i].readable
    BY <1>1 DEF ValidDirs, CheckpointValid
  <1>3. /\ label = LabelAt[disk[restartDir].visit]
        /\ disk[restartDir].info.num = Size[label]
    BY <1>1, <1>2 DEF Recorded
  <1>4. arg \in 0 .. disk[restartDir].info.num - 1
    BY <1>1, <1>3, RestoreTyped, ProgramTypes, BoundsAssumption DEF Slots
  <1>5. FileToRead.readable /\ (FileToRead.alias <=> arg \in AliasVars[label])
    BY <1>1, <1>2, <1>3, <1>4 DEF Recorded, IsAlias
  <1>6. disk[restartDir].visit \in 1 .. MaxVisit
    BY <1>1, BoundsAssumption DEF Recorded, Typed, TypeOK, Checkpoints, Visits
  <1> QED BY <1>1, <1>3, <1>5, <1>6

LEMMA StepNeverAborts ==
  Typed /\ Recorded /\ NeverAborts /\ [Next]_vars => NeverAborts'
  <1> SUFFICES ASSUME Typed, Recorded, NeverAborts, [Next]_vars
               PROVE  NeverAborts'
    OBVIOUS
  <1>1. CASE RestartReadPointer
    BY <1>1, ReadsItsOwn DEF RestartReadPointer, NeverAborts
  <1>2. CASE RestartReadAlias
    BY <1>2, ReadsItsOwn DEF RestartReadAlias, NeverAborts
  <1>3. CASE ~RestartReadPointer /\ ~RestartReadAlias
    BY <1>3
    DEF NeverAborts, Next, Process, Checkpoint, Restart, RestartGetLabel,
        CheckpointSetup, Dispatch, RestartFinish, Reach, Exit, CheckpointStart,
        SkipVariable, CheckpointPointer, CheckpointAlias, CheckpointFinish,
        Crash, Tick, Die, vars, program
  <1> QED BY <1>1, <1>2, <1>3

\* A checkpoint that was found valid can be read to the end: a launch that
\* decided to restart never exits in the middle of it.
THEOREM RestartCompletes == Spec => []NeverAborts
  <1>1. Init => NeverAborts
    BY DEF Init, NeverAborts
  <1> QED BY <1>1, StepNeverAborts, Typing, Recording, PTL DEF Spec

----------------------------------------------------------------------------
(* The memory of the program *)

LEMMA MemoryOf ==
  ASSUME NEW v \in 1 .. MaxVisit, NEW s \in Slots
  PROVE  /\ s < Size[LabelAt[v]] /\ IsAlias(v, s) => Memory(v)[s] = Points[v][s]
         /\ s < Size[LabelAt[v]] /\ ~IsAlias(v, s) => Memory(v)[s] = v
         /\ ~(s < Size[LabelAt[v]]) => Memory(v)[s] = Undefined
  BY BoundsAssumption DEF Memory, Live

\* An alias that is to be written matches a candidate.
LEMMA AliasMatches ==
  ASSUME AliasesFound, Typed, MemoryIntact, Writing, IsAlias(visit, arg)
  PROVE  Matches # {}
  <1>1. /\ arg \in Slots /\ visit \in 1 .. MaxVisit
        /\ LabelAt[visit] \in Labels /\ Size[LabelAt[visit]] \in Nat
        /\ mem = Memory(visit) /\ arg < Size[LabelAt[visit]]
    BY SaveTyped, BoundsAssumption DEF Writing, MemoryIntact, Executing
  <1>2. mem[arg] = Points[visit][arg]
    BY <1>1, MemoryOf
  <1>3. \A i \in DOMAIN Offered : Offered[i] \in Slots /\ Offered[i] < arg
    BY OfferedTyped DEF Writing
  <1>4. ASSUME NEW c \in Slots, c < arg
        PROVE  AddressIn(c) = AddressAt(visit, c)
    <2>1. c < Size[LabelAt[visit]]
      BY <1>1, <1>4, BoundsAssumption DEF Slots
    <2> QED BY <1>1, <2>1, MemoryOf DEF AddressIn, AddressAt
  <1>5. arg \in Live(visit)
    BY <1>1, BoundsAssumption DEF Live
  <1>6. PICK i \in DOMAIN Offered :
          AddressAt(visit, Offered[i]) = Points[visit][arg]
    BY <1>1, <1>5 DEF AliasesFound, Offered
  <1> QED BY <1>2, <1>3, <1>4, <1>6 DEF Matches

\* The file of a variable refers to, or contains, what the variable holds.
LEMMA WritesMemory ==
  ASSUME AliasesFound, Typed, MemoryIntact, NEW body \in Values,
         NEW written \in BOOLEAN, Writes(body, written)
  PROVE  IF IsAlias(visit, arg)
         THEN /\ body \in Slots /\ body < arg
              /\ AddressAt(visit, body) = Points[visit][arg]
         ELSE body = visit
  <1>1. /\ arg \in Slots /\ visit \in 1 .. MaxVisit
        /\ LabelAt[visit] \in Labels /\ Size[LabelAt[visit]] \in Nat
        /\ mem = Memory(visit) /\ arg < Size[LabelAt[visit]]
    BY SaveTyped, BoundsAssumption
    DEF Writes, Writing, MemoryIntact, Executing
  <1>2. CASE ~IsAlias(visit, arg)
    BY <1>1, <1>2, MemoryOf DEF Writes
  <1>3. CASE IsAlias(visit, arg)
    <2>1. mem[arg] = Points[visit][arg]
      BY <1>1, <1>3, MemoryOf
    <2>2. PICK i \in Matches : body = Offered[i]
      BY <1>3, AliasMatches DEF Writes
    <2>3. /\ body \in Slots /\ body < arg /\ AddressIn(body) = mem[arg]
      BY <2>2, OfferedTyped DEF Writes, Matches
    <2>4. AddressIn(body) = AddressAt(visit, body)
      <3>1. body < Size[LabelAt[visit]]
        BY <1>1, <2>3, BoundsAssumption DEF Slots
      <3> QED BY <1>1, <2>3, <3>1, MemoryOf DEF AddressIn, AddressAt
    <2> QED BY <1>3, <2>1, <2>3, <2>4
  <1> QED BY <1>2, <1>3

LEMMA StoredStep ==
  ASSUME AliasesFound, Typed, Recorded, Remembered, [Next]_vars,
         NEW d \in DOMAIN disk'
  PROVE  Stored(disk'[d])
  <1>1. \A e \in DOMAIN disk : Stored(disk[e])
    BY DEF Remembered
  <1>2. ASSUME NEW written \in BOOLEAN, Makes(written) PROVE Stored(disk'[d])
    BY <1>1, <1>2, MakesOne, NewFaithful DEF Makes, Stored
  <1>3. ASSUME NEW body \in Values, NEW written \in BOOLEAN,
               Writes(body, written)
        PROVE  Stored(disk'[d])
    <2>1. CASE d # CurrentDir
      BY <1>1, <1>3, <2>1, WritesOne
    <2>2. CASE d = CurrentDir
      <3>1. Stored(disk[CurrentDir]) /\ disk[CurrentDir].visit = visit
        BY <1>1, <1>3 DEF Writes, Recorded
      <3> DEFINE f == FileOf(IsAlias(visit, arg), body, written)
      <3>2. f.readable => f.alias = IsAlias(visit, arg) /\ f.body = body
        BY DEF FileOf, Unreadable
      <3>3. IF IsAlias(visit, arg)
            THEN /\ body \in Slots /\ body < arg
                 /\ AddressAt(visit, body) = Points[visit][arg]
            ELSE body = visit
        BY <1>3, WritesMemory DEF Remembered
      <3>4. /\ disk'[CurrentDir].visit = visit
            /\ disk'[CurrentDir].files[arg] = f
            /\ \A s \in Slots : s # arg =>
                 disk'[CurrentDir].files[s] = disk[CurrentDir].files[s]
        BY <1>3, <3>1, WritesOne
      <3> HIDE DEF f
      <3> QED BY <2>2, <3>1, <3>2, <3>3, <3>4 DEF Stored
    <2> QED BY <2>1, <2>2
  <1> QED BY <1>1, <1>2, <1>3, DiskStep

\* Reading one variable back.
LEMMA RestoreStep ==
  ASSUME Typed, Recorded, Remembered, pc = "restore", arg < Size[label],
         NEW m, NEW t, arg' = arg + 1, UNCHANGED <<disk, restartDir>>,
         mem' = [mem EXCEPT ![arg] = m],
         table' = [table EXCEPT ![restartIndex + 1] = t],
         m = Memory(disk[restartDir].visit)[arg],
         t = AddressAt(disk[restartDir].visit, arg)
  PROVE  RestoredTo(disk[restartDir].visit)'
  <1> DEFINE v == disk[restartDir].visit
  <1>1. /\ arg \in Slots /\ restartIndex + 1 = arg
        /\ \A s \in Slots : s \in Int
    BY RestoreTyped, BoundsAssumption DEF Slots
  <1>2. /\ mem \in [Slots -> Values] /\ table \in [Slots -> Values]
        /\ RestoredTo(v)
    BY DEF Typed, TypeOK, Remembered
  <1>3. v' = v
    OBVIOUS
  <1>4. ASSUME NEW s \in Slots
        PROVE  IF s < arg + 1
               THEN mem'[s] = Memory(v)[s] /\ table'[s] = AddressAt(v, s)
               ELSE mem'[s] = Undefined
    BY <1>1, <1>2 DEF RestoredTo
  <1> QED BY <1>3, <1>4 DEF RestoredTo, AddressAt, Memory

LEMMA ReadStep ==
  ASSUME Typed, Recorded, Remembered,
         RestartReadPointer \/ RestartReadAlias
  PROVE  /\ MemoryIntact' /\ (~Alive => mem = NoMemory)'
         /\ (pc = "restore" => RestoredTo(disk[restartDir].visit))'
  <1> DEFINE v == disk[restartDir].visit
  <1>1. /\ pc = "restore" /\ arg < Size[label] /\ arg \in Slots
        /\ arg \in AliasVars[label] <=> RestartReadAlias
    BY RestoreTyped DEF RestartReadPointer, RestartReadAlias
  <1>2. /\ FileToRead.readable /\ (FileToRead.alias <=> IsAlias(v, arg))
        /\ v \in 1 .. MaxVisit /\ arg < Size[LabelAt[v]]
        /\ FileToRead = disk[restartDir].files[arg]
        /\ restartDir \in DOMAIN disk /\ Stored(disk[restartDir])
    BY <1>1, ReadsItsOwn DEF IsAlias, Remembered
  <1>3. /\ arg' = arg + 1 /\ pc' = pc /\ UNCHANGED <<disk, restartDir>>
    BY <1>1, <1>2, ReadsItsOwn DEF RestartReadPointer, RestartReadAlias, machine
  <1>4. CASE RestartReadPointer
    <2>1. /\ mem' = [mem EXCEPT ![arg] = FileToRead.body]
          /\ table' = [table EXCEPT ![restartIndex + 1] = arg]
      BY <1>1, <1>2, <1>4, ReadsItsOwn DEF RestartReadPointer
    <2>2. FileToRead.body = Memory(v)[arg] /\ arg = AddressAt(v, arg)
      BY <1>1, <1>2, <1>4, ReadsItsOwn, MemoryOf
      DEF Stored, AddressAt, RestartReadPointer
    <2>3. RestoredTo(v)'
      BY <1>1, <1>3, <2>1, <2>2, RestoreStep
    <2> QED BY <1>1, <1>3, <2>3 DEF MemoryIntact, Executing, Alive
  <1>5. CASE RestartReadAlias
    <2>1. /\ mem' = [mem EXCEPT ![arg] = table[FileToRead.body]]
          /\ table' = [table EXCEPT ![restartIndex + 1] = table[FileToRead.body]]
      BY <1>1, <1>2, <1>5, ReadsItsOwn DEF RestartReadAlias
    <2>2. /\ FileToRead.body \in Slots /\ FileToRead.body < arg
          /\ AddressAt(v, FileToRead.body) = Points[v][arg]
          /\ IsAlias(v, arg)
      BY <1>1, <1>2, <1>5, ReadsItsOwn DEF Stored, RestartReadAlias
    <2>3. table[FileToRead.body] = Points[v][arg]
      BY <1>1, <2>2 DEF Remembered, RestoredTo
    <2>4. /\ table[FileToRead.body] = Memory(v)[arg]
          /\ table[FileToRead.body] = AddressAt(v, arg)
      BY <1>1, <1>2, <2>2, <2>3, MemoryOf DEF AddressAt
    <2>5. RestoredTo(v)'
      BY <1>1, <1>3, <2>1, <2>4, RestoreStep
    <2> QED BY <1>1, <1>3, <2>5 DEF MemoryIntact, Executing, Alive
  <1> QED BY <1>4, <1>5

\* All the variables are back: the process has the memory of the checkpoint.
LEMMA FinishRestored ==
  ASSUME Typed, Recorded, Remembered, RestartFinish
  PROVE  mem' = Memory(visit')
  <1> DEFINE v == disk[restartDir].visit
  <1>1. /\ pc = "restore" /\ arg = Size[label] /\ mem' = mem /\ visit' = v
        /\ label # NoLabel /\ restartDir \in ValidDirs
        /\ label = disk[restartDir].info.label
    BY DEF RestartFinish, Typed, Phased
  <1>2. /\ label = LabelAt[v] /\ v \in 1 .. MaxVisit
    BY <1>1, BoundsAssumption
    DEF ValidDirs, CheckpointValid, Recorded, Typed, TypeOK, Checkpoints, Visits
  <1>3. RestoredTo(v) /\ mem \in [Slots -> Values]
    BY <1>1 DEF Remembered, Typed, TypeOK
  <1>4. ASSUME NEW s \in Slots PROVE mem[s] = Memory(v)[s]
    BY <1>1, <1>2, <1>3, <1>4, MemoryOf DEF RestoredTo
  <1>5. mem = Memory(v)
    BY <1>3, <1>4 DEF Memory
  <1> QED BY <1>1, <1>5

LEMMA IntactStep ==
  ASSUME Typed, Recorded, Remembered, [Next]_vars
  PROVE  /\ MemoryIntact' /\ (~Alive => mem = NoMemory)'
         /\ (pc = "restore" => RestoredTo(disk[restartDir].visit))'
  <1> USE DEF MemoryIntact, Executing, Alive
  <1>1. CASE RestartGetLabel
    BY <1>1 DEF RestartGetLabel, Stopped, Remembered
  <1>2. CASE CheckpointSetup
    <2>1. /\ pc = "setup" /\ arg = 0 /\ mem = NoMemory /\ visit = 0
          /\ UNCHANGED <<mem, visit, arg>> /\ pc' \in {"running", "restore"}
      BY <1>2 DEF CheckpointSetup, Dispatch, Remembered, Typed, Phased
    <2>2. mem' = Memory(visit')
      BY <2>1 DEF Memory, Live, NoMemory
    <2>3. \A s \in Slots : ~(s < 0)
      BY BoundsAssumption DEF Slots
    <2> QED BY <2>1, <2>2, <2>3 DEF RestoredTo, NoMemory
  <1>3. CASE RestartReadPointer \/ RestartReadAlias
    BY <1>3, ReadStep
  <1>4. CASE RestartFinish
    BY <1>4, FinishRestored DEF RestartFinish
  <1>5. CASE Reach
    BY <1>5 DEF Reach, Remembered
  <1>6. CASE CheckpointStart \/ SkipVariable \/ CheckpointPointer
               \/ CheckpointAlias \/ CheckpointFinish
    <2>1. /\ pc \in {"start", "save"} /\ pc' \in {"save", "running"}
          /\ UNCHANGED <<mem, visit>>
      BY <1>6 DEF CheckpointStart, SkipVariable, CheckpointPointer,
                  CheckpointAlias, CheckpointFinish, Writing
    <2> QED BY <2>1 DEF Remembered, Memory
  <1>7. CASE Exit \/ Crash
    BY <1>7 DEF Exit, Crash, Die, NoMemory
  <1>8. CASE Tick \/ UNCHANGED vars
    <2>1. UNCHANGED <<pc, mem, visit, arg, disk, restartDir, table>>
      BY <1>8 DEF Tick, vars, program, restartState, machine
    <2> QED BY <2>1 DEF Remembered, RestoredTo, Memory, NoMemory, AddressAt
  <1> QED BY <1>1, <1>2, <1>3, <1>4, <1>5, <1>6, <1>7, <1>8
      DEF Next, Process, Checkpoint, Restart

LEMMA StepRemembered ==
  ASSUME AliasesFound
  PROVE  Typed /\ Recorded /\ Remembered /\ [Next]_vars => Remembered'
  <1> SUFFICES ASSUME Typed, Recorded, Remembered, [Next]_vars
               PROVE  Remembered'
    OBVIOUS
  <1>1. \A d \in DOMAIN disk' : Stored(disk'[d])
    BY StoredStep
  <1>2. (\A d \in DOMAIN disk : Stored(disk[d]))'
    BY <1>1 DEF Stored, AddressAt, IsAlias
  <1> QED BY <1>2, IntactStep DEF Remembered

\* When at every visit each alias points at the start of a variable that the
\* pass offers as its target, a program has the live variables of an
\* uninterrupted run at every visit, whatever stops it and however often, and
\* whichever files, directories and clock calls fail.
THEOREM RestartKeepsMemory ==
  ASSUME AliasesFound
  PROVE  Spec => []MemoryIntact
  <1>1. Init => Remembered
    BY DEF Init, Remembered, MemoryIntact, Executing, Alive
  <1>2. Remembered => MemoryIntact
    BY DEF Remembered
  <1> QED BY <1>1, <1>2, StepRemembered, Typing, Recording, PTL DEF Spec

----------------------------------------------------------------------------
(* Reboots.  A reboot only sets the clock back; of the layers, Ordered alone  *)
(* is about the clock, and it is the one that is lost.                       *)

LEMMA RebootTyped == ASSUME Typed, Reboot PROVE Typed'
  <1>1. /\ clock' = 0
        /\ UNCHANGED <<program, checkpointState, restartState, disk, epochs,
                       launches>>
    BY DEF Reboot
  <1>2. ValidDirs' = ValidDirs
    BY <1>1, SameDirs
  <1>3. TypeOK'
    BY <1>1, BoundsAssumption
    DEF Typed, TypeOK, Times, program, checkpointState, restartState
  <1> QED BY <1>1, <1>2, <1>3
      DEF Typed, Phased, Executing, PerformCurrentCheckpoint, CurrentDir,
          program, checkpointState, restartState

LEMMA RebootRest ==
  ASSUME Reboot
  PROVE  /\ Recorded => Recorded'
         /\ NeverAborts => NeverAborts'
         /\ Remembered => Remembered'
  <1>1. UNCHANGED <<pc, visit, arg, mem, checkpointState, restartState, disk>>
    BY DEF Reboot, program
  <1> QED BY <1>1
      DEF Recorded, NeverAborts, Remembered, Stored, RestoredTo, MemoryIntact,
          Executing, Alive, Memory, AddressAt, IsAlias, PerformCurrentCheckpoint,
          CurrentDir, checkpointState, restartState

LEMMA RebootTyping == RebootSpec => []Typed
  <1>1. Typed /\ [Next \/ Reboot]_vars => Typed'
    BY StepTyped, RebootTyped
  <1> QED BY <1>1, InitTyped, PTL DEF RebootSpec

LEMMA RebootRecording == RebootSpec => []Recorded
  <1>1. Init => Recorded
    BY DEF Init, Recorded
  <1>2. Typed /\ Recorded /\ [Next \/ Reboot]_vars => Recorded'
    BY StepRecorded, RebootRest
  <1> QED BY <1>1, <1>2, RebootTyping, PTL DEF RebootSpec

\* Not even a reboot, which may give a later launch the name of an epoch that
\* exists, lets a step change a checkpoint that a restart could use.
THEOREM ValidUntouchedByReboot == RebootSpec => CompletedUntouched
  <1>1. ASSUME Reboot PROVE disk' = disk
    BY <1>1 DEF Reboot
  <1>2. Typed /\ Recorded /\ [Next \/ Reboot]_vars =>
          [\A d \in ValidDirs : d \in DOMAIN disk' /\ disk'[d] = disk[d]]_vars
    BY <1>1, StepUntouched DEF ValidDirs
  <1> QED BY <1>2, RebootTyping, RebootRecording, PTL
      DEF RebootSpec, CompletedUntouched

\* A launch that decided to restart finishes reading, after a reboot as well.
THEOREM RebootRestartCompletes == RebootSpec => []NeverAborts
  <1>1. Init => NeverAborts
    BY DEF Init, NeverAborts
  <1>2. Typed /\ Recorded /\ NeverAborts /\ [Next \/ Reboot]_vars => NeverAborts'
    BY StepNeverAborts, RebootRest
  <1> QED BY <1>1, <1>2, RebootTyping, RebootRecording, PTL DEF RebootSpec

\* After a reboot restart may prefer an older checkpoint (the run "rebooted"),
\* but what it restores is still all of one visit.
THEOREM RebootKeepsMemory ==
  ASSUME AliasesFound
  PROVE  RebootSpec => []MemoryIntact
  <1>1. Init => Remembered
    BY DEF Init, Remembered, MemoryIntact, Executing, Alive
  <1>2. Remembered => MemoryIntact
    BY DEF Remembered
  <1>3. Typed /\ Recorded /\ Remembered /\ [Next \/ Reboot]_vars => Remembered'
    BY StepRemembered, RebootRest
  <1> QED BY <1>1, <1>2, <1>3, RebootTyping, RebootRecording, PTL DEF RebootSpec
=============================================================================
