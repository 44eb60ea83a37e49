-------------------------- MODULE ResumableProofs --------------------------
(***************************************************************************)
(* CheckpointRestart implements Resumable: every step of the process, of   *)
(* its death and of the clock is a step of the resumable program or leaves *)
(* it alone.  The refinement mapping takes the greatest visit of the valid *)
(* checkpoints, so what a step does to the set of these visits comes first.*)
(* The last sections are about when a due checkpoint is made, and what the *)
(* refinement then has saved.                                              *)
(***************************************************************************)
EXTENDS CheckpointRestartProofs, WellFoundedInduction

\* The visits a launch could resume at; Furthest is the greatest.
Made == {0} \cup {disk[d].visit : d \in ValidDirs}

LEMMA GreatestExists ==
  ASSUME NEW b \in Nat, NEW S \in SUBSET (0 .. b), S # {}
  PROVE  \E v \in S : \A w \in S : w <= v
  <1> DEFINE T == {b - v : v \in S}
  <1>0. \A v \in S : v \in Int /\ b - v \in Nat
    OBVIOUS
  <1>1. T \subseteq Nat /\ T # {}
    BY <1>0
  <1>2. \E x \in T : \A y \in T : ~(<<y, x>> \in OpToRel(<, Nat))
    <2> HIDE DEF T
    <2> QED BY <1>1, WFMin, NatLessThanWellFounded
  <1>3. PICK x \in T : \A y \in T : ~(y < x)
    BY <1>1, <1>2 DEF OpToRel
  <1>4. PICK v \in S : x = b - v
    OBVIOUS
  <1>5. ASSUME NEW w \in S PROVE w <= v
    <2>1. ~(b - w < b - v)
      BY <1>3, <1>4
    <2> QED BY <1>0, <2>1
  <1> QED BY <1>5

LEMMA Greatest ==
  ASSUME NEW S \in SUBSET (0 .. MaxVisit), S # {},
         NEW m, m = CHOOSE v \in S : \A w \in S : w <= v
  PROVE  m \in S /\ \A w \in S : w <= m
  BY GreatestExists, BoundsAssumption

LEMMA FurthestOf ==
  ASSUME Typed
  PROVE  /\ Made \in SUBSET (0 .. MaxVisit) /\ Furthest \in Made
         /\ \A w \in Made : w <= Furthest
  <1>1. Made \in SUBSET (0 .. MaxVisit)
    BY BoundsAssumption DEF Made, Typed, TypeOK, Checkpoints, Visits, ValidDirs
  <1>2. Made # {} /\ Furthest = CHOOSE v \in Made : \A w \in Made : w <= v
    BY DEF Made, Furthest
  <1> HIDE DEF Made, Furthest
  <1> QED BY <1>1, <1>2, Greatest

----------------------------------------------------------------------------

\* A step adds no visit to those a launch could resume at, or the visit of the
\* running process, which is the furthest then.
LEMMA MadeStep ==
  ASSUME Typed, Recorded, Ordered, [Next]_vars
  PROVE  \/ Made' = Made
         \/ /\ Made' = Made \cup {visit} /\ \A w \in Made : w <= visit
            /\ Executing /\ Executing' /\ UNCHANGED <<visit, mem>>
  <1>1. CASE disk' = disk
    BY <1>1, SameDirs DEF Made
  <1>2. CASE disk' # disk
    <2>1. Grows
      BY <1>2, DiskGrows
    <2>2. ASSUME NEW d \in ValidDirs
          PROVE  d \in ValidDirs' /\ disk'[d].visit = disk[d].visit
      <3>1. d \in DOMAIN disk' /\ disk'[d] = disk[d]
        BY StepUntouched
      <3>2. CheckpointValid(d)
        BY DEF ValidDirs
      <3>3. CheckpointValid(d)'
        BY <3>1, <3>2 DEF CheckpointValid
      <3> QED BY <3>1, <3>3 DEF ValidDirs
    <2>3. Made \subseteq Made'
      BY <2>2 DEF Made
    <2>4. CASE Crash
      <3>1. Makes(FALSE)
        BY <1>2, <2>4 DEF Crash, PartialSetup, PartialStart, MayMake, Makes
      <3>2. ~disk'[CurrentDir].info.readable
        <4>1. disk'[CurrentDir] = NewCheckpoint(FALSE)
          BY <3>1, MakesOne
        <4>2. NewCheckpoint(FALSE).info = NoInfo
          BY DEF NewCheckpoint, InfoOf
        <4>3. NoInfo.readable = FALSE
          BY DEF NoInfo
        <4>4. disk'[CurrentDir].info = NoInfo
          BY <4>1, <4>2
        <4> QED BY <4>3, <4>4
      <3>3. CurrentDir \notin ValidDirs'
        BY <3>2 DEF ValidDirs, CheckpointValid
      <3>4. Made' \subseteq Made
        BY <2>1, <3>3 DEF Made, Grows
      <3> QED BY <2>3, <3>4
    <2>5. CASE ~Crash
      <3>1. /\ pc \in {"start", "save"} /\ pc' = "save"
            /\ UNCHANGED <<visit, mem>>
        BY <1>2, <2>5
        DEF Next, Process, Checkpoint, Restart, RestartGetLabel, CheckpointSetup,
            RestartReadPointer, RestartReadAlias, RestartFinish, Reach, Exit,
            CheckpointStart, SkipVariable, CheckpointPointer, CheckpointAlias,
            CheckpointFinish, Writing, Tick, vars, machine
      <3>2. \A w \in Made : w <= visit
        BY <3>1, DirTypes DEF Ordered, Ahead, Made, Typed, TypeOK, Visits
      <3>3. Made' \subseteq Made \cup {visit}
        BY <2>1 DEF Made, Grows
      <3> QED BY <2>3, <3>1, <3>2, <3>3 DEF Executing
    <2> QED BY <2>4, <2>5
  <1> QED BY <1>1, <1>2

\* A launch resumes at the furthest visit.
LEMMA ResumesAtFurthest ==
  ASSUME Typed, Recorded, Ordered,
         (CheckpointSetup /\ pc' = "running") \/ RestartFinish
  PROVE  visit' = Furthest
  <1>1. CASE CheckpointSetup /\ pc' = "running"
    <2>1. pc = "setup" /\ label = NoLabel /\ visit' = visit /\ visit = 0
      BY <1>1 DEF CheckpointSetup, Dispatch, Typed, Phased, Executing
    <2>2. ValidDirs = {}
      BY <2>1 DEF Ordered, Resuming
    <2>3. Made = {0}
      BY <2>2 DEF Made
    <2> QED BY <2>1, <2>3, FurthestOf
  <1>2. CASE RestartFinish
    <2>1. /\ pc = "restore" /\ visit' = disk[restartDir].visit
          /\ label # NoLabel /\ restartDir \in ValidDirs
      BY <1>2 DEF RestartFinish, Typed, Phased
    <2>2. visit' \in Made /\ \A d \in ValidDirs : disk[d].visit <= visit'
      BY <2>1 DEF Ordered, Resuming, Made
    <2>3. \A w \in Made : w <= visit'
      <3>1. visit' \in 0 .. MaxVisit
        BY <2>2, FurthestOf
      <3> QED BY <2>2, <3>1 DEF Made
    <2>4. visit' \in Int /\ Furthest \in Int
      BY <2>2, FurthestOf
    <2>5. visit' <= Furthest /\ Furthest <= visit'
      BY <2>2, <2>3, FurthestOf
    <2> QED BY <2>4, <2>5
  <1> QED BY <1>1, <1>2

----------------------------------------------------------------------------

\* The running program is at its visit, any other at none.
LEMMA ProgressOf ==
  ASSUME MemoryIntact
  PROVE  Progress = IF Executing THEN visit ELSE -1
  BY DEF MemoryIntact, Progress

LEMMA StepResumes ==
  ASSUME Typed, Recorded, Ordered, MemoryIntact, [Next]_vars,
         Typed', MemoryIntact'
  PROVE  Resumption!Next \/ UNCHANGED <<Progress, Furthest>>
  <1> DEFINE Here == IF Executing THEN visit ELSE -1
  <1>1. Progress = Here /\ Progress' = Here'
    BY ProgressOf DEF MemoryIntact, Progress
  <1>2. visit \in 0 .. MaxVisit /\ visit' \in 0 .. MaxVisit
    BY DEF Typed, TypeOK, Visits
  <1> USE DEF Resumption!Next, Resumption!Resume, Resumption!Advance,
              Resumption!Save, Resumption!Stop, Resumption!Down
  <1>3. CASE Made' # Made
    <2>1. /\ Made' = Made \cup {visit} /\ \A w \in Made : w <= visit
          /\ Executing /\ Executing' /\ visit' = visit
      BY <1>3, MadeStep
    <2>2. Furthest' = visit
      <3>1. /\ Made' \in SUBSET (0 .. MaxVisit) /\ Made' # {}
            /\ Furthest' = CHOOSE v \in Made' : \A w \in Made' : w <= v
        BY <1>2, <2>1, FurthestOf DEF Made, Furthest
      <3>2. Furthest' \in Made' /\ \A w \in Made' : w <= Furthest'
        BY <3>1, Greatest
      <3>3. Furthest' \in 0 .. MaxVisit
        BY <3>1, <3>2
      <3>4. visit <= Furthest'
        BY <2>1, <3>2
      <3>5. Furthest' \in Made \/ Furthest' = visit
        BY <2>1, <3>2
      <3>6. Furthest' <= visit
        <4>1. CASE Furthest' \in Made
          BY <2>1, <4>1
        <4>2. CASE Furthest' = visit
          BY <1>2, <4>2
        <4> QED BY <3>5, <4>1, <4>2
      <3> QED BY <1>2, <3>3, <3>4, <3>6
    <2>3. Progress = visit /\ Progress' = visit
      BY <1>1, <2>1
    <2> QED BY <1>2, <2>2, <2>3
  <1>4. CASE Made' = Made
    <2>1. Furthest' = Furthest
      BY <1>4 DEF Made, Furthest
    <2>2. Furthest \in 0 .. MaxVisit
      BY FurthestOf
    <2>3. CASE (CheckpointSetup /\ pc' = "running") \/ RestartFinish
      <3>1. ~Executing /\ Executing'
        BY <2>3 DEF CheckpointSetup, RestartFinish, Executing
      <3>2. Progress = -1 /\ Progress' = Furthest
        BY <1>1, <2>3, <3>1, ResumesAtFurthest
      <3> QED BY <2>1, <3>2
    <2>4. CASE Reach
      <3>1. Executing /\ Executing' /\ visit < MaxVisit /\ visit' = visit + 1
        BY <2>4 DEF Reach, Executing
      <3> QED BY <1>1, <1>2, <2>1, <3>1
    <2>5. CASE ~Executing' /\ Executing
      BY <1>1, <1>2, <2>1, <2>5
    <2>6. CASE ~Executing' /\ ~Executing
      BY <1>1, <2>1, <2>6
    <2>7. CASE Executing' /\ ~(CheckpointSetup /\ pc' = "running")
                 /\ ~RestartFinish /\ ~Reach
      <3>1. Executing /\ visit' = visit
        BY <2>7
        DEF Next, Process, Checkpoint, Restart, RestartGetLabel, CheckpointSetup,
            Dispatch, RestartReadPointer, RestartReadAlias, Exit,
            CheckpointStart, SkipVariable, CheckpointPointer, CheckpointAlias,
            CheckpointFinish, Writing, Crash, Die, Tick, vars, program, machine,
            Executing
      <3> QED BY <1>1, <2>1, <2>7, <3>1
    <2> QED BY <2>3, <2>4, <2>5, <2>6, <2>7
  <1> QED BY <1>3, <1>4

\* A transformed program is a resumable one: wherever it dies, the next launch
\* goes on from the furthest visit saved, with the memory of that visit, and what
\* is saved only moves forward with the program.
THEOREM ImplementsResumable ==
  ASSUME AliasesFound
  PROVE  Spec => Resumes
  <1>1. Init => Resumption!Init
    <2> SUFFICES ASSUME Init PROVE Resumption!Init
      OBVIOUS
    <2>1. ValidDirs = {} /\ ~Executing
      BY DEF Init, ValidDirs, Executing
    <2>2. Furthest = CHOOSE v \in {0} : \A w \in {0} : w <= v
      BY <2>1 DEF Furthest
    <2>3. Furthest = 0
      BY <2>2
    <2> QED BY <2>1, <2>3 DEF Resumption!Init, Resumption!Down, Progress
  <1>2. Typed /\ Recorded /\ Ordered /\ MemoryIntact /\ [Next]_vars
          /\ Typed' /\ MemoryIntact'
        => [Resumption!Next]_<<Progress, Furthest>>
    BY StepResumes
  <1>3. Spec => []MemoryIntact
    BY RestartKeepsMemory
  <1> QED BY <1>1, <1>2, <1>3, Typing, Recording, Ordering, PTL
      DEF Spec, Resumes, Resumption!Spec

----------------------------------------------------------------------------
(* What a due checkpoint comes to while files and directories can be       *)
(* written: it is made, in a directory that is not there yet.  With an     *)
(* interval of 0 one is due at every visit, and the death of the process   *)
(* loses no visit that was completed.                                      *)

NothingFails == WriteSucceeds \subseteq {TRUE} /\ MkdirSucceeds \subseteq {TRUE}

\* The name of the next checkpoint is free, and so is that of one skipped.
Fresh ==
  checkpointing /\ (pc \in {"restore", "running", "start"} \/ (pc = "save" /\ ~enabled))
    => CurrentDir \notin DOMAIN disk

\* A checkpoint is always due, it is never given up, and what it has written so
\* far can be read.
Prompt ==
  interval = 0 /\ checkpointing =>
    /\ nextTime <= clock
    /\ pc = "running" => visit \in Made
    /\ pc = "save" =>
         /\ enabled /\ disk[CurrentDir].info.readable
         /\ \A s \in Slots : s < arg => disk[CurrentDir].files[s].readable

----------------------------------------------------------------------------
(* The next directory is new *)

LEMMA FreshStep ==
  ASSUME NothingFails, AliasesFound, Typed, Ordered, MemoryIntact, Fresh, [Next]_vars
  PROVE  Fresh'
  <1>1. CASE CheckpointSetup
    <2> SUFFICES ASSUME checkpointing' PROVE CurrentDir' \notin DOMAIN disk'
      BY DEF Fresh
    <2>1. base' \notin epochs /\ disk' = disk
      BY <1>1 DEF CheckpointSetup, MayMake
    <2>2. CurrentDir'[1] = base'
      BY DEF CurrentDir
    <2> QED BY <2>1, <2>2 DEF Ordered, Named
  <1>2. CASE CheckpointStart
    <2> SUFFICES ASSUME checkpointing', ~enabled' PROVE CurrentDir' \notin DOMAIN disk'
      BY <1>2 DEF CheckpointStart, Fresh
    <2>1. checkpointing /\ pc = "start" /\ UNCHANGED <<base, counter>>
      BY <1>2 DEF CheckpointStart
    <2>2. CurrentDir \notin DOMAIN disk /\ CurrentDir' = CurrentDir
      BY <2>1 DEF Fresh, CurrentDir
    <2>3. ~MayRefuse(CurrentDir, DOMAIN disk)
      BY <2>2 DEF MayRefuse, NothingFails
    <2>4. disk' = disk
      BY <1>2, <2>3
      DEF CheckpointStart, StartNotDue, StartDisabled, StartNoDirectory, StartDirectory
    <2> QED BY <2>2, <2>4
  <1>3. CASE SkipVariable \/ CheckpointPointer \/ CheckpointAlias
    <2> SUFFICES ASSUME checkpointing', ~enabled' PROVE CurrentDir' \notin DOMAIN disk'
      BY <1>3 DEF SkipVariable, CheckpointPointer, CheckpointAlias, Writing, Fresh
    <2>0. enabled \in BOOLEAN /\ (enabled' # enabled \/ ~enabled)
      BY DEF Typed, TypeOK
    <2>1. ~CheckpointPointer
      <3>1. CheckpointPointer => enabled /\ enabled' = enabled
        BY DEF CheckpointPointer, PerformCurrentCheckpoint
      <3> QED BY <2>0, <3>1
    <2>2. ~CheckpointAlias
      <3>1. CheckpointAlias => enabled /\ enabled' = enabled
        BY AliasMatches DEF CheckpointAlias, PerformCurrentCheckpoint
      <3> QED BY <2>0, <3>1
    <2>3. SkipVariable
      BY <1>3, <2>1, <2>2
    <2> QED BY <2>3 DEF SkipVariable, Writing, checkpointState, machine, CurrentDir, Fresh
  <1>4. CASE CheckpointFinish
    <2> SUFFICES ASSUME checkpointing' PROVE CurrentDir' \notin DOMAIN disk'
      BY DEF Fresh
    <2>1. checkpointing /\ pc = "save" /\ UNCHANGED <<disk, base>>
      BY <1>4 DEF CheckpointFinish, PerformCurrentCheckpoint, machine
    <2>2. CASE enabled
      <3>1. counter' = counter + 1
        BY <1>4, <2>1, <2>2 DEF CheckpointFinish, PerformCurrentCheckpoint, NextCounter
      <3>2. CurrentDir'[1] = base /\ CurrentDir'[2] = counter + 1
        BY <2>1, <3>1 DEF CurrentDir
      <3>3. \A d \in DOMAIN disk : d[1] = base => d[2] <= counter
        BY <2>1 DEF Ordered, Own, Alive, Executing
      <3>4. counter \in Int
        BY DEF Typed, TypeOK, Indices
      <3> QED BY <2>1, <3>2, <3>3, <3>4
    <2>3. CASE ~enabled
      BY <1>4, <2>1, <2>3
      DEF CheckpointFinish, PerformCurrentCheckpoint, CurrentDir, Fresh
    <2> QED BY <2>2, <2>3
  <1>5. CASE pc' \in {"off", "done", "aborted", "setup"}
    BY <1>5 DEF Fresh
  <1>6. CASE /\ checkpointing' => checkpointing
             /\ UNCHANGED <<enabled, counter, base, disk>>
             /\ pc' = pc \/ (pc = "restore" /\ pc' = "running")
                  \/ (pc = "running" /\ pc' = "start")
    BY <1>6 DEF Fresh, CurrentDir
  <1>7. CASE Restart \/ Reach \/ Tick \/ UNCHANGED vars
    <2>1. CASE RestartReadPointer \/ RestartReadAlias
      BY <1>5, <1>6, <2>1
      DEF RestartReadPointer, RestartReadAlias, Die, checkpointState, machine
    <2>2. CASE RestartFinish
      BY <1>6, <2>2 DEF RestartFinish, machine
    <2>3. CASE Reach
      BY <1>6, <2>3 DEF Reach, checkpointState, machine
    <2>4. CASE Tick \/ UNCHANGED vars
      BY <1>6, <2>4 DEF Tick, vars, program, checkpointState, machine
    <2> QED BY <1>7, <2>1, <2>2, <2>3, <2>4 DEF Restart
  <1>8. CASE RestartGetLabel \/ Exit \/ Crash
    BY <1>5, <1>8 DEF RestartGetLabel, Exit, Crash, Die
  <1> QED BY <1>1, <1>2, <1>3, <1>4, <1>7, <1>8 DEF Next, Process, Checkpoint

LEMMA Freshness ==
  ASSUME NothingFails, AliasesFound
  PROVE  Spec => []Fresh
  <1>1. Init => Fresh
    BY DEF Init, Fresh
  <1>2. Spec => []MemoryIntact
    BY RestartKeepsMemory
  <1> QED BY <1>1, <1>2, FreshStep, Typing, Ordering, PTL DEF Spec

\* While nothing fails, a checkpoint that is due when its block is entered is
\* made: no directory is in its way, neither an earlier launch's nor one given up.
THEOREM DueIsPerformed ==
  ASSUME NothingFails, AliasesFound, ClockSucceeds \subseteq {TRUE}
  PROVE  Spec => DueIsTaken
  <1>1. ASSUME Typed, Fresh, [Next]_vars, pc = "start", pc' = "save",
               checkpointing, clock >= nextTime
        PROVE  enabled' /\ CurrentDir \in DOMAIN disk'
    <2>1. CheckpointStart
      BY <1>1
      DEF Next, Process, Checkpoint, Restart, RestartGetLabel, CheckpointSetup,
          RestartReadPointer, RestartReadAlias, RestartFinish, Reach, Exit,
          SkipVariable, CheckpointPointer, CheckpointAlias, CheckpointFinish,
          Writing, Crash, Die, Tick, vars, program
    <2>2. PICK ok \in ClockSucceeds :
            /\ checkpointing' = (checkpointing /\ ok)
            /\ \/ StartNotDue(GetTime(ok)) \/ StartDisabled(GetTime(ok))
               \/ StartNoDirectory(GetTime(ok)) \/ StartDirectory(GetTime(ok))
      BY <2>1 DEF CheckpointStart
    <2>3. checkpointing' /\ GetTime(ok) = clock
      BY <1>1, <2>2 DEF GetTime
    <2>4. CurrentDir \notin DOMAIN disk
      BY <1>1 DEF Fresh
    <2>5. ~MayRefuse(CurrentDir, DOMAIN disk)
      BY <2>4 DEF MayRefuse, NothingFails
    <2>6. clock \in Nat /\ nextTime \in Nat
      BY <1>1 DEF Typed, TypeOK, Times
    <2>7. StartDirectory(clock)
      BY <1>1, <2>2, <2>3, <2>5, <2>6 DEF StartNotDue, StartDisabled, StartNoDirectory
    <2> QED BY <2>7 DEF StartDirectory, WithNew
  <1>2. Typed /\ Fresh /\ [Next]_vars =>
          [pc = "start" /\ pc' = "save" /\ checkpointing /\ clock >= nextTime
             => enabled' /\ CurrentDir \in DOMAIN disk']_vars
    BY <1>1
  <1> QED BY <1>2, Freshness, Typing, PTL DEF Spec, DueIsTaken

----------------------------------------------------------------------------
(* An interval of 0 *)

\* The fields of a process that is gone are those of a new one.
LEMMA GonePrompt ==
  ASSUME Typed, clock' = clock, NEW end \in {"off", "done", "aborted"}, Die(end)
  PROVE  Prompt'
  <1>1. nextTime' = 0 /\ pc' \in {"off", "done", "aborted"} /\ clock' \in Nat
    BY DEF Die, InitialState, Typed, TypeOK, Times
  <1> QED BY <1>1 DEF Prompt

LEMMA LaunchPrompt ==
  ASSUME Typed, Ordered, Prompt, RestartGetLabel
  PROVE  Prompt'
  BY DEF RestartGetLabel, checkpointState, Prompt

LEMMA SetupPrompt ==
  ASSUME Typed, Ordered, Prompt, CheckpointSetup
  PROVE  Prompt'
  <1> SUFFICES ASSUME interval' = 0, checkpointing'
               PROVE  /\ nextTime' <= clock'
                      /\ pc' \in {"running", "restore"}
                      /\ pc' = "running" => visit' \in Made'
    BY DEF Prompt
  <1>1. PICK env \in EnvIntervals, first, second \in ClockSucceeds :
          /\ interval' = IntervalFrom(env)
          /\ nextTime' = GetTime(second) + IntervalFrom(env)
          /\ second
    BY DEF CheckpointSetup
  <1>2. nextTime' = clock + 0 /\ clock \in Nat /\ clock' = clock
    BY <1>1 DEF CheckpointSetup, GetTime, Typed, TypeOK, Times
  <1>3. pc' \in {"running", "restore"} /\ (pc' = "running" => visit' = 0)
    BY DEF CheckpointSetup, Dispatch, Typed, Phased, Executing
  <1> QED BY <1>2, <1>3 DEF Made

LEMMA RestorePrompt ==
  ASSUME Typed, Ordered, Prompt, Restart
  PROVE  Prompt'
  <1>1. CASE RestartFinish
    <2> SUFFICES ASSUME interval' = 0, checkpointing'
                 PROVE  /\ nextTime' <= clock'
                        /\ visit' \in Made'
      BY <1>1 DEF RestartFinish, Prompt
    <2>1. PICK ok \in ClockSucceeds :
            nextTime' = GetTime(ok) + interval /\ checkpointing' = (checkpointing /\ ok)
      BY <1>1 DEF RestartFinish
    <2>2. /\ interval = 0 /\ checkpointing /\ ok /\ pc = "restore"
          /\ clock' = clock /\ disk' = disk
      BY <1>1, <2>1 DEF RestartFinish, machine
    <2>3. nextTime' = clock + 0 /\ clock \in Nat
      BY <2>1, <2>2 DEF GetTime, Typed, TypeOK, Times
    <2>4. visit' = disk[restartDir].visit /\ restartDir \in ValidDirs
      BY <1>1, <2>2 DEF RestartFinish, Typed, Phased
    <2>5. visit' \in Made'
      BY <2>2, <2>4, SameDirs DEF Made
    <2> QED BY <2>2, <2>3, <2>5 DEF Prompt
  <1>2. CASE Die("aborted") /\ UNCHANGED machine
    BY <1>2, GonePrompt DEF machine
  <1>3. CASE /\ pc = "restore" /\ pc' = pc
             /\ UNCHANGED <<checkpointState, machine>>
    BY <1>3 DEF checkpointState, machine, CurrentDir, Prompt
  <1> QED BY <1>1, <1>2, <1>3 DEF Restart, RestartReadPointer, RestartReadAlias

LEMMA ProgramPrompt ==
  ASSUME Typed, Ordered, Prompt, Reach \/ Exit \/ Tick
  PROVE  Prompt'
  <1>1. CASE Reach
    BY <1>1 DEF Reach, checkpointState, machine, CurrentDir, Prompt
  <1>2. CASE Exit
    BY <1>2, GonePrompt DEF Exit, machine
  <1>3. CASE Tick
    <2>1. nextTime <= clock => nextTime' <= clock'
      BY <1>3 DEF Tick, checkpointState, Typed, TypeOK, Times
    <2>2. Made' = Made
      BY <1>3, SameDirs DEF Tick, Made
    <2> QED BY <1>3, <2>1, <2>2
        DEF Tick, program, checkpointState, CurrentDir, Prompt
  <1> QED BY <1>1, <1>2, <1>3

\* Of the four ways to start, only the one that makes a directory is left.
LEMMA StartPrompt ==
  ASSUME NothingFails, Typed, Fresh, Prompt, CheckpointStart
  PROVE  Prompt'
  <1> SUFFICES ASSUME interval' = 0, checkpointing'
               PROVE  /\ nextTime' <= clock' /\ pc' = "save" /\ enabled'
                      /\ disk'[CurrentDir'].info.readable
                      /\ \A s \in Slots : ~(s < arg')
    BY DEF Prompt
  <1>1. PICK ok \in ClockSucceeds :
          /\ checkpointing' = (checkpointing /\ ok)
          /\ \/ StartNotDue(GetTime(ok)) \/ StartDisabled(GetTime(ok))
             \/ StartNoDirectory(GetTime(ok)) \/ StartDirectory(GetTime(ok))
    BY DEF CheckpointStart
  <1>2. /\ interval = 0 /\ checkpointing /\ ok /\ pc = "start" /\ pc' = "save"
        /\ arg' = 0 /\ UNCHANGED <<nextTime, clock, base, counter>>
    BY <1>1 DEF CheckpointStart
  <1>3. nextTime <= clock /\ CurrentDir \notin DOMAIN disk /\ GetTime(ok) = clock
    BY <1>2 DEF Prompt, Fresh, GetTime
  <1>4. nextTime \in Nat /\ clock \in Nat
    BY DEF Typed, TypeOK, Times
  <1>5. ~MayRefuse(CurrentDir, DOMAIN disk)
    BY <1>3 DEF MayRefuse, NothingFails
  <1>6. StartDirectory(clock)
    BY <1>1, <1>3, <1>4, <1>5 DEF StartNotDue, StartDisabled, StartNoDirectory
  <1>7. enabled' /\ disk' = WithNew(CurrentDir, TRUE)
    BY <1>6 DEF StartDirectory, NothingFails
  <1>8. disk'[CurrentDir'] = NewCheckpoint(TRUE)
    BY <1>2, <1>7 DEF WithNew, CurrentDir
  <1>9. NewCheckpoint(TRUE).info.readable
    BY DEF NewCheckpoint, InfoOf
  <1>10. \A s \in Slots : ~(s < 0)
    BY DEF Slots
  <1> QED BY <1>2, <1>3, <1>7, <1>8, <1>9, <1>10

\* A variable is written, and an alias is found.
LEMMA VariablePrompt ==
  ASSUME NothingFails, AliasesFound, Typed, Ordered, MemoryIntact, Prompt,
         SkipVariable \/ CheckpointPointer \/ CheckpointAlias
  PROVE  Prompt'
  <1> SUFFICES ASSUME interval' = 0, checkpointing'
               PROVE  /\ nextTime' <= clock' /\ pc' = "save" /\ enabled'
                      /\ disk'[CurrentDir'].info.readable
                      /\ \A s \in Slots : s < arg' => disk'[CurrentDir'].files[s].readable
    BY DEF Prompt
  <1>1. /\ interval = 0 /\ checkpointing /\ pc = "save" /\ pc' = "save" /\ Writing
        /\ UNCHANGED <<nextTime, clock, CurrentDir>> /\ arg' = arg + 1
    BY DEF SkipVariable, CheckpointPointer, CheckpointAlias, Writing,
           checkpointState, machine, CurrentDir
  <1>2. /\ nextTime <= clock /\ enabled /\ disk[CurrentDir].info.readable
        /\ \A s \in Slots : s < arg => disk[CurrentDir].files[s].readable
    BY <1>1 DEF Prompt
  <1>3. PerformCurrentCheckpoint /\ argIndex = arg /\ CurrentDir \in DOMAIN disk
        /\ arg \in Slots
    BY <1>1, <1>2, SaveTyped DEF PerformCurrentCheckpoint, Typed, Phased, Writing
  <1>4. PICK file :
          /\ enabled' = enabled /\ file.readable
          /\ disk' = [disk EXCEPT ![CurrentDir].files[arg] = file]
    <2>1. CASE CheckpointPointer
      BY <1>3, <2>1 DEF CheckpointPointer, WriteNextFile, FileOf, NothingFails
    <2>2. CASE CheckpointAlias
      <3>1. Matches # {}
        BY <1>1, <2>2, AliasMatches DEF CheckpointAlias
      <3>2. PICK i \in DOMAIN Offered : WriteNextFile(TRUE, Offered[i])
        BY <2>2, <3>1 DEF CheckpointAlias
      <3> QED
        BY <1>3, <2>2, <3>1, <3>2 DEF CheckpointAlias, WriteNextFile, FileOf, NothingFails
    <2>3. ~SkipVariable
      BY <1>3 DEF SkipVariable
    <2> QED BY <2>1, <2>2, <2>3
  <1>5. /\ disk'[CurrentDir].info = disk[CurrentDir].info
        /\ disk'[CurrentDir].files =
             [disk[CurrentDir].files EXCEPT ![arg] = file]
        /\ DOMAIN disk[CurrentDir].files = Slots
    <2>1. disk[CurrentDir] \in Checkpoints
      BY <1>3 DEF Typed, TypeOK
    <2> QED BY <1>3, <1>4, <2>1 DEF Checkpoints
  <1>6. ASSUME NEW s \in Slots, s < arg + 1 PROVE disk'[CurrentDir].files[s].readable
    <2>1. s < arg \/ s = arg
      BY <1>3, <1>6 DEF Slots
    <2> QED BY <1>2, <1>3, <1>4, <1>5, <2>1
  <1> QED BY <1>1, <1>2, <1>4, <1>5, <1>6

\* The checkpoint is valid.
LEMMA FinishPrompt ==
  ASSUME Typed, Recorded, Ordered, Prompt, CheckpointFinish
  PROVE  Prompt'
  <1> SUFFICES ASSUME interval' = 0, checkpointing'
               PROVE  /\ nextTime' <= clock' /\ pc' = "running"
                      /\ visit' \in Made'
    BY DEF Prompt
  <1>1. /\ pc = "save" /\ pc' = "running" /\ arg = Size[LabelAt[visit]]
        /\ interval = 0 /\ UNCHANGED <<visit, base, disk, clock>>
    BY DEF CheckpointFinish, machine
  <1>2. checkpointing
    BY DEF CheckpointFinish, PerformCurrentCheckpoint
  <1>3. /\ PerformCurrentCheckpoint /\ disk[CurrentDir].info.readable
        /\ \A s \in Slots : s < arg => disk[CurrentDir].files[s].readable
    BY <1>1, <1>2 DEF Prompt, PerformCurrentCheckpoint
  <1>4. /\ CurrentDir \in DOMAIN disk /\ disk[CurrentDir].visit = visit
        /\ disk[CurrentDir].info.label = LabelAt[visit]
        /\ disk[CurrentDir].info.num = arg
    BY <1>1, <1>3 DEF Typed, Phased, Recorded
  <1>5. CheckpointValid(CurrentDir)
    <2>1. LabelAt[visit] \in Labels /\ arg \in 0 .. MaxVars
      BY <1>1, SaveTyped
    <2>2. LabelAt[visit] \in Nat
      BY <2>1, ProgramAssumption
    <2>3. \A i \in 0 .. arg - 1 : i \in Slots /\ i < arg
      BY <2>1, BoundsAssumption DEF Slots
    <2> QED BY <1>3, <1>4, <2>2, <2>3 DEF CheckpointValid
  <1>6. visit' \in Made'
    <2>1. CurrentDir \in ValidDirs
      BY <1>4, <1>5 DEF ValidDirs
    <2> QED BY <1>1, <1>4, <2>1, SameDirs DEF Made
  <1>7. PICK ok \in ClockSucceeds : nextTime' = GetTime(ok) + interval /\ ok
    BY <1>3 DEF CheckpointFinish
  <1>8. nextTime' <= clock'
    BY <1>1, <1>7 DEF GetTime, Typed, TypeOK, Times
  <1> QED BY <1>1, <1>6, <1>8

LEMMA StepPrompt ==
  ASSUME NothingFails, AliasesFound, Typed, Recorded, Ordered, MemoryIntact,
         Fresh, Prompt, [Next]_vars
  PROVE  Prompt'
  <1>1. CASE Process
    BY <1>1, LaunchPrompt, SetupPrompt, RestorePrompt, ProgramPrompt, StartPrompt,
       VariablePrompt, FinishPrompt
    DEF Process, Checkpoint
  <1>2. CASE Crash
    BY <1>2, GonePrompt DEF Crash
  <1>3. CASE Tick
    BY <1>3, ProgramPrompt
  <1>4. CASE UNCHANGED vars
    <2>1. Made' = Made
      BY <1>4, SameDirs DEF vars, machine, Made
    <2> QED BY <1>4, <2>1
        DEF vars, program, checkpointState, machine, CurrentDir, Prompt
  <1> QED BY <1>1, <1>2, <1>3, <1>4 DEF Next

\* Of a program whose aliases are found, while files and directories can be
\* written: with an interval of 0 the process that is between two headers has
\* the checkpoint of the one it passed, so its death loses no completed visit.
THEOREM AlwaysDueLosesNothing ==
  ASSUME NothingFails, AliasesFound
  PROVE  Spec => []NothingLostWhenAlwaysDue
  <1>1. Init => Prompt
    BY BoundsAssumption DEF Init, InitialState, Prompt
  <1>2. Typed /\ Ordered /\ Prompt => NothingLostWhenAlwaysDue
    <2> SUFFICES ASSUME Typed, Ordered, Prompt, pc = "running", interval = 0,
                        checkpointing
                 PROVE  Furthest = visit
      BY DEF NothingLostWhenAlwaysDue
    <2>1. visit \in Made
      BY DEF Prompt
    <2>2. Furthest \in Made /\ visit <= Furthest /\ Furthest \in Int /\ visit \in Int
      BY <2>1, FurthestOf
    <2>3. \A d \in ValidDirs : disk[d].visit <= visit
      BY DEF Ordered, Ahead
    <2>4. 0 <= visit
      BY DEF Typed, TypeOK, Visits
    <2>5. Furthest <= visit
      BY <2>2, <2>3, <2>4 DEF Made
    <2> QED BY <2>2, <2>5
  <1>3. Spec => []MemoryIntact
    BY RestartKeepsMemory
  <1> QED BY <1>1, <1>2, <1>3, StepPrompt, Freshness, Typing, Recording, Ordering, PTL DEF Spec
=============================================================================
