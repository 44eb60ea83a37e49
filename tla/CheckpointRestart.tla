------------------------ MODULE CheckpointRestart ------------------------
(***************************************************************************)
(* The ACRIiL runtime (acriil_dyn/ACRIiLState.cpp, checkpoint.cpp and      *)
(* restart.cpp) linked into a program by the ACRIiL pass: one process that *)
(* writes checkpoints at the loop headers it passes, may die at any point, *)
(* and is launched again over whatever the earlier launches left on disk.  *)
(*                                                                         *)
(* The program itself is deterministic.  It passes its checkpointed loop   *)
(* headers in a fixed order: visits 1, 2, ..., MaxVisit, visit v being of  *)
(* the header with checkpoint label LabelAt[v].  Header l has Size[l] live *)
(* variables, in the slots 0 .. Size[l] - 1 in which the pass emits them.  *)
(* A slot holds the data of one allocation, or an alias: a pointer that    *)
(* is recorded as a reference to another slot.                             *)
(***************************************************************************)
EXTENDS Integers, Sequences, FiniteSets

CONSTANTS
  Labels,           \* checkpoint labels, one per outermost loop header
  MaxVisit,         \* bound: number of header visits of a complete run
  MaxVars,          \* bound: slots of the largest checkpoint
  LabelAt,          \* LabelAt[v]: the label of the header passed at visit v
  Size,             \* Size[l]: live variables of label l
  AliasVars,        \* AliasVars[l]: the slots of l that hold an alias
  Candidates,       \* Candidates[l][s]: slots offered as targets of alias s
  Points,           \* Points[v][s]: where alias s really points at visit v
  EnvIntervals,     \* values ACRIIL_CHECKPOINT_INTERVAL may have, in ticks
  DefaultInterval,  \* __ACRIIL_DEFAULT_CHECKPOINT_INTERVAL, in ticks
  MaxTime,          \* bound: ticks of the monotonic clock
  MaxLaunches,      \* bound: launches of the program, the last not killed
  WriteSucceeds,    \* outcomes of opening, writing and closing one file
  MkdirSucceeds,    \* outcomes of a mkdir that finds no such directory
  ClockSucceeds     \* outcomes of clock_gettime

Slots   == 0 .. MaxVars - 1
Visits  == 0 .. MaxVisit
Times   == 0 .. MaxTime
Indices == 0 .. MaxVisit
Dirs    == Times \X Indices      \* .acriil_chkpnt-<time>/<index>

NoLabel    == -1     \* RestartGetLabel found nothing to restart from
Elsewhere  == -1     \* an address that is the start of no slot
Undefined  == -2     \* content of memory nobody has written
Unset      == -1     \* the environment variable is not set
NotANumber == -2     \* it is set, but strtod reads no number from it

ASSUME BoundsAssumption ==
  /\ MaxVisit \in Nat /\ MaxVars \in Nat /\ MaxTime \in Nat
  /\ MaxLaunches \in Nat /\ DefaultInterval \in Nat
ASSUME ProgramAssumption ==
  /\ Labels \subseteq Nat
  /\ LabelAt \in [1 .. MaxVisit -> Labels]
  /\ Size \in [Labels -> 0 .. MaxVars]
  /\ AliasVars \in [Labels -> SUBSET Slots]
  /\ Candidates \in [Labels -> [Slots -> Seq(Slots)]]
  /\ Points \in [1 .. MaxVisit -> [Slots -> Slots \cup {Elsewhere}]]
\* The pass emits the targets of an alias before the alias.
ASSUME OrderAssumption ==
  \A l \in Labels, s \in Slots :
    \A i \in DOMAIN Candidates[l][s] : Candidates[l][s][i] < s
ASSUME EnvironmentAssumption ==
  /\ EnvIntervals \subseteq Nat \cup {Unset, NotANumber}
  /\ WriteSucceeds \subseteq BOOLEAN
  /\ MkdirSucceeds \subseteq BOOLEAN
  /\ ClockSucceeds \subseteq BOOLEAN

\* stat finds nothing at the path, and mkdir makes it; or one of them fails.
MayMake_IgnoresExisting(path, existing) == TRUE \in MkdirSucceeds
MayMake(path, existing)   == path \notin existing /\ TRUE \in MkdirSucceeds
MayRefuse(path, existing) == path \in existing \/ FALSE \in MkdirSucceeds

\* What a slot can hold: the visit its data was computed at, a slot it
\* points to, or one of the markers above.
Values == {Undefined, Elsewhere} \cup Visits \cup Slots

\* A file is unreadable when it is missing or cut short, which the reading
\* code cannot tell apart; otherwise it is what one call wrote.
Unreadable == [readable |-> FALSE, alias |-> FALSE, body |-> Undefined]
FileOf(alias, body, written) ==
  IF written THEN [readable |-> TRUE, alias |-> alias, body |-> body]
             ELSE Unreadable
Files == {Unreadable}
           \cup [readable : {TRUE}, alias : {FALSE}, body : Values]
           \cup [readable : {TRUE}, alias : {TRUE}, body : Slots]

\* The info file of a checkpoint: its label and its number of variables.
NoInfo == [readable |-> FALSE, label |-> NoLabel, num |-> 0]
InfoOf(label, num, written) ==
  IF written THEN [readable |-> TRUE, label |-> label, num |-> num] ELSE NoInfo
Infos == [readable : BOOLEAN, label : Labels \cup {NoLabel}, num : 0 .. MaxVars]

\* A checkpoint directory.  "visit" is the visit it was made at: the code
\* does not record it, the properties need it.
Checkpoints == [info : Infos, files : [Slots -> Files], visit : Visits]

VARIABLES
  \* the program
  pc,           \* where the process is, see Phases
  visit,        \* the header visit it is at, 0 before the first one
  mem,          \* what its live variables hold
  label,        \* the label __acriilRestartGetLabel returned
  arg,          \* next variable of the checkpoint or restart block it is in
  \* the fields of ACRIiLState
  checkpointing,  \* checkpointing
  enabled,        \* currentCheckpointEnabled
  counter,        \* checkpointCounter
  argIndex,       \* currentCheckpointArgumentIndexCounter
  interval,       \* checkpointInterval
  nextTime,       \* nextCheckpointTime
  base,           \* checkpointBaseDirectory, by the time that names it
  restartDir,     \* restartBaseDirectory
  restartIndex,   \* restartArgumentIndexCounter
  table,          \* restartPointerAliasAddresses
  \* the machine
  disk,         \* the checkpoint directories that exist
  epochs,       \* the base directories that exist
  clock,        \* CLOCK_MONOTONIC
  launches      \* how many times the program was launched

program == <<pc, visit, mem, label, arg>>
checkpointState ==
  <<checkpointing, enabled, counter, argIndex, interval, nextTime, base>>
restartState == <<restartDir, restartIndex, table>>
machine == <<disk, epochs, clock, launches>>
vars == <<program, checkpointState, restartState, machine>>

Phases == {"off", "setup", "restore", "running", "start", "save", "done",
           "aborted"}
Stopped == pc \in {"off", "done", "aborted"}

----------------------------------------------------------------------------
(* The program's memory *)

IsAlias(v, s) == s \in AliasVars[LabelAt[v]]
Live(v)       == IF v = 0 THEN {} ELSE {s \in Slots : s < Size[LabelAt[v]]}

\* What the live variables of visit v hold in a run that never stopped.
Memory(v) == [s \in Slots |-> IF s \notin Live(v) THEN Undefined
                              ELSE IF IsAlias(v, s) THEN Points[v][s] ELSE v]
NoMemory  == [s \in Slots |-> Undefined]

\* The address in slot s: an alias holds one, data lives at its own.
AddressIn(s) == IF IsAlias(visit, s) THEN mem[s] ELSE s

----------------------------------------------------------------------------
(* Checkpoint directories *)

\* __acriilCheckpointValid
CheckpointValid_InfoOnly(dir) ==
  /\ dir \in DOMAIN disk
  /\ disk[dir].info.readable /\ disk[dir].info.label >= 0
CheckpointValid(dir) ==
  /\ dir \in DOMAIN disk
  /\ disk[dir].info.readable
  /\ disk[dir].info.label >= 0
  /\ \A i \in 0 .. disk[dir].info.num - 1 : disk[dir].files[i].readable

ValidDirs == {d \in DOMAIN disk : CheckpointValid(d)}

\* The order in which __acriilRestartGetLabel tries directories, reversed.
Older(d, e) == d[1] < e[1] \/ (d[1] = e[1] /\ d[2] < e[2])

CurrentDir == <<base, counter>>

\* ACRIiLState::performCurrentCheckpoint
PerformCurrentCheckpoint_IgnoresStop ==
  checkpointing /\ (enabled \/ CurrentDir \in DOMAIN disk)
PerformCurrentCheckpoint == checkpointing /\ enabled

\* ACRIiLState::getTimeInMicroseconds; a clock that fails reads 0 and also
\* disables checkpointing, which its callers below do.
GetTime(ok) == IF ok THEN clock ELSE 0

\* What the static initialisers of ACRIiLState leave, in every new process.
\* Fields without an initialiser are given a value of their type; nothing
\* reads them before they are assigned.
InitialState(cp, en, cnt, ai, intv, next, bs, rd, ri, tb) ==
  /\ cp = TRUE /\ en = TRUE /\ cnt = 0 /\ ai = 0 /\ intv = 0 /\ next = 0
  /\ bs = 0 /\ rd = <<0, 0>> /\ ri = 0 /\ tb = NoMemory

Init ==
  /\ pc = "off" /\ visit = 0 /\ mem = NoMemory /\ label = NoLabel /\ arg = 0
  /\ InitialState(checkpointing, enabled, counter, argIndex, interval,
                  nextTime, base, restartDir, restartIndex, table)
  /\ disk = << >> /\ epochs = {} /\ clock = 0 /\ launches = 0

\* The process is gone, and its memory with it.
Die(end) ==
  /\ pc' = end /\ visit' = 0 /\ mem' = NoMemory /\ label' = NoLabel /\ arg' = 0
  /\ InitialState(checkpointing', enabled', counter', argIndex', interval',
                  nextTime', base', restartDir', restartIndex', table')

----------------------------------------------------------------------------
(* Launch: the entry block of the transformed main *)

\* __acriilRestartGetLabel: the valid checkpoint with the greatest epoch and,
\* in that epoch, the greatest index; restartSetup points the reader at it.
NewestValid_Oldest(dir) ==
  dir \in ValidDirs /\ \A e \in ValidDirs : e = dir \/ Older(dir, e)
NewestValid(dir) ==
  /\ dir \in ValidDirs
  /\ \A e \in ValidDirs : e = dir \/ Older(e, dir)

RestartGetLabel ==
  /\ Stopped /\ launches < MaxLaunches
  /\ launches' = launches + 1
  /\ pc' = "setup"
  /\ \/ /\ ValidDirs = {}
        /\ label' = NoLabel
        /\ UNCHANGED restartState
     \/ \E dir \in DOMAIN disk :
          /\ NewestValid(dir)
          /\ label' = disk[dir].info.label
          /\ restartDir' = dir
          /\ restartIndex' = -1
          /\ table' = NoMemory
  /\ UNCHANGED <<visit, mem, arg, checkpointState, disk, epochs, clock>>

\* ACRIiLState::checkpointSetup reads the interval.  Set but unparsable, the
\* variable leaves the field at its initial value.
IntervalFrom(env) == IF env = Unset THEN DefaultInterval
                     ELSE IF env = NotANumber THEN interval ELSE env

\* The switch of the entry block.
Dispatch == IF label = NoLabel THEN "running" ELSE "restore"

\* __acriilCheckpointSetup: names the epoch by the time, and disables
\* checkpointing for good when a clock call fails, the directory exists or it
\* cannot be made.
CheckpointSetup ==
  /\ pc = "setup"
  /\ \E env \in EnvIntervals, first, second \in ClockSucceeds :
       /\ interval' = IntervalFrom(env)
       /\ base' = GetTime(first)
       /\ nextTime' = GetTime(second) + IntervalFrom(env)
       /\ \/ /\ ~(first /\ second)
             /\ checkpointing' = FALSE
             /\ UNCHANGED epochs
          \/ /\ first /\ second
             /\ MayRefuse(base', epochs)
             /\ checkpointing' = FALSE
             /\ UNCHANGED epochs
          \/ /\ first /\ second
             /\ MayMake(base', epochs)
             /\ checkpointing' = TRUE
             /\ epochs' = epochs \cup {base'}
  /\ pc' = Dispatch
  /\ UNCHANGED <<visit, mem, label, arg, enabled, counter, argIndex,
                 restartState, disk, clock, launches>>

----------------------------------------------------------------------------
(* The restart block of the label *)

FileToRead == disk[restartDir].files[restartIndex + 1]

\* __acriilRestartReadPointerFromCheckpoint
RestartReadPointer ==
  /\ pc = "restore" /\ arg < Size[label] /\ arg \notin AliasVars[label]
  /\ \/ /\ FileToRead.readable /\ ~FileToRead.alias
        /\ restartIndex' = restartIndex + 1
        /\ mem' = [mem EXCEPT ![arg] = FileToRead.body]
        /\ table' = [table EXCEPT ![restartIndex + 1] = arg]
        /\ arg' = arg + 1
        /\ UNCHANGED <<pc, visit, label, checkpointState, restartDir>>
     \/ /\ ~FileToRead.readable \/ FileToRead.alias
        /\ Die("aborted")
  /\ UNCHANGED machine

\* __acriilRestartReadAliasFromCheckpoint: the address the table holds for the
\* slot the file refers to.
RestartReadAlias ==
  /\ pc = "restore" /\ arg < Size[label] /\ arg \in AliasVars[label]
  /\ \/ /\ FileToRead.readable /\ FileToRead.alias
        /\ restartIndex' = restartIndex + 1
        /\ LET out == table[FileToRead.body]
           IN  /\ mem' = [mem EXCEPT ![arg] = out]
               /\ table' = [table EXCEPT ![restartIndex + 1] = out]
        /\ arg' = arg + 1
        /\ UNCHANGED <<pc, visit, label, checkpointState, restartDir>>
     \/ /\ ~FileToRead.readable \/ ~FileToRead.alias
        /\ Die("aborted")
  /\ UNCHANGED machine

\* __acriilRestartFinish, and the branch into the loop header: the process is
\* at the visit its checkpoint was made at.
RestartFinish ==
  /\ pc = "restore" /\ arg = Size[label]
  /\ \E ok \in ClockSucceeds :
       /\ nextTime' = GetTime(ok) + interval
       /\ checkpointing' = (checkpointing /\ ok)
  /\ pc' = "running" /\ arg' = 0
  /\ visit' = disk[restartDir].visit
  /\ UNCHANGED <<mem, label, enabled, counter, argIndex, interval, base,
                 restartState, machine>>

----------------------------------------------------------------------------
(* The program runs, and passes a loop header *)

\* The live variables the next header finds: those of an uninterrupted run,
\* unless the ones this visit started from were already wrong.
Reach ==
  /\ pc = "running" /\ visit < MaxVisit
  /\ visit' = visit + 1
  /\ mem' = IF mem = Memory(visit) THEN Memory(visit + 1) ELSE NoMemory
  /\ pc' = "start"
  /\ UNCHANGED <<label, arg, checkpointState, restartState, machine>>

\* main returns.  Nothing removes the checkpoints.
Exit ==
  /\ pc = "running" /\ visit = MaxVisit
  /\ Die("done")
  /\ UNCHANGED machine

----------------------------------------------------------------------------
(* The checkpoint block of the header *)

\* A checkpoint directory with nothing in it but the info file.
NewCheckpoint(written) ==
  [info  |-> InfoOf(LabelAt[visit], Size[LabelAt[visit]], written),
   files |-> [s \in Slots |-> Unreadable],
   visit |-> visit]

WithNew(dir, written) ==
  [d \in DOMAIN disk \cup {dir} |->
     IF d = dir THEN NewCheckpoint(written) ELSE disk[d]]

\* ACRIiLState::checkpointStart: not yet time, and this one is skipped.
StartNotDue(now) ==
  /\ now < nextTime
  /\ enabled' = FALSE
  /\ UNCHANGED <<argIndex, disk>>

\* It is time, but checkpointing is disabled for good.
StartDisabled(now) ==
  /\ now >= nextTime /\ ~checkpointing'
  /\ argIndex' = 0 /\ enabled' = TRUE
  /\ UNCHANGED disk

\* The directory exists or cannot be made, and this one is given up.
StartNoDirectory(now) ==
  /\ now >= nextTime /\ checkpointing'
  /\ MayRefuse(CurrentDir, DOMAIN disk)
  /\ argIndex' = 0 /\ enabled' = FALSE
  /\ UNCHANGED disk

StartDirectory_KeepsIndex(now) ==
  /\ now >= nextTime /\ checkpointing' /\ MayMake(CurrentDir, DOMAIN disk)
  /\ enabled' = TRUE /\ UNCHANGED argIndex
  /\ \E written \in WriteSucceeds : disk' = WithNew(CurrentDir, written)
StartDirectory(now) ==
  /\ now >= nextTime /\ checkpointing'
  /\ MayMake(CurrentDir, DOMAIN disk)
  /\ argIndex' = 0 /\ enabled' = TRUE
  /\ \E written \in WriteSucceeds : disk' = WithNew(CurrentDir, written)

\* __acriilCheckpointStart
CheckpointStart ==
  /\ pc = "start"
  /\ \E ok \in ClockSucceeds :
       /\ checkpointing' = (checkpointing /\ ok)
       /\ LET now == GetTime(ok)
          IN  \/ StartNotDue(now)
              \/ StartDisabled(now)
              \/ StartNoDirectory(now)
              \/ StartDirectory(now)
  /\ pc' = "save" /\ arg' = 0
  /\ UNCHANGED <<visit, mem, label, counter, interval, nextTime, base,
                 restartState, epochs, clock, launches>>

Writing == pc = "save" /\ arg < Size[LabelAt[visit]]

\* getNextCheckpointArgumentFileName, and the file written under that name.
WriteNextFile(alias, body) ==
  /\ \E written \in WriteSucceeds :
       disk' = [disk EXCEPT ![CurrentDir].files[argIndex] =
                              FileOf(alias, body, written)]
  /\ argIndex' = argIndex + 1

\* Both calls return at once when this checkpoint is not being performed.
SkipVariable ==
  /\ Writing /\ ~PerformCurrentCheckpoint
  /\ arg' = arg + 1
  /\ UNCHANGED <<pc, visit, mem, label, checkpointState, restartState, machine>>

\* __acriilCheckpointPointer
CheckpointPointer ==
  /\ Writing /\ ~IsAlias(visit, arg) /\ PerformCurrentCheckpoint
  /\ WriteNextFile(FALSE, mem[arg])
  /\ arg' = arg + 1
  /\ UNCHANGED <<pc, visit, mem, label, checkpointing, enabled, counter,
                 interval, nextTime, base, restartState, epochs, clock,
                 launches>>

\* The candidates of the call, in its order, and those whose address is the
\* alias's.
Offered == Candidates[LabelAt[visit]][arg]
Matches == {i \in DOMAIN Offered : AddressIn(Offered[i]) = mem[arg]}
FirstMatch_FirstOffered(i) == Matches # {} /\ i = 1
FirstMatch(i) == i \in Matches /\ \A j \in Matches : i <= j

\* __acriilCheckpointAlias.  An alias that matches no candidate stops the
\* checkpoint, yet its file is still written, as a reference to slot 0.
CheckpointAlias ==
  /\ Writing /\ IsAlias(visit, arg) /\ PerformCurrentCheckpoint
  /\ \/ /\ \E i \in DOMAIN Offered :
             FirstMatch(i) /\ WriteNextFile(TRUE, Offered[i])
        /\ UNCHANGED enabled
     \/ /\ Matches = {}
        /\ WriteNextFile(TRUE, 0)
        /\ enabled' = FALSE
  /\ arg' = arg + 1
  /\ UNCHANGED <<pc, visit, mem, label, checkpointing, counter, interval,
                 nextTime, base, restartState, epochs, clock, launches>>

\* __acriilCheckpointFinish
NextCounter_Same == counter
NextCounter == counter + 1
CheckpointFinish ==
  /\ pc = "save" /\ arg = Size[LabelAt[visit]]
  /\ \/ /\ PerformCurrentCheckpoint
        /\ counter' = NextCounter
        /\ \E ok \in ClockSucceeds :
             /\ nextTime' = GetTime(ok) + interval
             /\ checkpointing' = ok
     \/ /\ ~PerformCurrentCheckpoint
        /\ UNCHANGED <<counter, nextTime, checkpointing>>
  /\ pc' = "running" /\ arg' = 0
  /\ UNCHANGED <<visit, mem, label, enabled, argIndex, interval, base,
                 restartState, machine>>

----------------------------------------------------------------------------
(* The environment *)

\* What a process that dies inside a call may have done of it: made the
\* epoch, or made the checkpoint directory and not finished the info file.
\* A variable's file it has not finished is unreadable, as it was.
PartialSetup ==
  /\ pc = "setup" /\ TRUE \in MkdirSucceeds
  /\ epochs' = epochs \cup {clock}
  /\ UNCHANGED disk
PartialStart ==
  /\ pc = "start" /\ checkpointing /\ clock >= nextTime
  /\ MayMake(CurrentDir, DOMAIN disk)
  /\ disk' = WithNew(CurrentDir, FALSE)
  /\ UNCHANGED epochs

\* The process is killed, between two calls or inside one.
Crash ==
  /\ ~Stopped /\ launches < MaxLaunches
  /\ Die("off")
  /\ PartialSetup \/ PartialStart \/ UNCHANGED <<disk, epochs>>
  /\ UNCHANGED <<clock, launches>>

Tick ==
  /\ clock < MaxTime
  /\ clock' = clock + 1
  /\ UNCHANGED <<program, checkpointState, restartState, disk, epochs, launches>>

\* The machine is started again: the monotonic clock with it, from 0.
Reboot ==
  /\ Stopped
  /\ clock' = 0
  /\ UNCHANGED <<program, checkpointState, restartState, disk, epochs, launches>>

----------------------------------------------------------------------------

Restart    == RestartReadPointer \/ RestartReadAlias \/ RestartFinish
Checkpoint == CheckpointStart \/ SkipVariable \/ CheckpointPointer
                \/ CheckpointAlias \/ CheckpointFinish
Process    == RestartGetLabel \/ CheckpointSetup \/ Restart \/ Reach
                \/ Checkpoint \/ Exit
Next       == Process \/ Crash \/ Tick

Spec == Init /\ [][Next]_vars

\* The process is sequential and calls nothing that waits; that somebody
\* launches it again after it died is assumed of the environment.
Run      == CheckpointSetup \/ Restart \/ Reach \/ Checkpoint \/ Exit
FairSpec == Spec /\ WF_vars(Run) /\ WF_vars(RestartGetLabel)

\* The machine may be rebooted while the program is not running.
RebootSpec == Init /\ [][Next \/ Reboot]_vars

----------------------------------------------------------------------------
(* Properties *)

\* Every variable has its type; in particular no checkpoint holds more than
\* MaxVars files and no process makes more than one checkpoint per visit.
TypeOK ==
  /\ pc \in Phases /\ visit \in Visits /\ mem \in [Slots -> Values]
  /\ label \in Labels \cup {NoLabel} /\ arg \in 0 .. MaxVars
  /\ checkpointing \in BOOLEAN /\ enabled \in BOOLEAN
  /\ counter \in Indices /\ argIndex \in 0 .. MaxVars
  /\ interval \in Nat /\ nextTime \in Nat /\ base \in Times
  /\ restartDir \in Dirs /\ restartIndex \in -1 .. MaxVars
  /\ table \in [Slots -> Values]
  /\ DOMAIN disk \subseteq Dirs /\ disk \in [DOMAIN disk -> Checkpoints]
  /\ epochs \subseteq Times /\ clock \in Times /\ launches \in 0 .. MaxLaunches

\* The order of the directory names is the order of progress: of two valid
\* checkpoints the one __acriilRestartGetLabel prefers was made at a later
\* visit, whichever launches made them.
NewestIsFurthest ==
  \A d, e \in ValidDirs : Older(d, e) => disk[d].visit < disk[e].visit

Executing == pc \in {"running", "start", "save"}

\* Through any number of deaths, restarts and restored pointers, the running
\* program has in its live variables what an uninterrupted run would have.
MemoryIntact == Executing => mem = Memory(visit)

\* A checkpoint that a restart could use is never written to again, by this
\* process or by a later one.
CompletedUntouched ==
  [][\A d \in ValidDirs : d \in DOMAIN disk' /\ disk'[d] = disk[d]]_vars

\* "For every checkpoint create a directory that stores all the files": when
\* a checkpoint is due and the machine does not fail, it is performed.
DueIsTaken ==
  [][ pc = "start" /\ pc' = "save" /\ checkpointing /\ clock >= nextTime
        => enabled' /\ CurrentDir \in DOMAIN disk' ]_vars

\* "Could not checkpoint an alias, checkpointing will not be performed": what
\* is on disk of a checkpoint given up for such an alias is not a checkpoint.
GivenUpNotUsed ==
  [][ Writing /\ IsAlias(visit, arg) /\ PerformCurrentCheckpoint /\ ~enabled'
        => CurrentDir \notin {d \in DOMAIN disk' : CheckpointValid(d)'} ]_vars

\* What __acriilCheckpointValid accepted the restart block can read.
NeverAborts == pc # "aborted"

\* The visit of the furthest checkpoint a restart could use.
Furthest ==
  LET made == {0} \cup {disk[d].visit : d \in ValidDirs}
  IN  CHOOSE v \in made : \A w \in made : w <= v

\* With an interval of 0, a death loses no visit that was completed.
NothingLostWhenAlwaysDue ==
  pc = "running" /\ interval = 0 /\ checkpointing => Furthest = visit

\* Seen as its progress and the furthest checkpoint on disk, the process is
\* the resumable program of Resumable; a program whose variables are wrong
\* is at no visit of it.
Progress == IF ~Executing THEN -1
            ELSE IF mem = Memory(visit) THEN visit ELSE MaxVisit + 1
Resumption == INSTANCE Resumable WITH at <- Progress, saved <- Furthest
Resumes == Resumption!Spec

\* However often it is killed, the program gets to its end.
Completes == <>(pc = "done")
=============================================================================
