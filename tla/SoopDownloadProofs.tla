------------------------- MODULE SoopDownloadProofs -------------------------
(***************************************************************************)
(* What holds of SOOP downloads (SoopDownload) for all values of the        *)
(* constants: finished PARTs survive, a job leaves no residue, the tool has *)
(* its cookies, and a job is a run of DownloadRun.                          *)
(***************************************************************************)
EXTENDS SoopDownload, Sequences, TLAPS, WellFoundedInduction, FiniteSetTheorems

----------------------------------------------------------------------------
\* The inductive invariant.

\* Where a PART is under way; where the pieces of the merged file are.
InPart  == {"top", "renew", "refresh", "authorize", "prepare", "tool"}
InMerge == {"merging", "removing"}
\* Where the task works on a list of PARTs to download.
Saving  == {"select", "merge"} \cup InPart \cup InMerge

\* The task has the locals of the place it is at; a PART is downloaded under a name that has no
\* final file yet.
TaskFitsItsPlace ==
  /\ pc \in Working => run >= 1
  /\ pc \notin Working => task = Idle
  /\ pc \in Working \ (InPart \cup InMerge) => task.target = NoTarget /\ task.part = None
  /\ pc \in InPart =>
       /\ task.target \in Parts \X Names /\ task.part = task.target[1]
       /\ finals[task.target] = NoFile
  /\ pc \in InMerge => task.target \in {Merged} \X Names
  /\ pc \in {"authorize", "prepare", "tool"} => task.seen # None
  /\ pc \in {"login", "listing", "analyse"} => task.files = {}
  /\ pc = "analyse" => ~job.saves
  /\ pc \in Saving => job.saves

\* Each PART of the list is still to come, under way, or in one file of its own.
ListIsCovered ==
  /\ pc \in Saving => task.left \subseteq job.want /\ task.part \notin task.left
  /\ pc \in {"merge"} \cup InMerge => task.left = {}
  /\ pc \in InPart => task.part \in job.want
  /\ \A t \in task.files : t[1] \in job.want \ task.left /\ t[1] # task.part
  /\ \A t, u \in task.files : t[1] = u[1] => t = u
  /\ pc \in Saving \ InMerge =>
       \A p \in job.want : p \in task.left \/ p = task.part \/ \E t \in task.files : t[1] = p

\* The files of the job hold their PARTs; a merged file holds what all of them hold.
FilesAreWhole ==
  /\ \A t \in task.files : t \in Parts \X Names /\ Holds(finals[t], {t[1]})
  /\ pc \in InMerge =>
       /\ \A t \in task.files : finals[t].of \subseteq finals[task.target].of
       /\ {p[2] : p \in finals[task.target].of} = job.want
       /\ ~Reuses => Cardinality(finals[task.target].of) = Cardinality(job.want)
       /\ finals[task.target].whole <=> pc = "removing"

\* A `.part` file has pieces of its own PART only, of one source unless jobs of several met there.
IsOf(part, p) ==
  /\ part.bytes > 0 => part.of # {}
  /\ part.of \subseteq Sources \X {p}
  /\ ~Reuses => \E s \in Sources : part.of \subseteq {<<s, p>>}

\* Fragments are of their PART and, where no job continues what a crash left of another source, of
\* the source the PART began with.
FragmentsAreOfOneSource ==
  /\ \A t \in Targets : IsOf(partials[t], t[1])
  /\ ~Reuses /\ pc \in Working => \A t \in Targets :
       partials[t].of \subseteq
         {<<IF t = task.target /\ task.seen # None THEN task.seen ELSE source, t[1]>>}

\* Only the name under way has fragments of this job.
FragmentsAreOfThePart ==
  /\ pc \in Working => \A t \in touched : t # task.target => partials[t] = NoPart
  /\ NoResidue

\* What an earlier job reported is whole, and no file the present job may remove.
ReportedFilesAreKept ==
  \A r \in results :
    /\ r.run <= run /\ (pc \in Working => r.run < run)
    /\ \A t \in r.files : finals[t].whole /\ t \notin task.files
    /\ OnDisk(r)

\* The inductive invariant.
SoopInv ==
  /\ SoopTypeOK /\ TaskFitsItsPlace /\ ListIsCovered /\ FilesAreWhole /\ FragmentsAreOfOneSource
  /\ FragmentsAreOfThePart /\ PartsSurvive /\ ReportedFilesAreKept /\ ToolHasCookies

\* The bounds of the model.
LEMMA SoopBounds ==
  /\ Parts \subseteq Nat \ {0} /\ IsFiniteSet(Parts) /\ Names \subseteq Nat
  /\ MaxBytes \in Nat \ {0} /\ MaxRetries \in Nat \ {0} /\ MaxSources \in Nat \ {0}
  /\ MaxRuns \in Nat \ {0}
BY SoopAssumption

\* No target is the lack of one, and there is no PART 0.
LEMMA TargetsAreNames ==
  /\ NoTarget \notin Targets /\ None \notin Parts /\ Merged \notin Parts
  /\ \A a, b : <<a, b>> # NoTarget
<1>1. \A q, r : Len(<<q, r>>) = 2 /\ Len(<< >>) = 0
  OBVIOUS
<1>2. \A a, b : <<a, b>> # NoTarget
  BY <1>1 DEF NoTarget
<1>3. \A t \in Targets : t = <<t[1], t[2]>>
  BY DEF Targets
<1>4. NoTarget \notin Targets
  BY <1>2, <1>3
<1> QED BY <1>2, <1>4, SoopBounds DEF None, Merged

\* The least member of a set of numbers, as SelectPart and collision_path take it.
LEMMA LeastOf ==
  ASSUME NEW S, S \subseteq Nat, S # {}
  PROVE  Min(S) \in S /\ \A y \in S : Min(S) <= y
<1> DEFINE Less == OpToRel(<, Nat)
<1>1. PICK least \in S : \A y \in S : <<y, least>> \notin Less
  <2> HIDE DEF Less
  <2> QED BY WFMin, NatLessThanWellFounded DEF Less
<1>2. \A c, d \in Nat : d < c => <<d, c>> \in Less
  BY DEF OpToRel
<1> HIDE DEF Less
<1>3. least \in Nat
  BY <1>1
<1>4. \A y \in S : least <= y
  <2>1. ASSUME NEW y \in S PROVE least <= y
    <3>1. y \in Nat /\ ~(y < least)
      BY <1>1, <1>2, <1>3
    <3> QED BY <1>3, <3>1
  <2> QED BY <2>1
<1> QED BY <1>4 DEF Min

\* A name collision_path finds has no file yet.
LEMMA NameIsFree ==
  ASSUME NEW p \in Parts \cup {Merged}, FreeNames(p) # {}
  PROVE  /\ CollisionPath(p) \in {p} \X Names /\ CollisionPath(p) \in Targets
         /\ CollisionPath(p)[1] = p /\ CollisionPath(p) # NoTarget
         /\ finals[CollisionPath(p)] = NoFile
<1>1. FreeNames(p) \subseteq Nat
  BY SoopBounds DEF FreeNames
<1>2. Min(FreeNames(p)) \in FreeNames(p)
  BY <1>1, LeastOf
<1> DEFINE n == Min(FreeNames(p))
<1>3. n \in Names /\ finals[<<p, n>>] = NoFile
  BY <1>2 DEF FreeNames
<1>4. CollisionPath(p) = <<p, n>>
  BY DEF CollisionPath
<1> HIDE DEF n
<1> QED BY <1>3, <1>4, TargetsAreNames DEF Targets

\* The PART that comes next.
LEMMA NextPart ==
  ASSUME SoopTypeOK, task.left # {}
  PROVE  Min(task.left) \in task.left /\ Min(task.left) \in Parts
<1>1. task.left \subseteq Parts
  BY DEF SoopTypeOK
<1> QED BY <1>1, LeastOf, SoopBounds

\* The file MergeDone removes next.
Removed == CHOOSE f \in task.files : \A g \in task.files : f[1] <= g[1]
\* There is one while files are left.
LEMMA NextFile ==
  ASSUME SoopTypeOK, FilesAreWhole, task.files # {}
  PROVE  Removed \in task.files
<1>1. \A t \in task.files : t[1] \in Nat
  BY SoopBounds DEF FilesAreWhole
<1> DEFINE S == {t[1] : t \in task.files}
<1>2. S \subseteq Nat /\ S # {}
  BY <1>1
<1>3. Min(S) \in S /\ \A y \in S : Min(S) <= y
  BY <1>2, LeastOf
<1>4. PICK f \in task.files : f[1] = Min(S)
  BY <1>3
<1>5. \A g \in task.files : f[1] <= g[1]
  BY <1>3, <1>4
<1> QED BY <1>5 DEF Removed

----------------------------------------------------------------------------
\* Type correctness.

\* The records of a final file, a `.part` file and the task.
File == [of : SUBSET Pieces, whole : BOOLEAN]
Part == [of : SUBSET Pieces, bytes : 0 .. MaxBytes]
Task == [left : SUBSET Parts, part : Parts \cup {None}, target : Targets \cup {NoTarget},
         files : SUBSET Targets, again : BOOLEAN, failures : 0 .. MaxRetries,
         retained : 0 .. MaxBytes, seen : Sources \cup {None}, expired : BOOLEAN,
         private : BOOLEAN]

\* The task that has nothing, and the two kinds of file that hold nothing.
LEMMA NothingIsTyped == Idle \in Task /\ NoFile \in File /\ NoPart \in Part /\ EmptyJar \in Jar
<1>1. 0 \in 0 .. MaxRetries /\ 0 \in 0 .. MaxBytes
  BY SoopBounds
<1>2. FALSE \in BOOLEAN
  OBVIOUS
<1>3. Idle \in Task
  BY <1>1, <1>2 DEF Idle, Task
<1> QED BY <1>1, <1>3 DEF NoFile, NoPart, File, Part, EmptyJar, Jar

\* The parts of the type invariant.
LEMMA Typed ==
  SoopTypeOK <=>
    /\ source \in Sources /\ run \in 0 .. MaxRuns /\ cancel \in BOOLEAN
    /\ job \in [saves : BOOLEAN, want : SUBSET Parts, merge : BOOLEAN, account : BOOLEAN,
                guarded : BOOLEAN]
    /\ pc \in Working \cup Ended \cup {"idle"}
    /\ task \in Task
    /\ jar \in Jar /\ cookies \in Jar /\ dirs \subseteq 1 .. MaxRuns
    /\ finals \in [Targets -> File] /\ partials \in [Targets -> Part]
    /\ touched \subseteq Targets
    /\ finished \subseteq [target : Targets, part : Parts]
    /\ results \subseteq [run : 1 .. MaxRuns, files : SUBSET Targets, parts : SUBSET Parts]
BY DEF SoopTypeOK, File, Part, Task

----------------------------------------------------------------------------
\* What the ends of a job and its failed attempts leave.

\* The fragments of a name are dropped, or nothing is.
LEMMA CleanedFragments ==
  ASSUME SoopInv
  PROVE  /\ Cleaned \in [Targets -> Part]
         /\ \A t \in Targets : Cleaned[t] = NoPart \/ Cleaned[t] = partials[t]
         /\ \A t \in Targets : t = task.target => Cleaned[t] = NoPart
<1>1. partials \in [Targets -> Part] /\ NoPart \in Part
      /\ task.target \in Targets \cup {NoTarget}
  BY Typed, NothingIsTyped DEF SoopInv, Task
<1>2. CASE task.target = NoTarget
  BY <1>1, <1>2, TargetsAreNames DEF Cleaned
<1>3. CASE task.target # NoTarget
  <2>1. Cleaned = [partials EXCEPT ![task.target] = NoPart]
    BY <1>3 DEF Cleaned
  <2> QED BY <1>1, <1>3, <2>1
<1> QED BY <1>2, <1>3

\* What a job that is over leaves of its own is sound, whatever became of its files.
LEMMA EndIsClean ==
  ASSUME SoopInv, pc \in Working, NEW how \in Ended, End(how),
         UNCHANGED <<source, run, job, cancel, touched>>
  PROVE  /\ pc' = how /\ task' = Idle /\ task' \in Task /\ dirs' \subseteq 1 .. MaxRuns
         /\ partials' \in [Targets -> Part]
         /\ TaskFitsItsPlace' /\ ListIsCovered' /\ FilesAreWhole'
         /\ FragmentsAreOfOneSource' /\ FragmentsAreOfThePart' /\ ToolHasCookies'
<1>1. /\ pc' = how /\ task' = Idle /\ dirs' = dirs \ {run} /\ partials' = Cleaned
  BY DEF End, Goto
<1>2. task' \in Task /\ task'.files = {} /\ task'.target = NoTarget
  BY <1>1, NothingIsTyped DEF Idle
<1>3. dirs' \subseteq 1 .. MaxRuns
  BY <1>1, Typed DEF SoopInv
<1>4. pc' \in Ended /\ pc' \notin Working /\ pc' # "idle"
  BY <1>1 DEF Ended, Working
<1>5. TaskFitsItsPlace'
  BY <1>1, <1>2, <1>4 DEF TaskFitsItsPlace, Working, Ended, InPart, InMerge, Saving
<1>6. ListIsCovered' /\ FilesAreWhole'
  BY <1>1, <1>2, <1>4 DEF ListIsCovered, FilesAreWhole, Working, Ended, InPart, InMerge, Saving
<1>7. FragmentsAreOfOneSource'
  <2>1. ASSUME NEW t \in Targets
        PROVE  IsOf(partials'[t], t[1])
    <3>1. partials'[t] = NoPart \/ partials'[t] = partials[t]
      BY <1>1, CleanedFragments
    <3>2. CASE partials'[t] = NoPart
      <4>1. partials'[t].bytes = 0 /\ partials'[t].of = {}
        BY <3>2 DEF NoPart
      <4>2. source \in Sources
        BY Typed DEF SoopInv
      <4> QED BY <4>1, <4>2 DEF IsOf
    <3>3. CASE partials'[t] = partials[t]
      BY <3>3 DEF SoopInv, FragmentsAreOfOneSource
    <3> QED BY <3>1, <3>2, <3>3
  <2> QED BY <1>4, <2>1 DEF FragmentsAreOfOneSource
<1>8. FragmentsAreOfThePart'
  <2>1. run' \notin dirs'
    BY <1>1
  <2>2. ASSUME NEW t \in touched' PROVE partials'[t] = NoPart
    <3>1. t \in Targets /\ t \in touched
      BY Typed DEF SoopInv
    <3>2. t # task.target => partials[t] = NoPart
      BY <3>1 DEF SoopInv, FragmentsAreOfThePart
    <3> QED BY <1>1, <3>1, <3>2, CleanedFragments
  <2> QED BY <1>4, <2>1, <2>2 DEF FragmentsAreOfThePart, NoResidue
<1>9. ToolHasCookies'
  BY <1>4 DEF ToolHasCookies, At, Ended
<1> QED BY <1>1, <1>2, <1>3, <1>5, <1>6, <1>7, <1>8, <1>9, CleanedFragments

\* Whole files that stay as they are keep what finished PARTs and reported results rest on.
LEMMA WholeFilesStay ==
  ASSUME SoopInv, \A t \in Targets : finals[t].whole => finals'[t] = finals[t]
  PROVE  /\ finished' = finished => PartsSurvive'
         /\ \A f \in finished :
              \/ Holds(finals'[f.target], {f.part})
              \/ \E t \in {Merged} \X Names :
                   finals'[t].whole /\ f.part \in {p[2] : p \in finals'[t].of}
         /\ \A r \in results : OnDisk(r)' /\ \A t \in r.files : finals'[t].whole
<1>0. \A t : t \in {Merged} \X Names => t \in Targets
  BY DEF Targets
<1>1. ASSUME NEW f \in finished
      PROVE  \/ Holds(finals'[f.target], {f.part})
             \/ \E t \in {Merged} \X Names :
                  finals'[t].whole /\ f.part \in {p[2] : p \in finals'[t].of}
  <2>1. f.target \in Targets
    BY Typed DEF SoopInv
  <2>2. CASE Holds(finals[f.target], {f.part})
    <3>1. finals[f.target].whole
      BY <2>2 DEF Holds
    <3> QED BY <2>1, <2>2, <3>1
  <2>3. CASE \E t \in {Merged} \X Names :
                finals[t].whole /\ f.part \in {p[2] : p \in finals[t].of}
    <3>1. PICK t \in {Merged} \X Names : finals[t].whole /\ f.part \in {p[2] : p \in finals[t].of}
      BY <2>3
    <3>2. finals'[t] = finals[t]
      BY <1>0, <3>1
    <3> QED BY <3>1, <3>2
  <2> QED BY <2>2, <2>3 DEF SoopInv, PartsSurvive
<1>2. finished' = finished => PartsSurvive'
  <2> SUFFICES ASSUME finished' = finished PROVE PartsSurvive'
    OBVIOUS
  <2> QED BY <1>1 DEF PartsSurvive
<1>3. ASSUME NEW r \in results PROVE OnDisk(r)' /\ \A t \in r.files : finals'[t].whole
  <2>1. r.files \subseteq Targets
    BY Typed DEF SoopInv
  <2>2. \A t \in r.files : finals'[t] = finals[t]
    BY <2>1 DEF SoopInv, ReportedFilesAreKept
  <2>3. OnDisk(r) /\ \A t \in r.files : finals[t].whole
    BY DEF SoopInv, ReportedFilesAreKept
  <2> QED BY <2>2, <2>3 DEF OnDisk
<1> QED BY <1>1, <1>2, <1>3

\* The results of earlier jobs stay while the files of the present job are among those it had.
LEMMA ReportsStay ==
  ASSUME SoopInv, \A t \in Targets : finals[t].whole => finals'[t] = finals[t],
         UNCHANGED <<run, results>>, task'.files \subseteq task.files,
         pc' \in Working => pc \in Working
  PROVE  ReportedFilesAreKept'
<1>1. ASSUME NEW r \in results
      PROVE  /\ r.run <= run /\ (pc' \in Working => r.run < run)
             /\ \A t \in r.files : finals'[t].whole /\ t \notin task'.files
             /\ OnDisk(r)'
  <2>1. r.run <= run /\ (pc \in Working => r.run < run) /\ \A t \in r.files : t \notin task.files
    BY DEF SoopInv, ReportedFilesAreKept
  <2> QED BY <2>1, WholeFilesStay
<1> QED BY <1>1 DEF ReportedFilesAreKept

\* An attempt that failed is followed by another one, or by the end of the job.
LEMMA FailedAttempt ==
  ASSUME SoopInv, pc \in {"authorize", "prepare", "tool"}, NEW e \in BOOLEAN,
         FailAttempt(e, partials[task.target]), UNCHANGED <<source, run, job, cancel, touched>>,
         finals' = finals
  PROVE  /\ pc' \in {"top", "failed"} /\ task' \in Task /\ dirs' \subseteq 1 .. MaxRuns
         /\ partials' \in [Targets -> Part] /\ task'.files \subseteq task.files
         /\ TaskFitsItsPlace' /\ ListIsCovered' /\ FilesAreWhole'
         /\ FragmentsAreOfOneSource' /\ FragmentsAreOfThePart' /\ ToolHasCookies'
<1> DEFINE left == partials[task.target]
           spent == [Budget(left) EXCEPT !.expired = e]
<1>0. pc \in Working /\ pc \in InPart
  BY DEF Working, InPart
<1>1. task \in Task /\ task.target \in Targets /\ left \in Part
  <2>1. task.target \in Parts \X Names
    BY <1>0 DEF SoopInv, TaskFitsItsPlace
  <2>2. task.target \in Targets
    BY <2>1 DEF Targets
  <2> QED BY <2>2, Typed DEF SoopInv
<1>2. CASE spent.failures < MaxRetries
  <2>1. pc' = "top" /\ task' = spent /\ UNCHANGED <<dirs, partials>>
    BY <1>2 DEF FailAttempt, Goto
  <2>2. /\ spent \in Task
        /\ spent.left = task.left /\ spent.part = task.part /\ spent.target = task.target
        /\ spent.files = task.files /\ spent.seen = task.seen
    <3>1. 1 \in 0 .. MaxRetries /\ left.bytes \in 0 .. MaxBytes
      BY <1>1, SoopBounds DEF Part
    <3>2. task.failures \in Nat
      BY <1>1, SoopBounds DEF Task
    <3> DEFINE b == Budget(left)
    <3>3. CASE left.bytes > task.retained
      <4>1. b = [task EXCEPT !.failures = 1, !.retained = left.bytes]
        BY <3>3 DEF Budget
      <4>2. /\ b \in Task
            /\ b.left = task.left /\ b.part = task.part /\ b.target = task.target
            /\ b.files = task.files /\ b.seen = task.seen
        BY <1>1, <3>1, <4>1 DEF Task
      <4>3. spent = [b EXCEPT !.expired = e]
        OBVIOUS
      <4> HIDE DEF b, spent
      <4> QED BY <4>2, <4>3 DEF Task
    <3>4. CASE ~(left.bytes > task.retained)
      <4>1. spent = [[task EXCEPT !.failures = @ + 1] EXCEPT !.expired = e]
        BY <3>4 DEF Budget
      <4>2. task.failures + 1 \in 0 .. MaxRetries
        <5>1. spent.failures = task.failures + 1
          BY <1>1, <4>1 DEF Task
        <5> QED BY <1>2, <3>2, <5>1, SoopBounds
      <4> HIDE DEF spent
      <4> QED BY <1>1, <4>1, <4>2 DEF Task
    <3> QED BY <3>3, <3>4
  <2> HIDE DEF spent
  <2>3. TaskFitsItsPlace'
    BY <1>0, <2>1, <2>2 DEF SoopInv, TaskFitsItsPlace, Working, InPart, InMerge, Saving
  <2>4. ListIsCovered'
    BY <1>0, <2>1, <2>2 DEF SoopInv, ListIsCovered, Working, InPart, InMerge, Saving
  <2>5. FilesAreWhole'
    BY <1>0, <2>1, <2>2 DEF SoopInv, FilesAreWhole, InMerge
  <2>6. FragmentsAreOfOneSource'
    BY <1>0, <2>1, <2>2 DEF SoopInv, FragmentsAreOfOneSource
  <2>7. FragmentsAreOfThePart'
    BY <1>0, <2>1, <2>2 DEF SoopInv, FragmentsAreOfThePart, NoResidue, Working, Ended
  <2>8. ToolHasCookies'
    BY <2>1 DEF ToolHasCookies, At
  <2> QED BY <2>1, <2>2, <2>3, <2>4, <2>5, <2>6, <2>7, <2>8, Typed DEF SoopInv
<1>3. CASE ~(spent.failures < MaxRetries)
  <2>1. End("failed")
    BY <1>3 DEF FailAttempt
  <2>2. "failed" \in Ended
    BY DEF Ended
  <2>3. task'.files \subseteq task.files
    BY <2>1 DEF End, Idle
  <2> QED BY <1>0, <2>1, <2>2, <2>3, EndIsClean
<1> QED BY <1>2, <1>3

----------------------------------------------------------------------------
\* Every step preserves the invariant.

\* Init and Begin: nothing is under way.
LEMMA InitIsSound == Init => SoopInv
<1> SUFFICES ASSUME Init PROVE SoopInv
  OBVIOUS
<1>1. /\ source = 1 /\ run = 0 /\ cancel = FALSE /\ pc = "idle" /\ task = Idle
      /\ job = [saves |-> FALSE, want |-> {}, merge |-> FALSE, account |-> TRUE,
                guarded |-> FALSE]
      /\ jar = EmptyJar /\ cookies = EmptyJar /\ dirs = {}
      /\ finals = [t \in Targets |-> NoFile] /\ partials = [t \in Targets |-> NoPart]
      /\ touched = {} /\ finished = {} /\ results = {}
  BY DEF Init
<1>2. pc \notin Working \cup Ended /\ pc \notin Saving /\ pc \notin InPart /\ pc \notin InMerge
  BY <1>1 DEF Working, Ended, Saving, InPart, InMerge
<1>3. 1 \in Sources /\ 0 \in 0 .. MaxRuns
  BY SoopBounds DEF Sources
<1>4. SoopTypeOK
  BY <1>1, <1>3, Typed, NothingIsTyped
<1>5. task.files = {} /\ task.target = NoTarget
  BY <1>1 DEF Idle
<1>6. \A t \in Targets : partials[t].bytes = 0 /\ partials[t].of = {}
  BY <1>1 DEF NoPart
<1>7. FragmentsAreOfOneSource
  BY <1>2, <1>3, <1>6 DEF FragmentsAreOfOneSource, IsOf
<1>8. TaskFitsItsPlace
  BY <1>1, <1>2 DEF TaskFitsItsPlace
<1>9. ListIsCovered /\ FilesAreWhole
  BY <1>1, <1>2, <1>5 DEF ListIsCovered, FilesAreWhole
<1>10. FragmentsAreOfThePart
  BY <1>2 DEF FragmentsAreOfThePart, NoResidue
<1>11. PartsSurvive /\ ReportedFilesAreKept
  BY <1>1 DEF PartsSurvive, ReportedFilesAreKept
<1>12. ToolHasCookies
  BY <1>1 DEF ToolHasCookies, At
<1> QED BY <1>4, <1>7, <1>8, <1>9, <1>10, <1>11, <1>12 DEF SoopInv

\* A job begins: no fragment on the disk is of another source, unless it may be continued.
LEMMA BeginIsSound == SoopInv /\ Begin => SoopInv'
<1> SUFFICES ASSUME SoopInv, Begin PROVE SoopInv'
  OBVIOUS
<1>1. /\ pc = "idle" /\ run < MaxRuns
      /\ Reuses \/ \A t \in Targets : partials[t].of \subseteq {source} \X Parts
      /\ run' = run + 1 /\ cancel' = FALSE /\ task' = Idle /\ dirs' = dirs \cup {run + 1}
      /\ job' \in [saves : BOOLEAN, want : SUBSET Parts, merge : BOOLEAN, account : BOOLEAN,
                   guarded : BOOLEAN]
      /\ jar' = EmptyJar /\ cookies' = EmptyJar /\ touched' = {} /\ pc' = "login"
      /\ UNCHANGED <<source, finals, partials, finished, results>>
  BY DEF Begin, Goto
<1>2. SoopTypeOK'
  <2>1. run' \in 0 .. MaxRuns /\ dirs' \subseteq 1 .. MaxRuns
    BY <1>1, Typed, SoopBounds DEF SoopInv
  <2>2. pc' \in Working \cup Ended \cup {"idle"}
    BY <1>1 DEF Working
  <2> QED BY <1>1, <2>1, <2>2, Typed, NothingIsTyped DEF SoopInv, SoopTypeOK, File, Part, Task
<1>3. pc' \in Working \ (InPart \cup InMerge) /\ pc' \notin Saving /\ pc' \notin Ended
  BY <1>1 DEF Working, InPart, InMerge, Saving, Ended
<1>4. task'.files = {} /\ task'.target = NoTarget /\ task'.part = None
  BY <1>1 DEF Idle
<1>5. run' >= 1 /\ run' > run
  BY <1>1, Typed, SoopBounds DEF SoopInv
<1>6. TaskFitsItsPlace'
  BY <1>1, <1>3, <1>4, <1>5 DEF TaskFitsItsPlace
<1>7. ListIsCovered' /\ FilesAreWhole'
  BY <1>1, <1>3, <1>4 DEF ListIsCovered, FilesAreWhole, Saving
<1>8. FragmentsAreOfOneSource'
  <2>1. ASSUME ~Reuses, NEW t \in Targets PROVE partials[t].of \subseteq {<<source, t[1]>>}
    <3>1. PICK s \in Sources : partials[t].of \subseteq {<<s, t[1]>>}
      BY <2>1 DEF SoopInv, FragmentsAreOfOneSource, IsOf
    <3>2. partials[t].of \subseteq {source} \X Parts
      BY <1>1, <2>1
    <3> QED BY <3>1, <3>2
  <2>2. \A t \in Targets : t # task'.target
    BY <1>4, TargetsAreNames
  <2> QED BY <1>1, <2>1, <2>2 DEF SoopInv, FragmentsAreOfOneSource
<1>9. FragmentsAreOfThePart'
  BY <1>1, <1>3 DEF FragmentsAreOfThePart, NoResidue
<1>10. PartsSurvive' /\ \A r \in results : OnDisk(r)' /\ \A t \in r.files : finals'[t].whole
  BY <1>1, WholeFilesStay
<1>11. ReportedFilesAreKept'
  <2>1. ASSUME NEW r \in results PROVE r.run < run'
    <3>1. r.run <= run /\ r.run \in Nat
      BY Typed DEF SoopInv, ReportedFilesAreKept
    <3> QED BY <1>1, <1>5, <3>1, Typed, SoopBounds DEF SoopInv
  <2>2. \A r \in results : r.run <= run'
    BY <2>1, Typed, <1>1, SoopBounds DEF SoopInv
  <2> QED BY <1>1, <1>4, <1>10, <2>1, <2>2 DEF ReportedFilesAreKept
<1>12. ToolHasCookies'
  BY <1>1 DEF ToolHasCookies, At
<1> QED BY <1>2, <1>6, <1>7, <1>8, <1>9, <1>10, <1>11, <1>12 DEF SoopInv

\* A step that only moves the task within the same PART or none, and its cookies; fragments may
\* be dropped.
LEMMA MoveOrDropIsSound ==
  ASSUME SoopInv, pc \in Working, pc' \in Working,
         UNCHANGED <<source, run, job, dirs, finals, touched, finished, results>>,
         partials' \in [Targets -> Part],
         \A t \in Targets : partials'[t] = partials[t] \/ partials'[t] = NoPart,
         cancel' \in BOOLEAN, jar' \in Jar, cookies' \in Jar, task' \in Task,
         task'.target = task.target, task'.part = task.part, task'.files = task.files,
         TaskFitsItsPlace', ListIsCovered',
         pc' \in InMerge <=> pc \in InMerge, pc' = "removing" <=> pc = "removing",
         task'.seen = task.seen \/ (task.seen \in {None, source} /\ task'.seen = source),
         pc' = "tool" /\ job.guarded => cookies'.cf # "none"
  PROVE  SoopInv'
<1>1. SoopTypeOK'
  BY Typed DEF SoopInv, SoopTypeOK, File, Part, Task
<1>2. FilesAreWhole'
  BY DEF SoopInv, FilesAreWhole
<1>3. FragmentsAreOfOneSource'
  <2>1. ~Reuses => \A t \in Targets : partials[t].of \subseteq
          {<<IF t = task.target /\ task.seen # None THEN task.seen ELSE source, t[1]>>}
    BY DEF SoopInv, FragmentsAreOfOneSource
  <2>2. \A t \in Targets : IsOf(partials[t], t[1])
    BY DEF SoopInv, FragmentsAreOfOneSource
  <2>3. NoPart.of = {} /\ NoPart.bytes = 0 /\ source \in Sources
    BY Typed DEF NoPart, SoopInv
  <2>4. ASSUME NEW t \in Targets
        PROVE  /\ IsOf(partials'[t], t[1])
               /\ ~Reuses => partials'[t].of \subseteq
                    {<<IF t = task'.target /\ task'.seen # None THEN task'.seen ELSE source', t[1]>>}
    <3>1. CASE partials'[t] = partials[t]
      BY <2>1, <2>2, <3>1
    <3>2. CASE partials'[t] = NoPart
      BY <2>3, <3>2 DEF IsOf
    <3> QED BY <3>1, <3>2
  <2> QED BY <2>4 DEF FragmentsAreOfOneSource
<1>4. FragmentsAreOfThePart'
  <2>1. pc' \notin Ended
    BY DEF Working, Ended
  <2>2. ASSUME NEW t \in touched', t # task'.target PROVE partials'[t] = NoPart
    <3>1. t \in Targets /\ partials[t] = NoPart
      BY <2>2, Typed DEF SoopInv, FragmentsAreOfThePart
    <3> QED BY <3>1
  <2> QED BY <2>1, <2>2 DEF FragmentsAreOfThePart, NoResidue
<1>5. PartsSurvive'
  BY WholeFilesStay
<1>6. ReportedFilesAreKept'
  BY ReportsStay
<1>7. ToolHasCookies'
  BY DEF ToolHasCookies, At
<1> QED BY <1>1, <1>2, <1>3, <1>4, <1>5, <1>6, <1>7 DEF SoopInv

\* The same, with the fragments as they are.
LEMMA MoveIsSound ==
  ASSUME SoopInv, pc \in Working, pc' \in Working,
         UNCHANGED <<source, run, job, dirs, finals, partials, touched, finished, results>>,
         cancel' \in BOOLEAN, jar' \in Jar, cookies' \in Jar, task' \in Task,
         task'.target = task.target, task'.part = task.part, task'.files = task.files,
         TaskFitsItsPlace', ListIsCovered',
         pc' \in InMerge <=> pc \in InMerge, pc' = "removing" <=> pc = "removing",
         task'.seen = task.seen \/ (task.seen \in {None, source} /\ task'.seen = source),
         pc' = "tool" /\ job.guarded => cookies'.cf # "none"
  PROVE  SoopInv'
<1>1. partials' \in [Targets -> Part] /\ partials' = partials
  BY Typed DEF SoopInv
<1> QED BY <1>1, MoveOrDropIsSound

\* The job's function returns, and reports nothing.
LEMMA EndIsSound ==
  ASSUME SoopInv, pc \in Working, NEW how \in Ended, End(how),
         finals' \in [Targets -> File],
         \A t \in Targets : finals[t].whole => finals'[t] = finals[t],
         jar' \in Jar, cookies' \in Jar,
         UNCHANGED <<source, run, job, cancel, touched, finished, results>>
  PROVE  SoopInv'
<1>3. /\ pc' = how /\ task' = Idle /\ task' \in Task /\ dirs' \subseteq 1 .. MaxRuns
      /\ partials' \in [Targets -> Part]
      /\ TaskFitsItsPlace' /\ ListIsCovered' /\ FilesAreWhole'
      /\ FragmentsAreOfOneSource' /\ FragmentsAreOfThePart' /\ ToolHasCookies'
  BY EndIsClean
<1>4. SoopTypeOK'
  BY <1>3, Typed DEF SoopInv, SoopTypeOK, File, Part, Task
<1>5. PartsSurvive'
  BY WholeFilesStay
<1>6. ReportedFilesAreKept'
  BY <1>3, ReportsStay DEF Idle
<1> QED BY <1>3, <1>4, <1>5, <1>6 DEF SoopInv

\* It returns with its files as they are.
LEMMA GoneIsSound ==
  ASSUME SoopInv, pc \in Working, NEW how \in Ended, Gone(how)
  PROVE  SoopInv'
<1>1. /\ End(how)
      /\ UNCHANGED <<source, run, job, cancel, jar, cookies, finals, touched, finished, results>>
  BY DEF Gone, auth
<1>2. jar \in Jar /\ cookies \in Jar /\ finals \in [Targets -> File]
  BY Typed DEF SoopInv
<1> QED BY <1>1, <1>2, EndIsSound

\* An attempt fails, and leaves no final file.
LEMMA FailIsSound ==
  ASSUME SoopInv, pc \in {"authorize", "prepare", "tool"}, NEW e \in BOOLEAN,
         FailAttempt(e, partials[task.target]), jar' \in Jar, cookies' \in Jar,
         UNCHANGED <<source, run, job, cancel, finals, touched, finished, results>>
  PROVE  SoopInv'
<1>1. /\ pc' \in {"top", "failed"} /\ task' \in Task /\ dirs' \subseteq 1 .. MaxRuns
      /\ partials' \in [Targets -> Part] /\ task'.files \subseteq task.files
      /\ TaskFitsItsPlace' /\ ListIsCovered' /\ FilesAreWhole'
      /\ FragmentsAreOfOneSource' /\ FragmentsAreOfThePart' /\ ToolHasCookies'
  BY FailedAttempt
<1>2. pc \in Working /\ pc' \in Working \cup Ended
  BY <1>1 DEF Working, Ended
<1>3. SoopTypeOK'
  BY <1>1, <1>2, Typed DEF SoopInv, SoopTypeOK, File, Part, Task
<1>4. PartsSurvive'
  BY WholeFilesStay
<1>5. ReportedFilesAreKept'
  BY <1>1, <1>2, ReportsStay
<1> QED BY <1>1, <1>3, <1>4, <1>5 DEF SoopInv

\* What an authorization and the opening of a manifest leave in the jar; a private VOD's
\* manifest is opened with fresh signed cookies only.
LEMMA RefreshedJars ==
  ASSUME NEW j \in Jar, NEW r \in RefreshResults(j)
  PROVE  r.jar \in Jar /\ r.ok \in BOOLEAN /\ (r.ok => r.jar.cf = "fresh")
<1>1. [j EXCEPT !.cf = "fresh"] \in Jar /\ [j EXCEPT !.cf = "fresh"].cf = "fresh"
      /\ [j EXCEPT !.cf = "none"] \in Jar
  BY DEF Jar
<1>2. \/ r = [ok |-> TRUE,  jar |-> [j EXCEPT !.cf = "fresh"]]
      \/ r = [ok |-> FALSE, jar |-> [j EXCEPT !.cf = "none"]]
      \/ r = [ok |-> FALSE, jar |-> EmptyJar]
  BY DEF RefreshResults
<1>3. CASE r = [ok |-> TRUE, jar |-> [j EXCEPT !.cf = "fresh"]]
  <2>1. r.ok = TRUE /\ r.jar = [j EXCEPT !.cf = "fresh"]
    BY <1>3
  <2> QED BY <1>1, <2>1
<1>4. CASE r = [ok |-> FALSE, jar |-> [j EXCEPT !.cf = "none"]]
  <2>1. r.ok = FALSE /\ r.jar = [j EXCEPT !.cf = "none"]
    BY <1>4
  <2> QED BY <1>1, <2>1
<1>5. CASE r = [ok |-> FALSE, jar |-> EmptyJar]
  <2>1. r.ok = FALSE /\ r.jar = EmptyJar
    BY <1>5
  <2> QED BY <2>1, NothingIsTyped
<1> QED BY <1>2, <1>3, <1>4, <1>5

\* Opening a manifest; when the server denies it, after one authorization.
LEMMA ProbedJars ==
  ASSUME NEW j \in Jar, NEW r \in Probed(j), job.guarded \in BOOLEAN
  PROVE  r.jar \in Jar /\ (r.ok /\ job.guarded => r.jar.cf = "fresh")
<1>1. CASE \E a \in Probes(j) \ {"denied"} : r = [ok |-> a = "ok", jar |-> j]
  <2>1. PICK a \in Probes(j) \ {"denied"} : r = [ok |-> a = "ok", jar |-> j]
    BY <1>1
  <2>2. r.jar = j /\ (r.ok => a = "ok")
    BY <2>1
  <2>3. a = "ok" /\ job.guarded => j.cf = "fresh"
    BY DEF Probes
  <2> QED BY <2>2, <2>3
<1>2. CASE r = [ok |-> FALSE, jar |-> j]
  BY <1>2
<1>3. CASE \E s \in RefreshResults(j), a \in {"ok", "error"} :
             r = [ok |-> s.ok /\ a = "ok", jar |-> s.jar]
  <2>1. PICK s \in RefreshResults(j), a \in {"ok", "error"} :
               r = [ok |-> s.ok /\ a = "ok", jar |-> s.jar]
    BY <1>3
  <2>2. r.jar = s.jar /\ r.ok = (s.ok /\ a = "ok")
    BY <2>1
  <2>3. s.jar \in Jar /\ (s.ok => s.jar.cf = "fresh")
    BY RefreshedJars
  <2> QED BY <2>2, <2>3
<1>4. \/ \E a \in Probes(j) \ {"denied"} : r = [ok |-> a = "ok", jar |-> j]
      \/ r = [ok |-> FALSE, jar |-> j]
      \/ \E s \in RefreshResults(j), a \in {"ok", "error"} :
           r = [ok |-> s.ok /\ a = "ok", jar |-> s.jar]
  <2>1. CASE "denied" \notin Probes(j)
    BY <2>1 DEF Probed
  <2>2. CASE "denied" \in Probes(j) /\ ~j.login
    BY <2>2 DEF Probed
  <2>3. CASE "denied" \in Probes(j) /\ j.login
    BY <2>3 DEF Probed
  <2> QED BY <2>1, <2>2, <2>3
<1> QED BY <1>1, <1>2, <1>3, <1>4

\* Opening it with signed cookies from the start when the VOD is private.
LEMMA PreparedJars ==
  ASSUME SoopTypeOK, NEW r \in PrepareResults(jar)
  PROVE  r.jar \in Jar /\ (r.ok /\ job.guarded => r.jar.cf = "fresh")
<1>1. jar \in Jar /\ job.guarded \in BOOLEAN
  BY Typed
<1>2. CASE r \in Probed(jar)
  BY <1>1, <1>2, ProbedJars
<1>3. CASE r = [ok |-> FALSE, jar |-> jar]
  BY <1>1, <1>3
<1>4. CASE r \in RefreshResults(jar) /\ ~r.ok
  BY <1>1, <1>4, RefreshedJars
<1>5. CASE \E s \in RefreshResults(jar) : s.ok /\ r \in Probed(s.jar)
  <2>1. PICK s \in RefreshResults(jar) : s.ok /\ r \in Probed(s.jar)
    BY <1>5
  <2>2. s.jar \in Jar
    BY <1>1, RefreshedJars
  <2> QED BY <1>1, <2>1, <2>2, ProbedJars
<1>6. \/ r \in Probed(jar) \/ r = [ok |-> FALSE, jar |-> jar]
      \/ (r \in RefreshResults(jar) /\ ~r.ok)
      \/ \E s \in RefreshResults(jar) : s.ok /\ r \in Probed(s.jar)
  <2>1. CASE task.private /\ jar.cf = "none" /\ ~jar.login
    BY <2>1 DEF PrepareResults
  <2>2. CASE task.private /\ jar.cf = "none" /\ jar.login
    BY <2>2 DEF PrepareResults
  <2>3. CASE ~(task.private /\ jar.cf = "none")
    BY <2>3 DEF PrepareResults
  <2> QED BY <2>1, <2>2, <2>3
<1> QED BY <1>2, <1>3, <1>4, <1>5, <1>6

\* Cookies at the start, and before a further attempt.
LEMMA GetCookiesIsSound == SoopInv /\ (Login \/ Renew) => SoopInv'
<1> SUFFICES ASSUME SoopInv, Login \/ Renew PROVE SoopInv'
  OBVIOUS
<1>0. pc \in Working /\ "failed" \in Ended
  BY DEF Login, Renew, GetCookies, At, Working, Ended
<1>1. CASE Gone("failed")
  BY <1>0, <1>1, GoneIsSound
<1>2. CASE ~Gone("failed")
  <2>1. /\ (pc = "login" /\ pc' = "listing") \/ (pc = "renew" /\ pc' = "refresh")
        /\ UNCHANGED <<source, run, job, cancel, task, dirs, finals, partials, touched, finished,
                       results>>
        /\ \E j \in BaseJars : jar' = j /\ cookies' = j
    BY <1>2 DEF Login, Renew, GetCookies, At, Step, Goto, files
  <2>2. BaseJars \subseteq Jar
    <3>1. [login |-> TRUE, cf |-> "none"] \in Jar
      BY DEF Jar
    <3> QED BY <3>1 DEF BaseJars
  <2>3. task \in Task /\ cancel \in BOOLEAN
    BY Typed DEF SoopInv
  <2>4. TaskFitsItsPlace'
    BY <2>1 DEF SoopInv, TaskFitsItsPlace, Working, InPart, InMerge, Saving
  <2>5. ListIsCovered'
    BY <2>1 DEF SoopInv, ListIsCovered, Working, InPart, InMerge, Saving
  <2>6. /\ pc' \in Working /\ pc' \notin InMerge /\ pc \notin InMerge /\ pc' # "tool"
        /\ pc' # "removing" /\ pc # "removing"
    BY <2>1 DEF Working, InMerge
  <2>7. jar' \in Jar /\ cookies' \in Jar
    BY <2>1, <2>2
  <2> QED BY <1>0, <2>1, <2>3, <2>4, <2>5, <2>6, <2>7, MoveIsSound
<1> QED BY <1>1, <1>2

\* The PART list, at the start and before an attempt.
LEMMA ListsAreTyped ==
  ASSUME NEW l \in {l \in Lists : l.ok}
  PROVE  l.private \in BOOLEAN
<1>1. \A e, a : Privacy(e, a) \subseteq BOOLEAN
  BY DEF Privacy
<1>2. l # [ok |-> FALSE]
  OBVIOUS
<1>3. PICK e, a : \E p \in Privacy(e, a) : l = [ok |-> TRUE, private |-> p]
  BY <1>2 DEF Lists
<1> QED BY <1>1, <1>3

\* What yt-dlp leaves in cookies.txt is a jar.
LEMMA ExtractedCookies ==
  ASSUME NEW c \in Jar, NEW d \in Extracted(c)
  PROVE  d \in Jar
BY DEF Extracted, Jar

\* The first PART list.
LEMMA MetadataIsSound == SoopInv /\ Metadata => SoopInv'
<1> SUFFICES ASSUME SoopInv, Metadata PROVE SoopInv'
  OBVIOUS
<1>0. pc = "listing" /\ pc \in Working /\ "failed" \in Ended
  BY DEF Metadata, At, Working, Ended
<1>1. CASE Gone("failed")
  BY <1>0, <1>1, GoneIsSound
<1>2. CASE ~Gone("failed")
  <2>1. PICK c \in Extracted(cookies), l \in {l \in Lists : l.ok} :
          /\ jar' = c /\ cookies' = c
          /\ task' = [task EXCEPT !.left = job.want, !.private = l.private]
          /\ Step(IF job.saves THEN "select" ELSE "analyse")
    BY <1>2 DEF Metadata
  <2>2. /\ pc' = IF job.saves THEN "select" ELSE "analyse"
        /\ UNCHANGED <<source, run, job, cancel, dirs, finals, partials, touched, finished,
                       results>>
    BY <2>1 DEF Step, Goto, files
  <2>3. /\ task \in Task /\ cancel \in BOOLEAN /\ cookies \in Jar /\ job.want \subseteq Parts
        /\ job.saves \in BOOLEAN
    BY Typed DEF SoopInv
  <2>4. jar' \in Jar /\ cookies' \in Jar
    BY <2>1, <2>3, ExtractedCookies
  <2>5. l.private \in BOOLEAN
    BY ListsAreTyped
  <2>6. /\ task' \in Task /\ task'.left = job.want /\ task'.part = task.part
        /\ task'.target = task.target /\ task'.files = task.files /\ task'.seen = task.seen
    BY <2>1, <2>3, <2>5 DEF Task
  <2>7. task.files = {} /\ task.part = None /\ task.target = NoTarget
    BY <1>0 DEF SoopInv, TaskFitsItsPlace, InPart, InMerge, Working
  <2>8. pc' \in {"select", "analyse"} /\ (pc' = "select" <=> job.saves)
    BY <2>2, <2>3
  <2>9. /\ pc' \in Working /\ pc' \notin InMerge \cup InPart /\ pc \notin InMerge /\ pc' # "tool"
        /\ pc' # "removing" /\ pc # "removing" /\ (pc' \in Saving <=> pc' = "select")
        /\ pc' \notin {"merge", "authorize", "prepare", "tool"}
    BY <1>0, <2>8 DEF Working, InMerge, InPart, Saving
  <2>10. TaskFitsItsPlace'
    <3>1. run >= 1
      BY <1>0 DEF SoopInv, TaskFitsItsPlace
    <3> QED BY <2>2, <2>6, <2>7, <2>8, <2>9, <3>1 DEF TaskFitsItsPlace
  <2>11. ListIsCovered'
    <3>1. None \notin job.want
      BY <2>3, TargetsAreNames
    <3> QED BY <2>2, <2>6, <2>7, <2>9, <3>1 DEF ListIsCovered
  <2> QED BY <1>0, <2>2, <2>3, <2>4, <2>6, <2>9, <2>10, <2>11, MoveIsSound
<1> QED BY <1>1, <1>2

\* The list before an attempt, with the source the PART is resumed from.
LEMMA RefreshIsSound == SoopInv /\ Refresh => SoopInv'
<1> SUFFICES ASSUME SoopInv, Refresh PROVE SoopInv'
  OBVIOUS
<1>0. pc = "refresh" /\ pc \in Working /\ "failed" \in Ended
  BY DEF Refresh, At, Working, Ended
<1>1. CASE Gone("failed")
  BY <1>0, <1>1, GoneIsSound
<1>2. CASE ~Gone("failed")
  <2>1. PICK c \in Extracted(cookies), l \in {l \in Lists : l.ok} :
          /\ SameIdentity /\ jar' = c /\ cookies' = c
          /\ task' = [task EXCEPT !.seen = source, !.private = l.private]
          /\ Step("authorize")
    BY <1>2 DEF Refresh
  <2>2. /\ pc' = "authorize" /\ task.seen \in {None, source}
        /\ UNCHANGED <<source, run, job, cancel, dirs, finals, partials, touched, finished,
                       results>>
    BY <2>1 DEF Step, Goto, files, SameIdentity
  <2>3. task \in Task /\ cancel \in BOOLEAN /\ cookies \in Jar /\ source \in Sources
    BY Typed DEF SoopInv
  <2>4. jar' \in Jar /\ cookies' \in Jar
    BY <2>1, <2>3, ExtractedCookies
  <2>5. l.private \in BOOLEAN
    BY ListsAreTyped
  <2>6. /\ task' \in Task /\ task'.left = task.left /\ task'.part = task.part
        /\ task'.target = task.target /\ task'.files = task.files /\ task'.seen = source
    BY <2>1, <2>3, <2>5 DEF Task
  <2>7. source # None
    BY <2>3 DEF Sources, None
  <2>8. TaskFitsItsPlace'
    BY <1>0, <2>2, <2>6, <2>7 DEF SoopInv, TaskFitsItsPlace, Working, InPart, InMerge, Saving
  <2>9. ListIsCovered'
    BY <1>0, <2>2, <2>6 DEF SoopInv, ListIsCovered, Working, InPart, InMerge, Saving
  <2>10. /\ pc' \in Working /\ pc' \notin InMerge /\ pc \notin InMerge /\ pc' # "tool"
         /\ pc' # "removing" /\ pc # "removing"
    BY <1>0, <2>2 DEF Working, InMerge
  <2> QED BY <1>0, <2>2, <2>3, <2>4, <2>6, <2>8, <2>9, <2>10, MoveIsSound
<1> QED BY <1>1, <1>2

\* An analysis ends.
LEMMA AnalyseIsSound == SoopInv /\ Analyse => SoopInv'
<1> SUFFICES ASSUME SoopInv, Analyse PROVE SoopInv'
  OBVIOUS
<1>1. PICK r \in PrepareResults(jar) :
        /\ jar' = r.jar
        /\ IF r.ok THEN cookies' = r.jar /\ End("published") ELSE UNCHANGED cookies /\ End("failed")
  BY DEF Analyse
<1>2. /\ pc \in Working /\ "failed" \in Ended /\ "published" \in Ended
      /\ UNCHANGED <<source, run, job, cancel, finals, touched, finished, results>>
  BY DEF Analyse, At, Working, Ended
<1>3. cookies \in Jar /\ finals \in [Targets -> File]
  BY Typed DEF SoopInv
<1>4. r.jar \in Jar
  BY PreparedJars DEF SoopInv
<1>5. cookies' \in Jar /\ jar' \in Jar
  BY <1>1, <1>3, <1>4
<1> QED BY <1>1, <1>2, <1>3, <1>5, EndIsSound

\* The next PART gets a name nothing occupies.
LEMMA SelectPartIsSound == SoopInv /\ SelectPart => SoopInv'
<1> SUFFICES ASSUME SoopInv, SelectPart PROVE SoopInv'
  OBVIOUS
<1> DEFINE p == Min(task.left)
           cp == CollisionPath(p)
<1>0. pc = "select" /\ pc \in Working /\ {"returned", "failed"} \subseteq Ended /\ task.left # {}
  BY DEF SelectPart, At, Working, Ended
<1>1. CASE Gone("returned") \/ Gone("failed")
  BY <1>0, <1>1, GoneIsSound
<1>2. CASE ~(Gone("returned") \/ Gone("failed"))
  <2>1. /\ FreeNames(p) # {}
        /\ task' = [Idle EXCEPT !.left = task.left \ {p}, !.part = p, !.files = task.files,
                                !.target = cp]
        /\ touched' = touched \cup {cp} /\ pc' = "top"
        /\ UNCHANGED <<source, run, job, cancel, dirs, jar, cookies, finals, partials, finished,
                       results>>
    BY <1>2 DEF SelectPart, Goto, auth
  <2>2. p \in task.left /\ p \in Parts
    BY <1>0, NextPart DEF SoopInv
  <2>3. /\ cp \in {p} \X Names /\ cp \in Targets /\ cp[1] = p /\ cp # NoTarget
        /\ finals[cp] = NoFile
    BY <2>1, <2>2, NameIsFree
  <2> HIDE DEF p, cp
  <2>4. task \in Task
    BY Typed DEF SoopInv
  <2>5. /\ task' \in Task /\ task'.left = task.left \ {p} /\ task'.part = p
        /\ task'.files = task.files /\ task'.target = cp /\ task'.seen = None
    <3>1. task.left \ {p} \subseteq Parts /\ task.files \subseteq Targets
      BY <2>4 DEF Task
    <3>2. Idle \in Task /\ Idle.seen = None
      BY NothingIsTyped DEF Idle
    <3> HIDE DEF Idle
    <3> QED BY <2>1, <2>2, <2>3, <3>1, <3>2 DEF Task
  <2>6. SoopTypeOK'
    <3>1. pc' \in Working
      BY <2>1 DEF Working
    <3> QED BY <2>1, <2>3, <2>5, <3>1, Typed DEF SoopInv, SoopTypeOK, File, Part, Task
  <2>7. TaskFitsItsPlace'
    <3>1. cp \in Parts \X Names /\ finals'[cp] = NoFile
      BY <2>1, <2>2, <2>3
    <3>2. run >= 1 /\ job.saves
      BY <1>0 DEF SoopInv, TaskFitsItsPlace, Saving
    <3>3. /\ pc' \in Working /\ pc' \in InPart /\ pc' \in Saving /\ pc' \notin InMerge
          /\ pc' \notin {"authorize", "prepare", "tool", "login", "listing", "analyse"}
      BY <2>1 DEF Working, InPart, InMerge, Saving
    <3> QED BY <2>1, <2>3, <2>5, <3>1, <3>2, <3>3 DEF TaskFitsItsPlace
  <2>8. ListIsCovered'
    <3>1. /\ pc \in Saving \ InMerge /\ pc' \in Saving \ InMerge /\ pc' \in InPart
          /\ pc' # "merge"
      BY <1>0, <2>1 DEF Saving, InPart, InMerge
    <3>2. /\ task.left \subseteq job.want
          /\ \A t \in task.files : t[1] \in job.want \ task.left
          /\ \A t, u \in task.files : t[1] = u[1] => t = u
          /\ \A q \in job.want : q \in task.left \/ q = task.part \/ \E t \in task.files : t[1] = q
      BY <3>1 DEF SoopInv, ListIsCovered
    <3>3. task.part = None /\ None \notin job.want
      <4>1. job.want \subseteq Parts
        BY Typed DEF SoopInv
      <4>2. task.part = None
        BY <1>0 DEF SoopInv, TaskFitsItsPlace, InPart, InMerge, Working
      <4> QED BY <4>1, <4>2, TargetsAreNames
    <3> QED BY <2>1, <2>2, <2>5, <3>1, <3>2, <3>3 DEF ListIsCovered
  <2>9. FilesAreWhole'
    <3>1. pc' \notin InMerge
      BY <2>1 DEF InMerge
    <3> QED BY <2>1, <2>5, <3>1 DEF SoopInv, FilesAreWhole
  <2>10. task.target = NoTarget /\ \A t \in Targets : t # task.target
    BY <1>0, TargetsAreNames DEF SoopInv, TaskFitsItsPlace, InPart, InMerge, Working
  <2>11. FragmentsAreOfOneSource'
    <3>1. ~Reuses => \A t \in Targets : partials[t].of \subseteq {<<source, t[1]>>}
      BY <1>0, <2>10 DEF SoopInv, FragmentsAreOfOneSource
    <3> QED BY <2>1, <2>5, <3>1 DEF SoopInv, FragmentsAreOfOneSource
  <2>12. FragmentsAreOfThePart'
    <3>1. \A t \in touched : partials[t] = NoPart
      BY <1>0, <2>10, Typed DEF SoopInv, FragmentsAreOfThePart
    <3>2. pc' \notin Ended
      BY <2>1 DEF Ended
    <3> QED BY <2>1, <2>5, <3>1, <3>2 DEF FragmentsAreOfThePart, NoResidue
  <2>13. PartsSurvive'
    BY <2>1, WholeFilesStay
  <2>14. ReportedFilesAreKept'
    BY <1>0, <2>1, <2>5, ReportsStay
  <2>15. ToolHasCookies'
    BY <2>1 DEF ToolHasCookies, At
  <2> QED BY <2>6, <2>7, <2>8, <2>9, <2>11, <2>12, <2>13, <2>14, <2>15 DEF SoopInv
<1> QED BY <1>1, <1>2

\* The top of the attempt loop.
LEMMA AttemptIsSound == SoopInv /\ Attempt => SoopInv'
<1> SUFFICES ASSUME SoopInv, Attempt PROVE SoopInv'
  OBVIOUS
<1>0. pc = "top" /\ pc \in Working /\ "returned" \in Ended
  BY DEF Attempt, At, Working, Ended
<1>1. CASE Gone("returned")
  BY <1>0, <1>1, GoneIsSound
<1>2. CASE ~Gone("returned")
  <2>1. /\ pc' \in {"renew", "refresh"} /\ task' = [task EXCEPT !.again = TRUE]
        /\ UNCHANGED <<source, run, job, cancel, dirs, jar, cookies, finals, partials, touched,
                       finished, results>>
    BY <1>2 DEF Attempt, Step, Goto, files, auth
  <2>2. task \in Task /\ cancel \in BOOLEAN /\ jar \in Jar /\ cookies \in Jar
    BY Typed DEF SoopInv
  <2>3. /\ task' \in Task /\ task'.left = task.left /\ task'.part = task.part
        /\ task'.target = task.target /\ task'.files = task.files /\ task'.seen = task.seen
    BY <2>1, <2>2 DEF Task
  <2>4. TaskFitsItsPlace'
    BY <1>0, <2>1, <2>3 DEF SoopInv, TaskFitsItsPlace, Working, InPart, InMerge, Saving
  <2>5. ListIsCovered'
    BY <1>0, <2>1, <2>3 DEF SoopInv, ListIsCovered, Working, InPart, InMerge, Saving
  <2>6. /\ pc' \in Working /\ pc' \notin InMerge /\ pc \notin InMerge /\ pc' # "tool"
        /\ pc' # "removing" /\ pc # "removing"
    BY <1>0, <2>1 DEF Working, InMerge
  <2> QED BY <1>0, <2>1, <2>2, <2>3, <2>4, <2>5, <2>6, MoveIsSound
<1> QED BY <1>1, <1>2

\* Signed cookies after an expired authorization.
LEMMA AuthorizeIsSound == SoopInv /\ Authorize => SoopInv'
<1> SUFFICES ASSUME SoopInv, Authorize PROVE SoopInv'
  OBVIOUS
<1>0. /\ pc = "authorize" /\ pc \in Working
      /\ UNCHANGED <<source, run, job, cancel, cookies, finals, touched, finished, results>>
  BY DEF Authorize, At, Working
<1>1. task \in Task /\ cancel \in BOOLEAN /\ cookies \in Jar /\ jar \in Jar
  BY Typed DEF SoopInv
<1>2. CASE FailAttempt(task.expired, partials[task.target]) /\ jar' \in Jar
  <2>1. task.expired \in BOOLEAN
    BY <1>1 DEF Task
  <2> QED BY <1>0, <1>1, <1>2, <2>1, FailIsSound
<1>3. CASE pc' = "prepare" /\ UNCHANGED <<task, dirs, partials>> /\ jar' \in Jar
  <2>4. TaskFitsItsPlace'
    BY <1>0, <1>3 DEF SoopInv, TaskFitsItsPlace, Working, InPart, InMerge, Saving
  <2>5. ListIsCovered'
    BY <1>0, <1>3 DEF SoopInv, ListIsCovered, Working, InPart, InMerge, Saving
  <2>6. /\ pc' \in Working /\ pc' \notin InMerge /\ pc \notin InMerge /\ pc' # "tool"
        /\ pc' # "removing" /\ pc # "removing"
    BY <1>0, <1>3 DEF Working, InMerge
  <2> QED BY <1>0, <1>1, <1>3, <2>4, <2>5, <2>6, MoveIsSound
<1>4. \/ FailAttempt(task.expired, partials[task.target]) /\ jar' \in Jar
      \/ pc' = "prepare" /\ UNCHANGED <<task, dirs, partials>> /\ jar' \in Jar
  <2>1. CASE task.expired /\ task.private /\ jar.login
    <3>1. PICK r \in RefreshResults(jar) :
             /\ jar' = r.jar
             /\ IF r.ok THEN pc' = "prepare" /\ UNCHANGED <<task, dirs, partials>>
                ELSE FailAttempt(task.expired, partials[task.target])
      BY <2>1 DEF Authorize, Goto
    <3>2. r.jar \in Jar
      BY <1>1, RefreshedJars
    <3> QED BY <3>1, <3>2
  <2>2. CASE ~(task.expired /\ task.private /\ jar.login)
    BY <1>1, <2>2 DEF Authorize, Goto
  <2> QED BY <2>1, <2>2
<1> QED BY <1>2, <1>3, <1>4

\* The manifest, and the start of the tool.
LEMMA PrepareIsSound == SoopInv /\ Prepare => SoopInv'
<1> SUFFICES ASSUME SoopInv, Prepare PROVE SoopInv'
  OBVIOUS
<1>0. /\ pc = "prepare" /\ pc \in Working
      /\ UNCHANGED <<source, run, job, cancel, finals, touched, finished, results>>
  BY DEF Prepare, At, Working
<1>1. task \in Task /\ cancel \in BOOLEAN /\ cookies \in Jar /\ partials \in [Targets -> Part]
  BY Typed DEF SoopInv
<1>2. PICK r \in PrepareResults(jar) :
        /\ jar' = r.jar
        /\ \/ /\ r.ok /\ cookies' = r.jar /\ pc' = "tool" /\ UNCHANGED <<task, dirs>>
              /\ partials' = partials \/ partials' = [partials EXCEPT ![task.target] = NoPart]
           \/ /\ ~r.ok /\ UNCHANGED cookies
              /\ FailAttempt(task.expired, partials[task.target])
  BY DEF Prepare, CookiesAfter, Goto
<1>3. r.jar \in Jar /\ (r.ok /\ job.guarded => r.jar.cf = "fresh")
  BY PreparedJars DEF SoopInv
<1>4. CASE UNCHANGED cookies /\ FailAttempt(task.expired, partials[task.target])
  <2>1. task.expired \in BOOLEAN
    BY <1>1 DEF Task
  <2> QED BY <1>0, <1>1, <1>2, <1>3, <1>4, <2>1, FailIsSound
<1>5. CASE /\ r.ok /\ cookies' = r.jar /\ pc' = "tool" /\ UNCHANGED <<task, dirs>>
           /\ partials' = partials \/ partials' = [partials EXCEPT ![task.target] = NoPart]
  <2>1. /\ partials' \in [Targets -> Part]
        /\ \A t \in Targets : partials'[t] = partials[t] \/ partials'[t] = NoPart
    BY <1>1, <1>5, NothingIsTyped
  <2>4. TaskFitsItsPlace'
    BY <1>0, <1>5 DEF SoopInv, TaskFitsItsPlace, Working, InPart, InMerge, Saving
  <2>5. ListIsCovered'
    BY <1>0, <1>5 DEF SoopInv, ListIsCovered, Working, InPart, InMerge, Saving
  <2>6. /\ pc' \in Working /\ pc' \notin InMerge /\ pc \notin InMerge
        /\ pc' # "removing" /\ pc # "removing"
    BY <1>0, <1>5 DEF Working, InMerge
  <2>7. job.guarded => cookies'.cf # "none"
    BY <1>3, <1>5
  <2> QED BY <1>0, <1>1, <1>2, <1>3, <1>5, <2>1, <2>4, <2>5, <2>6, <2>7, MoveOrDropIsSound
<1> QED BY <1>2, <1>4, <1>5

\* The tool's target has no final file, so that removing it changes nothing.
LEMMA NothingToRemove ==
  ASSUME SoopInv, pc = "tool"
  PROVE  [finals EXCEPT ![task.target] = NoFile] = finals
<1>1. task.target \in Parts \X Names /\ finals[task.target] = NoFile
  BY DEF SoopInv, TaskFitsItsPlace, InPart
<1>2. task.target \in Targets /\ finals \in [Targets -> File]
  BY <1>1, Typed DEF SoopInv, Targets
<1> QED BY <1>1, <1>2

\* The tool is terminated.
LEMMA TerminateIsSound == SoopInv /\ Terminate => SoopInv'
<1> SUFFICES ASSUME SoopInv, Terminate PROVE SoopInv'
  OBVIOUS
<1>0. pc = "tool" /\ pc \in Working /\ "returned" \in Ended
  BY DEF Terminate, At, Working, Ended
<1>1. CASE Gone("returned")
  BY <1>0, <1>1, GoneIsSound
<1>2. CASE ~Gone("returned")
  <2>1. /\ FailAttempt(FALSE, partials[task.target])
        /\ UNCHANGED <<source, run, job, cancel, jar, cookies, finals, touched, finished, results>>
    BY <1>0, <1>2, NothingToRemove DEF Terminate, auth
  <2>2. jar \in Jar /\ cookies \in Jar /\ FALSE \in BOOLEAN
    BY Typed DEF SoopInv
  <2> QED BY <1>0, <2>1, <2>2, FailIsSound
<1> QED BY <1>1, <1>2

\* The tool fails.
LEMMA ToolFailsIsSound == SoopInv /\ ToolFails => SoopInv'
<1> SUFFICES ASSUME SoopInv, ToolFails PROVE SoopInv'
  OBVIOUS
<1>0. pc = "tool"
  BY DEF ToolFails, At
<1>1. PICK expired \in BOOLEAN : FailAttempt(expired, partials[task.target])
  BY DEF ToolFails
<1>2. UNCHANGED <<source, run, job, cancel, jar, cookies, finals, touched, finished, results>>
  BY <1>0, NothingToRemove DEF ToolFails, FailedFinals, auth
<1>3. jar \in Jar /\ cookies \in Jar
  BY Typed DEF SoopInv
<1> QED BY <1>0, <1>1, <1>2, <1>3, FailIsSound

\* A set of pieces is finite; a whole file of one piece holds its PART.
LEMMA FinitePieces == IsFiniteSet(Pieces) /\ \A S \in SUBSET Pieces : IsFiniteSet(S)
<1>1. IsFiniteSet(Sources)
  BY SoopBounds, FS_Interval DEF Sources
<1>2. IsFiniteSet(Pieces)
  BY <1>1, SoopBounds, FS_Product DEF Pieces
<1> QED BY <1>2, FS_Subset

\* A whole file of its PART holds it.
LEMMA OnePiece ==
  ASSUME NEW file, file.whole, NEW p, file.of # {}, file.of \subseteq Sources \X {p},
         ~Reuses => \E s : file.of \subseteq {<<s, p>>}
  PROVE  Holds(file, {p})
<1>1. {x[2] : x \in file.of} = {p}
  OBVIOUS
<1>2. ASSUME ~Reuses PROVE Cardinality(file.of) = Cardinality({p})
  <2>1. PICK s : file.of \subseteq {<<s, p>>}
    BY <1>2
  <2>2. file.of = {<<s, p>>}
    BY <2>1
  <2>3. Cardinality({p}) = 1 /\ Cardinality({<<s, p>>}) = 1
    BY FS_Singleton
  <2> QED BY <2>2, <2>3
<1> QED BY <1>1, <1>2 DEF Holds

\* What the files of a job hold together: each PART it wants and, where no job
\* continues what a crash left of another source, one piece of each.
LEMMA MergedPieces ==
  ASSUME SoopInv, pc = "merge", NEW all, all = UNION {finals[f].of : f \in task.files}
  PROVE  /\ all \subseteq Pieces
         /\ {p[2] : p \in all} = job.want
         /\ ~Reuses => Cardinality(all) = Cardinality(job.want)
         /\ \A t \in task.files : finals[t].of \subseteq all
<1>0. /\ finals \in [Targets -> File] /\ job.want \subseteq Parts /\ task.files \subseteq Targets
      /\ \A t \in task.files : Holds(finals[t], {t[1]}) /\ t[1] \in job.want
      /\ \A t, u \in task.files : t[1] = u[1] => t = u
      /\ \A p \in job.want : \E t \in task.files : t[1] = p
  <2>1. pc \in Saving \ InMerge /\ pc \in Working \ (InPart \cup InMerge)
    BY DEF Saving, InMerge, InPart, Working
  <2>2. job.want \subseteq Parts /\ task.files \subseteq Targets /\ finals \in [Targets -> File]
    BY Typed DEF SoopInv, Task
  <2>3. task.part \notin job.want /\ task.left = {}
    BY <2>1, <2>2, TargetsAreNames DEF SoopInv, TaskFitsItsPlace, ListIsCovered
  <2> QED BY <2>1, <2>2, <2>3 DEF SoopInv, ListIsCovered, FilesAreWhole
<1>1. all \subseteq Pieces /\ \A t \in task.files : finals[t].of \subseteq all
  BY <1>0 DEF File
<1>2. \A t \in task.files : {x[2] : x \in finals[t].of} = {t[1]}
  BY <1>0 DEF Holds
<1>3. ASSUME NEW x \in all PROVE \E t \in task.files : x \in finals[t].of /\ x[2] = t[1]
  <2>1. PICK t \in task.files : x \in finals[t].of
    OBVIOUS
  <2>2. x[2] \in {y[2] : y \in finals[t].of}
    BY <2>1
  <2>3. x[2] = t[1]
    BY <1>2, <2>2
  <2> QED BY <2>1, <2>3
<1>4. \A x \in all : x[2] \in job.want
  BY <1>0, <1>3
<1>5. ASSUME NEW p \in job.want PROVE \E x \in all : x[2] = p
  <2>1. PICK t \in task.files : t[1] = p
    BY <1>0
  <2>2. p \in {x[2] : x \in finals[t].of}
    BY <1>2, <2>1
  <2> QED BY <1>1, <2>2
<1>6. ASSUME ~Reuses PROVE Cardinality(all) = Cardinality(job.want)
  <2>1. ASSUME NEW t \in task.files PROVE \E x : finals[t].of = {x}
    <3>1. finals[t].of \in SUBSET Pieces
      BY <1>0 DEF File
    <3>2. Cardinality(finals[t].of) = Cardinality({t[1]})
      BY <1>0, <1>6 DEF Holds
    <3>3. IsFiniteSet(finals[t].of) /\ Cardinality(finals[t].of) = 1
      BY <3>1, <3>2, FinitePieces, FS_Singleton
    <3> QED BY <3>3, FS_Singleton
  <2>2. ASSUME NEW x \in all, NEW y \in all, x[2] = y[2] PROVE x = y
    <3>1. PICK t \in task.files : x \in finals[t].of /\ x[2] = t[1]
      BY <1>3
    <3>2. PICK u \in task.files : y \in finals[u].of /\ y[2] = u[1]
      BY <1>3
    <3>3. t = u
      BY <1>0, <2>2, <3>1, <3>2
    <3>4. PICK z : finals[t].of = {z}
      BY <2>1
    <3> QED BY <3>1, <3>2, <3>3, <3>4
  <2>3. IsFiniteSet(all)
    BY <1>1, FinitePieces
  <2> DEFINE f == [x \in all |-> x[2]]
  <2>4. f \in Surjection(all, job.want) /\ f \in Injection(all, job.want)
    <3>1. f \in [all -> job.want]
      BY <1>4
    <3>2. \A p \in job.want : \E x \in all : f[x] = p
      BY <1>5
    <3>3. \A x, y \in all : f[x] = f[y] => x = y
      BY <2>2
    <3> HIDE DEF f
    <3> QED BY <3>1, <3>2, <3>3 DEF Surjection, Injection, IsInjective
  <2> QED BY <2>3, <2>4, FS_Surjection
<1>7. {p[2] : p \in all} = job.want
  BY <1>4, <1>5
<1> QED BY <1>1, <1>6, <1>7

\* A job that ends COMPLETED, with its media on the disk.
LEMMA PublishIsSound ==
  ASSUME SoopInv, pc \in Working, NEW outputs \in SUBSET Targets, Publish(outputs),
         \A t \in outputs : finals[t].whole,
         OnDisk([run |-> run, files |-> outputs, parts |-> job.want]),
         UNCHANGED <<source, run, job, cancel, jar, cookies, finals, touched, finished>>
  PROVE  SoopInv'
<1>0. PICK new : new = [run |-> run, files |-> outputs, parts |-> job.want]
  OBVIOUS
<1>1. End("published") /\ results' = results \cup {new} /\ "published" \in Ended
  BY <1>0 DEF Publish, Ended
<1>2. /\ pc' = "published" /\ task' = Idle /\ task' \in Task /\ dirs' \subseteq 1 .. MaxRuns
      /\ partials' \in [Targets -> Part]
      /\ TaskFitsItsPlace' /\ ListIsCovered' /\ FilesAreWhole'
      /\ FragmentsAreOfOneSource' /\ FragmentsAreOfThePart' /\ ToolHasCookies'
  BY <1>1, EndIsClean
<1>3. run \in 1 .. MaxRuns /\ run <= run
  <2>1. run >= 1
    BY DEF SoopInv, TaskFitsItsPlace
  <2> QED BY <2>1, Typed, SoopBounds DEF SoopInv
<1>4. new \in [run : 1 .. MaxRuns, files : SUBSET Targets, parts : SUBSET Parts]
  BY <1>0, <1>3, Typed DEF SoopInv
<1>5. SoopTypeOK'
  BY <1>1, <1>2, <1>4, Typed DEF SoopInv, SoopTypeOK, File, Part, Task
<1>6. PartsSurvive'
  BY WholeFilesStay
<1>7. task'.files = {} /\ pc' \notin Working
  BY <1>2 DEF Idle, Working
<1>8. new.run = run /\ new.files = outputs /\ OnDisk(new)'
  BY <1>0 DEF OnDisk
<1>9. \A r \in results : OnDisk(r)' /\ (\A t \in r.files : finals'[t].whole) /\ r.run <= run
  BY WholeFilesStay DEF SoopInv, ReportedFilesAreKept
<1>10. ReportedFilesAreKept'
  <2>1. ASSUME NEW r \in results'
        PROVE  /\ r.run <= run'
               /\ \A t \in r.files : finals'[t].whole /\ t \notin task'.files
               /\ OnDisk(r)'
    <3>1. CASE r = new
      <4>1. new.run <= run' /\ \A t \in new.files : finals'[t].whole /\ t \notin task'.files
        BY <1>3, <1>7, <1>8
      <4> QED BY <1>8, <3>1, <4>1 DEF OnDisk
    <3>2. CASE r \in results
      BY <1>7, <1>9, <3>2
    <3> QED BY <1>1, <3>1, <3>2
  <2> QED BY <1>7, <2>1 DEF ReportedFilesAreKept
<1> QED BY <1>2, <1>5, <1>6, <1>10 DEF SoopInv

\* After the last PART.
LEMMA PartsDoneIsSound == SoopInv /\ PartsDone => SoopInv'
<1> SUFFICES ASSUME SoopInv, PartsDone PROVE SoopInv'
  OBVIOUS
<1>0. pc = "select" /\ pc \in Working /\ "returned" \in Ended /\ task.left = {}
  BY DEF PartsDone, At, Working, Ended
<1>1. CASE Gone("returned")
  BY <1>0, <1>1, GoneIsSound
<1>2. CASE Step("merge") /\ UNCHANGED <<task, auth>>
  <2>1. /\ pc' = "merge"
        /\ UNCHANGED <<source, run, job, cancel, task, dirs, jar, cookies, finals, partials,
                       touched, finished, results>>
    BY <1>2 DEF Step, Goto, files, auth
  <2>2. task \in Task /\ cancel \in BOOLEAN /\ jar \in Jar /\ cookies \in Jar
    BY Typed DEF SoopInv
  <2>4. TaskFitsItsPlace'
    BY <1>0, <2>1 DEF SoopInv, TaskFitsItsPlace, Working, InPart, InMerge, Saving
  <2>5. ListIsCovered'
    BY <1>0, <2>1 DEF SoopInv, ListIsCovered, Working, InPart, InMerge, Saving
  <2>6. /\ pc' \in Working /\ pc' \notin InMerge /\ pc \notin InMerge /\ pc' # "tool"
        /\ pc' # "removing" /\ pc # "removing"
    BY <1>0, <2>1 DEF Working, InMerge
  <2> QED BY <1>0, <2>1, <2>2, <2>4, <2>5, <2>6, MoveIsSound
<1>3. CASE /\ Publish(task.files)
           /\ UNCHANGED <<source, run, job, cancel, auth, finals, touched, finished>>
  <2>1. UNCHANGED <<source, run, job, cancel, jar, cookies, finals, touched, finished>>
    BY <1>3 DEF auth
  <2>2. task.files \in SUBSET Targets /\ job.want \subseteq Parts
    BY Typed DEF SoopInv, Task
  <2>3. \A t \in task.files : Holds(finals[t], {t[1]}) /\ finals[t].whole
    BY DEF SoopInv, FilesAreWhole, Holds
  <2>4. \A p \in job.want : \E t \in task.files : t[1] = p
    <3>1. task.part \notin job.want
      BY <1>0, <2>2, TargetsAreNames DEF SoopInv, TaskFitsItsPlace, Working, InPart, InMerge
    <3>2. pc \in Saving \ InMerge
      BY <1>0 DEF Saving, InMerge
    <3> QED BY <1>0, <3>1, <3>2 DEF SoopInv, ListIsCovered
  <2>5. OnDisk([run |-> run, files |-> task.files, parts |-> job.want])
    BY <2>3, <2>4 DEF OnDisk
  <2> QED BY <1>0, <1>3, <2>1, <2>2, <2>3, <2>5, PublishIsSound
<1> QED BY <1>1, <1>2, <1>3 DEF PartsDone

\* After the merge.
LEMMA MergeDoneIsSound == SoopInv /\ MergeDone => SoopInv'
<1> SUFFICES ASSUME SoopInv, MergeDone PROVE SoopInv'
  OBVIOUS
<1>0. pc = "removing" /\ pc \in Working /\ pc \in InMerge
  BY DEF MergeDone, At, Working, InMerge
<1>1. /\ Publish({task.target})
      /\ UNCHANGED <<source, run, job, cancel, jar, cookies, finals, touched, finished>>
  BY DEF MergeDone, auth
<1>2. {task.target} \in SUBSET Targets
  BY <1>0 DEF SoopInv, TaskFitsItsPlace, Targets
<1>3. finals[task.target].whole /\ Holds(finals[task.target], job.want)
  BY <1>0 DEF SoopInv, FilesAreWhole, Holds
<1>4. OnDisk([run |-> run, files |-> {task.target}, parts |-> job.want])
  BY <1>3 DEF OnDisk
<1> QED BY <1>0, <1>1, <1>2, <1>3, <1>4, PublishIsSound

\* More of the PART arrives.
LEMMA FetchIsSound == SoopInv /\ Fetch => SoopInv'
<1> SUFFICES ASSUME SoopInv, Fetch PROVE SoopInv'
  OBVIOUS
<1> DEFINE t0  == task.target
           old == partials[t0]
           new == [of |-> old.of \cup {<<task.seen, task.part>>}, bytes |-> old.bytes + 1]
<1>0. /\ pc = "tool" /\ old.bytes < MaxBytes
      /\ partials' = [partials EXCEPT ![t0] = new]
      /\ UNCHANGED <<source, run, job, cancel, pc, task, jar, cookies, dirs, finals, touched,
                     finished, results>>
  BY DEF Fetch, At, auth
<1>1. /\ t0 \in Parts \X Names /\ t0 \in Targets /\ task.part = t0[1] /\ task.part \in Parts
      /\ task.seen # None /\ task.seen \in Sources
  <2>1. t0 \in Parts \X Names /\ task.part = t0[1] /\ task.seen # None
    BY <1>0 DEF SoopInv, TaskFitsItsPlace, InPart
  <2>2. task.seen \in Sources \cup {None}
    BY Typed DEF SoopInv, Task
  <2> QED BY <2>1, <2>2 DEF Targets
<1>2. /\ partials \in [Targets -> Part] /\ old \in Part /\ old.bytes \in 0 .. MaxBytes
      /\ old.of \subseteq Pieces /\ old.of \subseteq Sources \X {t0[1]}
      /\ ~Reuses => old.of \subseteq {<<task.seen, t0[1]>>}
  <2>1. partials \in [Targets -> Part] /\ old \in Part
    BY <1>1, Typed DEF SoopInv
  <2>2. /\ old.of \subseteq Sources \X {t0[1]}
        /\ ~Reuses => old.of \subseteq {<<task.seen, t0[1]>>}
    BY <1>0, <1>1 DEF SoopInv, FragmentsAreOfOneSource, IsOf, Working
  <2> QED BY <2>1, <2>2 DEF Part
<1>3. /\ new \in Part /\ new.of # {} /\ new.of \subseteq Sources \X {t0[1]}
      /\ ~Reuses => new.of \subseteq {<<task.seen, t0[1]>>}
  <2>1. old.bytes + 1 \in 0 .. MaxBytes
    BY <1>0, <1>2, SoopBounds
  <2>2. <<task.seen, task.part>> \in Pieces
    BY <1>1 DEF Pieces
  <2> HIDE DEF old
  <2> QED BY <1>1, <1>2, <2>1, <2>2 DEF Part
<1> HIDE DEF new, old
<1>4. SoopTypeOK'
  BY <1>0, <1>1, <1>2, <1>3, Typed DEF SoopInv, SoopTypeOK, File, Part, Task
<1>5. \A t \in Targets : t # t0 => partials'[t] = partials[t]
  BY <1>0, <1>2
<1>6. partials'[t0] = new
  BY <1>0, <1>1, <1>2
<1>7. FragmentsAreOfOneSource'
  <2>1. pc \in Working
    BY <1>0 DEF Working
  <2>2. ASSUME NEW t \in Targets
        PROVE  /\ IsOf(partials'[t], t[1])
               /\ ~Reuses => partials'[t].of \subseteq
                    {<<IF t = task.target /\ task.seen # None THEN task.seen ELSE source, t[1]>>}
    <3>1. CASE t = t0
      BY <1>1, <1>3, <1>6, <3>1 DEF IsOf
    <3>2. CASE t # t0
      BY <1>5, <2>1, <3>2 DEF SoopInv, FragmentsAreOfOneSource
    <3> QED BY <3>1, <3>2
  <2> QED BY <1>0, <2>2 DEF FragmentsAreOfOneSource
<1>8. FragmentsAreOfThePart'
  <2>1. touched \subseteq Targets /\ pc \in Working /\ pc \notin Ended
    BY <1>0, Typed DEF SoopInv, Working, Ended
  <2> QED BY <1>0, <1>5, <2>1 DEF SoopInv, FragmentsAreOfThePart, NoResidue
<1>9. TaskFitsItsPlace' /\ ListIsCovered' /\ FilesAreWhole' /\ ToolHasCookies'
  BY <1>0 DEF SoopInv, TaskFitsItsPlace, ListIsCovered, FilesAreWhole, ToolHasCookies, At
<1>10. PartsSurvive' /\ ReportedFilesAreKept'
  BY <1>0, WholeFilesStay, ReportsStay
<1> QED BY <1>4, <1>7, <1>8, <1>9, <1>10 DEF SoopInv

\* A PART is downloaded: it is a file of its own, or the job was cancelled meanwhile.
LEMMA ToolSucceedsIsSound == SoopInv /\ ToolSucceeds => SoopInv'
<1> SUFFICES ASSUME SoopInv, ToolSucceeds PROVE SoopInv'
  OBVIOUS
<1> DEFINE t0  == task.target
           new == [of |-> partials[t0].of, whole |-> TRUE]
<1>0. pc = "tool" /\ pc \in Working /\ pc \in InPart /\ pc \in Saving \ InMerge
  BY DEF ToolSucceeds, At, Working, InPart, Saving, InMerge
<1>1. /\ t0 \in Parts \X Names /\ t0 \in Targets /\ t0 # NoTarget
      /\ task.part = t0[1] /\ task.part \in Parts /\ task.part \in job.want
      /\ task.part \notin task.left /\ finals[t0] = NoFile /\ ~finals[t0].whole
      /\ task.seen # None
  <2>1. /\ t0 \in Parts \X Names /\ task.part = t0[1] /\ finals[t0] = NoFile /\ task.seen # None
    BY <1>0 DEF SoopInv, TaskFitsItsPlace
  <2>2. task.part \in job.want /\ task.part \notin task.left
    BY <1>0 DEF SoopInv, ListIsCovered
  <2>3. t0 \in Targets
    BY <2>1 DEF Targets
  <2>4. ~finals[t0].whole
    BY <2>1 DEF NoFile
  <2> QED BY <2>1, <2>2, <2>3, <2>4, TargetsAreNames
<1>2. /\ partials[t0].bytes = MaxBytes /\ finals' = [finals EXCEPT ![t0] = new]
      /\ partials' = [partials EXCEPT ![t0] = NoPart]
      /\ UNCHANGED <<source, run, job, cancel, jar, cookies, touched, results>>
  BY <1>1 DEF ToolSucceeds, Output, auth
<1>3. /\ partials \in [Targets -> Part] /\ finals \in [Targets -> File] /\ task \in Task
      /\ jar \in Jar /\ cookies \in Jar
  BY Typed DEF SoopInv
<1>4. new \in File /\ Holds(new, {task.part}) /\ new.whole
  <2>1. /\ partials[t0].of # {} /\ partials[t0].of \subseteq Sources \X {task.part}
        /\ ~Reuses => \E s \in Sources : partials[t0].of \subseteq {<<s, task.part>>}
    <3>1. partials[t0].bytes > 0
      BY <1>2, SoopBounds
    <3> QED BY <1>1, <3>1 DEF SoopInv, FragmentsAreOfOneSource, IsOf
  <2>2. new.of = partials[t0].of /\ new.whole
    OBVIOUS
  <2>3. partials[t0].of \in SUBSET Pieces
    BY <1>1, <1>3 DEF Part
  <2>4. new \in File
    BY <2>3 DEF File
  <2> HIDE DEF new
  <2> QED BY <2>1, <2>2, <2>4, OnePiece
<1> HIDE DEF new
<1>5. finals' \in [Targets -> File] /\ finals'[t0] = new
      /\ \A t \in Targets : t # t0 => finals'[t] = finals[t]
  BY <1>1, <1>2, <1>3, <1>4
<1>6. \A t \in Targets : finals[t].whole => finals'[t] = finals[t]
  BY <1>1, <1>5
<1>7. CASE cancel
  <2>1. "returned" \in Ended /\ Cleaned = [partials EXCEPT ![t0] = NoPart]
    BY <1>1 DEF Ended, Cleaned
  <2>2. End("returned") /\ UNCHANGED finished
    BY <1>2, <1>7, <2>1 DEF ToolSucceeds, End
  <2> QED BY <1>0, <1>2, <1>3, <1>5, <1>6, <2>1, <2>2, EndIsSound
<1>8. CASE ~cancel
  <2>1. /\ pc' = "select" /\ UNCHANGED dirs
        /\ task' = [task EXCEPT !.files = @ \cup {t0}, !.target = NoTarget, !.part = None]
        /\ finished' = finished \cup {[target |-> t0, part |-> task.part]}
    BY <1>8 DEF ToolSucceeds, Goto
  <2>2. /\ task' \in Task /\ task'.files = task.files \cup {t0} /\ task'.target = NoTarget
        /\ task'.part = None /\ task'.left = task.left /\ task'.seen = task.seen
    BY <1>1, <1>3, <2>1 DEF Task
  <2>3. /\ pc' \in Working \ (InPart \cup InMerge) /\ pc' \in Saving \ InMerge
        /\ pc' \notin Ended
        /\ pc' \notin {"authorize", "prepare", "tool", "login", "listing", "analyse", "merge"}
    BY <2>1 DEF Working, InPart, InMerge, Saving, Ended
  <2>4. PICK f : f = [target |-> t0, part |-> task.part]
    OBVIOUS
  <2>5. SoopTypeOK'
    <3>1. f \in [target : Targets, part : Parts]
      BY <1>1, <2>4
    <3> QED BY <1>1, <1>2, <1>3, <1>5, <2>1, <2>2, <2>3, <2>4, <3>1, NothingIsTyped, Typed
            DEF SoopInv, SoopTypeOK, File, Part, Task
  <2>6. TaskFitsItsPlace'
    <3>1. run >= 1 /\ job.saves
      BY <1>0 DEF SoopInv, TaskFitsItsPlace
    <3> QED BY <1>2, <2>2, <2>3, <3>1 DEF TaskFitsItsPlace
  <2>7. ListIsCovered'
    <3>1. /\ task.left \subseteq job.want
          /\ \A t \in task.files : t[1] \in job.want \ task.left /\ t[1] # task.part
          /\ \A t, u \in task.files : t[1] = u[1] => t = u
          /\ \A p \in job.want : p \in task.left \/ p = task.part \/ \E t \in task.files : t[1] = p
      BY <1>0 DEF SoopInv, ListIsCovered
    <3>2. job.want \subseteq Parts /\ None \notin job.want
      BY Typed, TargetsAreNames DEF SoopInv
    <3>3. \A t \in task'.files : t[1] \in job.want \ task.left /\ t[1] # None
      BY <1>1, <2>2, <3>1, <3>2
    <3>4. \A t, u \in task'.files : t[1] = u[1] => t = u
      BY <1>1, <2>2, <3>1
    <3>5. \A p \in job.want : p \in task.left \/ \E t \in task'.files : t[1] = p
      BY <1>1, <2>2, <3>1
    <3>6. None \notin task.left
      BY <3>1, <3>2
    <3> QED BY <1>2, <2>2, <2>3, <3>1, <3>3, <3>4, <3>5, <3>6 DEF ListIsCovered
  <2>8. FilesAreWhole'
    <3>1. ASSUME NEW t \in task'.files PROVE t \in Parts \X Names /\ Holds(finals'[t], {t[1]})
      <4>1. CASE t = t0
        BY <1>1, <1>4, <1>5, <4>1
      <4>2. CASE t # t0
        <5>1. t \in task.files
          BY <2>2, <4>2
        <5>2. t \in Parts \X Names /\ Holds(finals[t], {t[1]}) /\ t \in Targets
          BY <1>3, <5>1 DEF SoopInv, FilesAreWhole, Task
        <5> QED BY <1>5, <4>2, <5>2
      <4> QED BY <4>1, <4>2
    <3> QED BY <2>3, <3>1 DEF FilesAreWhole
  <2>9. FragmentsAreOfOneSource'
    <3>1. \A t \in Targets : t # NoTarget
      BY TargetsAreNames
    <3>2. ASSUME NEW t \in Targets
          PROVE  /\ IsOf(partials'[t], t[1])
                 /\ ~Reuses => partials'[t].of \subseteq {<<source, t[1]>>}
      <4>1. CASE t = t0
        <5>1. partials'[t] = NoPart /\ source \in Sources
          BY <1>2, <1>3, <4>1, Typed DEF SoopInv
        <5> QED BY <5>1 DEF NoPart, IsOf
      <4>2. CASE t # t0
        <5>1. partials'[t] = partials[t]
          BY <1>2, <1>3, <4>2
        <5> QED BY <1>0, <4>2, <5>1 DEF SoopInv, FragmentsAreOfOneSource
      <4> QED BY <4>1, <4>2
    <3> QED BY <1>2, <2>2, <3>1, <3>2 DEF FragmentsAreOfOneSource
  <2>10. FragmentsAreOfThePart'
    <3>1. ASSUME NEW t \in touched PROVE partials'[t] = NoPart
      <4>1. t \in Targets /\ (t # t0 => partials[t] = NoPart)
        BY <1>0, Typed DEF SoopInv, FragmentsAreOfThePart
      <4> QED BY <1>2, <1>3, <4>1
    <3> QED BY <1>2, <2>3, <3>1 DEF FragmentsAreOfThePart, NoResidue
  <2>11. PartsSurvive'
    <3>1. f.target = t0 /\ f.part = task.part /\ finished' = finished \cup {f}
      BY <2>1, <2>4
    <3>2. Holds(finals'[f.target], {f.part})
      BY <1>4, <1>5, <3>1
    <3> QED BY <1>6, <3>1, <3>2, WholeFilesStay DEF PartsSurvive
  <2>12. ReportedFilesAreKept'
    <3>1. ASSUME NEW r \in results
          PROVE  r.run < run /\ OnDisk(r)' /\ \A t \in r.files : finals'[t].whole /\ t \notin task'.files
      <4>1. r.run < run /\ \A t \in r.files : finals[t].whole /\ t \notin task.files
        BY <1>0 DEF SoopInv, ReportedFilesAreKept
      <4>2. \A t \in r.files : t # t0
        BY <1>1, <4>1
      <4> QED BY <1>6, <2>2, <4>1, <4>2, WholeFilesStay
    <3>2. \A r \in results : r.run <= run
      BY DEF SoopInv, ReportedFilesAreKept
    <3> QED BY <1>2, <3>1, <3>2 DEF ReportedFilesAreKept
  <2>13. ToolHasCookies'
    BY <2>1 DEF ToolHasCookies, At
  <2> QED BY <2>5, <2>6, <2>7, <2>8, <2>9, <2>10, <2>11, <2>12, <2>13 DEF SoopInv
<1> QED BY <1>7, <1>8

\* The parts of the invariant that a step of the merge cannot disturb.
LEMMA MergeStep ==
  ASSUME SoopInv, pc \in InMerge \cup {"merge"}, pc' \in InMerge, task' \in Task,
         task'.target \in {Merged} \X Names, task'.left = task.left, task'.part = task.part,
         task'.files \subseteq task.files, finals' \in [Targets -> File],
         FilesAreWhole',
         \A t \in Targets : finals[t].whole /\ t \notin task.files \ task'.files
           => finals'[t] = finals[t],
         UNCHANGED <<source, run, job, cancel, dirs, jar, cookies, partials, touched, finished,
                     results>>,
         PartsSurvive'
  PROVE  SoopInv'
<1>1. /\ pc \in Working /\ pc' \in Working /\ pc \in Saving /\ pc' \in Saving /\ pc' \notin InPart
      /\ pc \notin InPart
      /\ pc' \notin {"authorize", "prepare", "tool", "login", "listing", "analyse"}
      /\ pc \notin Ended /\ pc' \notin Ended
  BY DEF Working, InMerge, InPart, Saving, Ended
<1>2. SoopTypeOK'
  BY <1>1, Typed DEF SoopInv, SoopTypeOK, File, Part, Task
<1>3. TaskFitsItsPlace'
  <2>1. run >= 1 /\ job.saves
    BY <1>1 DEF SoopInv, TaskFitsItsPlace
  <2> QED BY <1>1, <2>1 DEF TaskFitsItsPlace
<1>4. ListIsCovered'
  BY <1>1 DEF SoopInv, ListIsCovered
<1>5. \A t \in Targets : t[1] # Merged => t # task.target /\ t # task'.target
  <2>1. task.target = NoTarget \/ task.target[1] = Merged
    BY <1>1 DEF SoopInv, TaskFitsItsPlace, InMerge
  <2> QED BY <2>1, TargetsAreNames
<1>6. FragmentsAreOfOneSource'
  <2>1. ASSUME NEW t \in Targets, partials[t].of # {} PROVE t[1] # Merged
    <3>1. partials[t].of \subseteq Pieces
      BY Typed DEF SoopInv, Part
    <3>2. PICK x \in partials[t].of : x \in Sources \X {t[1]}
      BY <2>1 DEF SoopInv, FragmentsAreOfOneSource, IsOf
    <3>3. t[1] \in Parts
      BY <3>1, <3>2 DEF Pieces
    <3> QED BY <3>3, TargetsAreNames
  <2>2. ~Reuses => \A t \in Targets : partials[t].of \subseteq {<<source, t[1]>>}
    <3>1. ASSUME ~Reuses, NEW t \in Targets PROVE partials[t].of \subseteq {<<source, t[1]>>}
      <4>1. CASE partials[t].of = {}
        BY <4>1
      <4>2. CASE partials[t].of # {}
        <5>1. t # task.target \/ pc = "merge"
          BY <1>5, <2>1, <4>2
        <5>2. pc = "merge" => task.target = NoTarget
          BY DEF SoopInv, TaskFitsItsPlace, Working, InPart, InMerge
        <5>3. t # task.target
          BY <5>1, <5>2, TargetsAreNames
        <5> QED BY <1>1, <3>1, <5>3 DEF SoopInv, FragmentsAreOfOneSource
      <4> QED BY <4>1, <4>2
    <3> QED BY <3>1
  <2>3. \A t \in Targets : partials[t].of # {} => t # task'.target
    BY <1>5, <2>1
  <2>4. ~Reuses => \A t \in Targets : partials[t].of \subseteq
          {<<IF t = task'.target /\ task'.seen # None THEN task'.seen ELSE source, t[1]>>}
    BY <2>2, <2>3
  <2> QED BY <2>4 DEF SoopInv, FragmentsAreOfOneSource
<1>7. FragmentsAreOfThePart'
  <2>1. ASSUME NEW t \in touched, t # task'.target PROVE partials[t] = NoPart
    <3>1. CASE t # task.target
      BY <1>1, <3>1 DEF SoopInv, FragmentsAreOfThePart
    <3>2. CASE t = task.target
      <4>1. t \in Targets /\ t \in {Merged} \X Names /\ t[1] = Merged
        BY <3>2, Typed, TargetsAreNames, <1>1
           DEF SoopInv, TaskFitsItsPlace, InMerge, InPart, Working
      <4>2. partials[t] \in Part /\ partials[t].of \subseteq Pieces
        BY <4>1, Typed DEF SoopInv, Part
      <4>3. partials[t].of = {}
        <5>1. partials[t].of \subseteq Sources \X {t[1]}
          BY <4>1 DEF SoopInv, FragmentsAreOfOneSource, IsOf
        <5>2. t[1] \notin Parts
          BY <4>1, TargetsAreNames
        <5> QED BY <4>2, <5>1, <5>2 DEF Pieces
      <4>4. ~(partials[t].bytes > 0)
        BY <4>1, <4>3 DEF SoopInv, FragmentsAreOfOneSource, IsOf
      <4>5. partials[t].bytes = 0
        BY <4>2, <4>4, SoopBounds DEF Part
      <4> QED BY <4>2, <4>3, <4>5 DEF Part, NoPart
    <3> QED BY <3>1, <3>2
  <2> QED BY <1>1, <2>1 DEF FragmentsAreOfThePart, NoResidue
<1>8. ReportedFilesAreKept'
  <2>1. ASSUME NEW r \in results
        PROVE  r.run < run /\ OnDisk(r)' /\ \A t \in r.files : finals'[t].whole /\ t \notin task'.files
    <3>1. /\ r.run < run /\ OnDisk(r) /\ r.files \subseteq Targets
          /\ \A t \in r.files : finals[t].whole /\ t \notin task.files
      BY <1>1, Typed DEF SoopInv, ReportedFilesAreKept
    <3>2. \A t \in r.files : finals'[t] = finals[t]
      BY <3>1
    <3> QED BY <3>1, <3>2 DEF OnDisk
  <2>2. \A r \in results : r.run <= run
    BY DEF SoopInv, ReportedFilesAreKept
  <2> QED BY <2>1, <2>2 DEF ReportedFilesAreKept
<1>9. ToolHasCookies'
  BY <1>1 DEF ToolHasCookies, At
<1> QED BY <1>2, <1>3, <1>4, <1>6, <1>7, <1>8, <1>9 DEF SoopInv

\* The merge begins: the merged file holds what the PARTs hold.
LEMMA MergeBeginsIsSound == SoopInv /\ MergeBegins => SoopInv'
<1> SUFFICES ASSUME SoopInv, MergeBegins PROVE SoopInv'
  OBVIOUS
<1>0. pc = "merge" /\ pc \in Working /\ "failed" \in Ended /\ pc \in Saving \ InMerge
  BY DEF MergeBegins, At, Working, Ended, Saving, InMerge
<1>1. CASE Gone("failed")
  BY <1>0, <1>1, GoneIsSound
<1>2. CASE ~Gone("failed")
  <2> DEFINE cp  == CollisionPath(Merged)
             all == UNION {finals[f].of : f \in task.files}
             new == [of |-> all, whole |-> FALSE]
  <2>1. /\ FreeNames(Merged) # {} /\ task' = [task EXCEPT !.target = cp]
        /\ finals' = [finals EXCEPT ![cp] = new] /\ pc' = "merging"
        /\ UNCHANGED <<source, run, job, cancel, dirs, jar, cookies, partials, touched, finished,
                       results>>
    BY <1>2 DEF MergeBegins, Goto, auth
  <2>2. /\ cp \in {Merged} \X Names /\ cp \in Targets /\ cp[1] = Merged
        /\ finals[cp] = NoFile /\ ~finals[cp].whole
    BY <2>1, NameIsFree DEF NoFile
  <2>3. /\ task \in Task /\ finals \in [Targets -> File] /\ job.want \in SUBSET Parts
        /\ task.files \in SUBSET Targets
    BY Typed DEF SoopInv, Task
  <2>4. /\ \A t \in task.files : Holds(finals[t], {t[1]}) /\ t \in Parts \X Names
        /\ \A t, u \in task.files : t[1] = u[1] => t = u
        /\ \A t \in task.files : t[1] \in job.want
    BY <1>0 DEF SoopInv, ListIsCovered, FilesAreWhole
  <2>6. /\ all \subseteq Pieces /\ {p[2] : p \in all} = job.want
        /\ ~Reuses => Cardinality(all) = Cardinality(job.want)
        /\ \A t \in task.files : finals[t].of \subseteq all
    BY <1>0, MergedPieces
  <2> HIDE DEF cp, all
  <2>7. new \in File /\ new.of = all /\ new.whole = FALSE
    BY <2>6 DEF File
  <2> HIDE DEF new
  <2>8. finals' \in [Targets -> File] /\ finals'[cp] = new
        /\ \A t \in Targets : t # cp => finals'[t] = finals[t]
    BY <2>1, <2>2, <2>3, <2>7
  <2>9. /\ task' \in Task /\ task'.target = cp /\ task'.left = task.left
        /\ task'.part = task.part /\ task'.files = task.files
    BY <2>1, <2>2, <2>3 DEF Task
  <2>10. \A t \in task.files : t # cp /\ t \in Targets
    BY <2>2, <2>3, <2>4, TargetsAreNames
  <2>11. FilesAreWhole'
    <3>1. \A t \in task'.files : t \in Parts \X Names /\ Holds(finals'[t], {t[1]})
      BY <2>4, <2>8, <2>9, <2>10
    <3>2. \A t \in task'.files : finals'[t].of \subseteq finals'[task'.target].of
      BY <2>6, <2>7, <2>8, <2>9, <2>10
    <3>3. finals'[task'.target] = new
      BY <2>8, <2>9
    <3>4. {p[2] : p \in finals'[task'.target].of} = job'.want
      BY <2>1, <2>6, <2>7, <3>3
    <3>5. ~Reuses => Cardinality(finals'[task'.target].of) = Cardinality(job'.want)
      BY <2>1, <2>6, <2>7, <3>3
    <3>6. ~finals'[task'.target].whole /\ pc' # "removing"
      BY <2>1, <2>7, <3>3
    <3> QED BY <3>1, <3>2, <3>4, <3>5, <3>6 DEF FilesAreWhole
  <2>12. \A t \in Targets : finals[t].whole => finals'[t] = finals[t]
    BY <2>2, <2>8
  <2>13. PartsSurvive'
    BY <2>1, <2>12, WholeFilesStay
  <2>14. pc \in InMerge \cup {"merge"} /\ pc' \in InMerge
    BY <1>0, <2>1 DEF InMerge
  <2> QED BY <2>1, <2>2, <2>8, <2>9, <2>11, <2>12, <2>13, <2>14, MergeStep
<1> QED BY <1>1, <1>2

\* It fails, and only its own file goes.
LEMMA MergeFailsIsSound == SoopInv /\ MergeFails => SoopInv'
<1> SUFFICES ASSUME SoopInv, MergeFails PROVE SoopInv'
  OBVIOUS
<1>0. pc = "merging" /\ pc \in Working /\ pc \in InMerge /\ "failed" \in Ended
  BY DEF MergeFails, At, Working, InMerge, Ended
<1>1. /\ finals' = [finals EXCEPT ![task.target] = NoFile] /\ End("failed")
      /\ UNCHANGED <<source, run, job, cancel, jar, cookies, touched, finished, results>>
  BY DEF MergeFails, Unmerged, auth
<1>2. finals \in [Targets -> File] /\ jar \in Jar /\ cookies \in Jar
  BY Typed DEF SoopInv
<1>3. ~finals[task.target].whole
  BY <1>0 DEF SoopInv, FilesAreWhole
<1>4. /\ finals' \in [Targets -> File]
      /\ \A t \in Targets : finals[t].whole => finals'[t] = finals[t]
  BY <1>1, <1>2, <1>3, NothingIsTyped
<1> QED BY <1>0, <1>1, <1>2, <1>4, EndIsSound

\* It succeeds: the merged file is whole.
LEMMA MergeSucceedsIsSound == SoopInv /\ MergeSucceeds => SoopInv'
<1> SUFFICES ASSUME SoopInv, MergeSucceeds PROVE SoopInv'
  OBVIOUS
<1> DEFINE t0 == task.target
<1>0. pc = "merging" /\ pc \in InMerge /\ pc' = "removing" /\ pc' \in InMerge
  BY DEF MergeSucceeds, At, Goto, InMerge
<1>1. /\ finals' = [finals EXCEPT ![t0].whole = TRUE]
      /\ UNCHANGED <<source, run, job, cancel, task, jar, cookies, dirs, partials, touched,
                     finished, results>>
  BY DEF MergeSucceeds, auth
<1>2. /\ finals \in [Targets -> File] /\ task \in Task /\ task.files \subseteq Targets
      /\ t0 \in {Merged} \X Names /\ t0 \in Targets /\ t0[1] = Merged
  BY <1>0, Typed DEF SoopInv, TaskFitsItsPlace, Targets, Task
<1>3. ~finals[t0].whole
  BY <1>0 DEF SoopInv, FilesAreWhole
<1>4. /\ finals' \in [Targets -> File] /\ finals'[t0].whole = TRUE
      /\ finals'[t0].of = finals[t0].of
      /\ \A t \in Targets : t # t0 => finals'[t] = finals[t]
  <2>1. [finals[t0] EXCEPT !.whole = TRUE] \in File
        /\ [finals[t0] EXCEPT !.whole = TRUE].of = finals[t0].of
        /\ [finals[t0] EXCEPT !.whole = TRUE].whole = TRUE
    BY <1>2 DEF File
  <2> QED BY <1>1, <1>2, <2>1
<1>5. \A t \in Targets : finals[t].whole => finals'[t] = finals[t]
  BY <1>3, <1>4
<1>6. \A t \in task.files : t # t0 /\ t \in Targets
  BY <1>2, TargetsAreNames DEF SoopInv, FilesAreWhole
<1>7. FilesAreWhole'
  <2>1. \A t \in task.files : t \in Parts \X Names /\ Holds(finals'[t], {t[1]})
    BY <1>4, <1>6 DEF SoopInv, FilesAreWhole
  <2>2. /\ \A t \in task.files : finals[t].of \subseteq finals[t0].of
        /\ {p[2] : p \in finals[t0].of} = job.want
        /\ ~Reuses => Cardinality(finals[t0].of) = Cardinality(job.want)
    BY <1>0 DEF SoopInv, FilesAreWhole
  <2>3. \A t \in task.files : finals'[t].of \subseteq finals'[t0].of
    BY <1>4, <1>6, <2>2
  <2>4. /\ {p[2] : p \in finals'[t0].of} = job.want
        /\ ~Reuses => Cardinality(finals'[t0].of) = Cardinality(job.want)
    BY <1>4, <2>2
  <2> QED BY <1>0, <1>1, <1>4, <2>1, <2>3, <2>4 DEF FilesAreWhole
<1>8. PartsSurvive'
  BY <1>1, <1>5, WholeFilesStay
<1> QED BY <1>0, <1>1, <1>2, <1>4, <1>5, <1>7, <1>8, MergeStep

\* A PART is removed: the merged file holds it, too.
LEMMA RemovePartIsSound == SoopInv /\ RemovePart => SoopInv'
<1> SUFFICES ASSUME SoopInv, RemovePart PROVE SoopInv'
  OBVIOUS
<1>0. pc = "removing" /\ pc' = "removing" /\ pc \in InMerge /\ task.files # {}
  BY DEF RemovePart, At, InMerge
<1>1. PICK f \in task.files :
        /\ finals' = [finals EXCEPT ![f] = NoFile] \/ UNCHANGED finals
        /\ task' = [task EXCEPT !.files = @ \ {f}]
        /\ UNCHANGED <<source, run, job, cancel, pc, jar, cookies, dirs, partials, touched,
                       finished, results>>
  <2>1. Removed \in task.files
    BY <1>0, NextFile DEF SoopInv
  <2>2. /\ finals' = [finals EXCEPT ![Removed] = NoFile] \/ UNCHANGED finals
        /\ task' = [task EXCEPT !.files = @ \ {Removed}]
        /\ UNCHANGED <<source, run, job, cancel, pc, jar, cookies, dirs, partials, touched,
                       finished, results>>
    BY DEF RemovePart, Removed, auth
  <2> QED BY <2>1, <2>2
<1>2. /\ finals \in [Targets -> File] /\ task \in Task /\ task.files \subseteq Targets
      /\ task.target \in {Merged} \X Names /\ task.target \in Targets
  BY <1>0, Typed DEF SoopInv, TaskFitsItsPlace, Targets, Task
<1>3. /\ task' \in Task /\ task'.target = task.target /\ task'.left = task.left
      /\ task'.part = task.part /\ task'.files = task.files \ {f}
  BY <1>1, <1>2 DEF Task
<1>4. /\ finals' \in [Targets -> File]
      /\ \A t \in Targets : t # f => finals'[t] = finals[t]
  BY <1>1, <1>2, NothingIsTyped
<1>5. f \in Parts \X Names /\ f # task.target /\ \A t \in {Merged} \X Names : t # f
  BY <1>2, TargetsAreNames DEF SoopInv, FilesAreWhole
<1>6. /\ \A t \in task.files : t \in Parts \X Names /\ Holds(finals[t], {t[1]})
                               /\ finals[t].of \subseteq finals[task.target].of
      /\ {p[2] : p \in finals[task.target].of} = job.want
      /\ ~Reuses => Cardinality(finals[task.target].of) = Cardinality(job.want)
      /\ finals[task.target].whole
  BY <1>0 DEF SoopInv, FilesAreWhole
<1>7. finals'[task.target] = finals[task.target]
  BY <1>2, <1>4, <1>5
<1>8. FilesAreWhole'
  <2>1. \A t \in task'.files : finals'[t] = finals[t] /\ t \in task.files
    BY <1>2, <1>3, <1>4
  <2>2. /\ \A t \in task'.files : t \in Parts \X Names /\ Holds(finals'[t], {t[1]})
        /\ \A t \in task'.files : finals'[t].of \subseteq finals'[task'.target].of
    BY <1>3, <1>6, <1>7, <2>1
  <2>3. finals'[task'.target] = finals[task.target] /\ job' = job
    BY <1>1, <1>3, <1>7
  <2>4. {p[2] : p \in finals'[task'.target].of} = job'.want
    BY <1>6, <2>3
  <2>5. ~Reuses => Cardinality(finals'[task'.target].of) = Cardinality(job'.want)
    BY <1>6, <2>3
  <2> QED BY <1>0, <1>6, <2>2, <2>3, <2>4, <2>5 DEF FilesAreWhole
<1>9. \A t \in Targets : finals[t].whole /\ t \notin task.files \ task'.files
        => finals'[t] = finals[t]
  BY <1>3, <1>4
<1>10. PartsSurvive'
  <2>1. ASSUME NEW g \in finished
        PROVE  \/ Holds(finals'[g.target], {g.part})
               \/ \E t \in {Merged} \X Names :
                    finals'[t].whole /\ g.part \in {p[2] : p \in finals'[t].of}
    <3>0. g.target \in Targets
      BY Typed DEF SoopInv
    <3>1. CASE \E t \in {Merged} \X Names :
                  finals[t].whole /\ g.part \in {p[2] : p \in finals[t].of}
      <4>1. PICK t \in {Merged} \X Names :
                   finals[t].whole /\ g.part \in {p[2] : p \in finals[t].of}
        BY <3>1
      <4>2. t \in Targets /\ t # f
        BY <1>5 DEF Targets
      <4>3. finals'[t] = finals[t]
        BY <1>4, <4>2
      <4> QED BY <4>1, <4>3
    <3>2. CASE Holds(finals[g.target], {g.part}) /\ g.target # f
      BY <1>4, <3>0, <3>2
    <3>3. CASE Holds(finals[g.target], {g.part}) /\ g.target = f
      <4>1. PICK x \in finals[f].of : x[2] = g.part
        BY <3>3 DEF Holds
      <4>2. x \in finals'[task.target].of /\ finals'[task.target].whole
        BY <1>6, <1>7, <4>1
      <4> QED BY <1>2, <4>1, <4>2
    <3> QED BY <3>1, <3>2, <3>3 DEF SoopInv, PartsSurvive
  <2> QED BY <1>1, <2>1 DEF PartsSurvive
<1> QED BY <1>0, <1>1, <1>2, <1>3, <1>4, <1>8, <1>9, <1>10, MergeStep

\* What goes on around the job: cancellation, expiring cookies, another source, its end, a crash.
LEMMA FlagIsSound == SoopInv /\ Flag => SoopInv'
<1> SUFFICES ASSUME SoopInv, Flag PROVE SoopInv'
  OBVIOUS
<1>1. /\ cancel' = TRUE
      /\ UNCHANGED <<source, run, job, pc, task, jar, cookies, dirs, finals, partials, touched,
                     finished, results>>
  BY DEF Flag, auth, files
<1>2. SoopTypeOK'
  BY <1>1, Typed DEF SoopInv, SoopTypeOK, File, Part, Task
<1>3. TaskFitsItsPlace' /\ ListIsCovered' /\ FilesAreWhole' /\ ToolHasCookies'
  BY <1>1 DEF SoopInv, TaskFitsItsPlace, ListIsCovered, FilesAreWhole, ToolHasCookies, At
<1>4. FragmentsAreOfOneSource' /\ FragmentsAreOfThePart'
  BY <1>1 DEF SoopInv, FragmentsAreOfOneSource, FragmentsAreOfThePart, NoResidue
<1>5. PartsSurvive' /\ ReportedFilesAreKept'
  BY <1>1, WholeFilesStay, ReportsStay
<1> QED BY <1>2, <1>3, <1>4, <1>5 DEF SoopInv

\* Fresh cookies become stale ones.
LEMMA ExpireIsSound == SoopInv /\ Expire => SoopInv'
<1> SUFFICES ASSUME SoopInv, Expire PROVE SoopInv'
  OBVIOUS
<1> DEFINE Aged(j) == IF j.cf = "fresh" THEN [j EXCEPT !.cf = "stale"] ELSE j
<1>1. /\ jar' = Aged(jar) /\ cookies' = Aged(cookies)
      /\ UNCHANGED <<source, run, job, cancel, pc, task, dirs, finals, partials, touched,
                     finished, results>>
  BY DEF Expire, files
<1>2. \A j \in Jar : Aged(j) \in Jar /\ (Aged(j).cf = "none" => j.cf = "none")
  BY DEF Jar
<1>3. jar \in Jar /\ cookies \in Jar
  BY Typed DEF SoopInv
<1> HIDE DEF Aged
<1>4. jar' \in Jar /\ cookies' \in Jar /\ (cookies'.cf = "none" => cookies.cf = "none")
  BY <1>1, <1>2, <1>3
<1>5. SoopTypeOK'
  BY <1>1, <1>4, Typed DEF SoopInv, SoopTypeOK, File, Part, Task
<1>6. TaskFitsItsPlace' /\ ListIsCovered' /\ FilesAreWhole'
  BY <1>1 DEF SoopInv, TaskFitsItsPlace, ListIsCovered, FilesAreWhole
<1>7. FragmentsAreOfOneSource' /\ FragmentsAreOfThePart'
  BY <1>1 DEF SoopInv, FragmentsAreOfOneSource, FragmentsAreOfThePart, NoResidue
<1>8. PartsSurvive' /\ ReportedFilesAreKept'
  BY <1>1, WholeFilesStay, ReportsStay
<1>9. ToolHasCookies'
  BY <1>1, <1>4 DEF SoopInv, ToolHasCookies, At
<1> QED BY <1>5, <1>6, <1>7, <1>8, <1>9 DEF SoopInv

\* The source changes, and only the fragments of the PART under way are of the former one.
LEMMA ChangeIsSound == SoopInv /\ Change => SoopInv'
<1> SUFFICES ASSUME SoopInv, Change PROVE SoopInv'
  OBVIOUS
<1>1. /\ source < MaxSources /\ source' = source + 1
      /\ Reuses \/ \A t \in Targets : partials[t] # NoPart => t = task.target /\ task.seen # None
      /\ UNCHANGED <<run, job, cancel, pc, task, jar, cookies, dirs, finals, partials, touched,
                     finished, results>>
  BY DEF Change, auth, files
<1>2. SoopTypeOK'
  <2>1. source' \in Sources
    BY <1>1, Typed, SoopBounds DEF SoopInv, Sources
  <2> QED BY <1>1, <2>1, Typed DEF SoopInv, SoopTypeOK, File, Part, Task
<1>3. TaskFitsItsPlace' /\ ListIsCovered' /\ FilesAreWhole' /\ ToolHasCookies'
  BY <1>1 DEF SoopInv, TaskFitsItsPlace, ListIsCovered, FilesAreWhole, ToolHasCookies, At
<1>4. FragmentsAreOfOneSource'
  <2>1. ASSUME ~Reuses, NEW t \in Targets, pc \in Working
        PROVE  partials[t].of \subseteq
                 {<<IF t = task.target /\ task.seen # None THEN task.seen ELSE source', t[1]>>}
    <3>1. CASE partials[t] = NoPart
      BY <3>1 DEF NoPart
    <3>2. CASE partials[t] # NoPart
      <4>1. t = task.target /\ task.seen # None
        BY <1>1, <2>1, <3>2
      <4> QED BY <2>1, <4>1 DEF SoopInv, FragmentsAreOfOneSource
    <3> QED BY <3>1, <3>2
  <2> QED BY <1>1, <2>1 DEF SoopInv, FragmentsAreOfOneSource
<1>5. FragmentsAreOfThePart'
  BY <1>1 DEF SoopInv, FragmentsAreOfThePart, NoResidue
<1>6. PartsSurvive' /\ ReportedFilesAreKept'
  BY <1>1, WholeFilesStay, ReportsStay
<1> QED BY <1>2, <1>3, <1>4, <1>5, <1>6 DEF SoopInv

\* The end of a job is noticed, or the program dies.
LEMMA OverIsSound == SoopInv /\ (Over \/ Crash) => SoopInv'
<1> SUFFICES ASSUME SoopInv, Over \/ Crash PROVE SoopInv'
  OBVIOUS
<1>1. /\ pc' = "idle" /\ cancel' = FALSE /\ task' = Idle
      /\ UNCHANGED <<source, run, job, jar, cookies, dirs, finals, partials, touched, finished,
                     results>>
  <2>1. pc \in Ended => task = Idle
    BY DEF SoopInv, TaskFitsItsPlace, Ended, Working
  <2> QED BY <2>1 DEF Over, Crash, auth, files
<1>2. /\ pc' \notin Working /\ pc' \notin Ended /\ pc' \notin InPart /\ pc' \notin InMerge
      /\ pc' \notin Saving
  BY <1>1 DEF Working, Ended, InPart, InMerge, Saving
<1>3. SoopTypeOK'
  BY <1>1, Typed, NothingIsTyped DEF SoopInv, SoopTypeOK, File, Part, Task
<1>4. task'.files = {}
  BY <1>1 DEF Idle
<1>5. TaskFitsItsPlace' /\ ToolHasCookies'
  BY <1>1, <1>2 DEF TaskFitsItsPlace, ToolHasCookies, At
<1>6. ListIsCovered' /\ FilesAreWhole'
  BY <1>1, <1>2, <1>4 DEF ListIsCovered, FilesAreWhole, Saving
<1>7. FragmentsAreOfOneSource' /\ FragmentsAreOfThePart'
  BY <1>1, <1>2 DEF SoopInv, FragmentsAreOfOneSource, FragmentsAreOfThePart, NoResidue
<1>8. PartsSurvive' /\ ReportedFilesAreKept'
  BY <1>1, <1>2, <1>4, WholeFilesStay, ReportsStay
<1> QED BY <1>3, <1>5, <1>6, <1>7, <1>8 DEF SoopInv

\* Nothing happens.
LEMMA StutterIsSound == SoopInv /\ UNCHANGED vars => SoopInv'
<1> SUFFICES ASSUME SoopInv, UNCHANGED vars PROVE SoopInv'
  OBVIOUS
<1>1. UNCHANGED <<source, run, job, cancel, pc, task, jar, cookies, dirs, finals, partials, touched,
                  finished, results>>
  BY DEF vars, auth, files
<1>2. SoopTypeOK'
  BY <1>1, Typed DEF SoopInv, SoopTypeOK, File, Part, Task
<1>3. TaskFitsItsPlace' /\ ListIsCovered' /\ FilesAreWhole' /\ ToolHasCookies'
  BY <1>1 DEF SoopInv, TaskFitsItsPlace, ListIsCovered, FilesAreWhole, ToolHasCookies, At
<1>4. FragmentsAreOfOneSource' /\ FragmentsAreOfThePart'
  BY <1>1 DEF SoopInv, FragmentsAreOfOneSource, FragmentsAreOfThePart, NoResidue
<1>5. PartsSurvive' /\ ReportedFilesAreKept'
  BY <1>1, WholeFilesStay, ReportsStay
<1> QED BY <1>2, <1>3, <1>4, <1>5 DEF SoopInv

\* The invariant is inductive.
LEMMA StepIsSound == SoopInv /\ [Next]_vars => SoopInv'
<1> SUFFICES ASSUME SoopInv, [Next]_vars PROVE SoopInv'
  OBVIOUS
<1>1. CASE Begin
  BY <1>1, BeginIsSound
<1>2. CASE TaskStep
  BY <1>2, GetCookiesIsSound, MetadataIsSound, AnalyseIsSound, SelectPartIsSound,
     PartsDoneIsSound, AttemptIsSound, RefreshIsSound, AuthorizeIsSound, PrepareIsSound,
     TerminateIsSound, MergeBeginsIsSound, RemovePartIsSound, MergeDoneIsSound DEF TaskStep
<1>3. CASE ToolStep
  BY <1>3, FetchIsSound, ToolSucceedsIsSound, ToolFailsIsSound, MergeFailsIsSound,
     MergeSucceedsIsSound DEF ToolStep
<1>4. CASE EnvStep
  BY <1>4, FlagIsSound, ExpireIsSound, ChangeIsSound, OverIsSound DEF EnvStep
<1> QED BY <1>1, <1>2, <1>3, <1>4, StutterIsSound DEF Next

\* A SOOP job loses no PART it downloaded, whatever becomes of the later ones, of the merge and of
\* the program; it leaves no fragment and no cookies; and the tool never runs for a private VOD
\* without signed cookies.  A file is of one source if no job continues what a crash left of another.
THEOREM PartsAreNotLost == Spec => []SoopFilesAreSound
<1>1. SoopInv /\ [Next]_vars => SoopInv'
  BY StepIsSound
<1>2. SoopInv => SoopFilesAreSound
  BY DEF SoopInv, FragmentsAreOfThePart, SoopFilesAreSound
<1> QED BY <1>1, <1>2, InitIsSound, PTL DEF Spec

\* Media of two sources meets in an unfinished file only through what a crash left: where no job
\* continues that, none does, whatever the server's list does meanwhile (resume_identity).
THEOREM OnlyACrashMixes == ~Reuses => (Spec => []NeverMixed)
<1> SUFFICES ASSUME ~Reuses PROVE Spec => []NeverMixed
  OBVIOUS
<1>1. SoopInv /\ [Next]_vars => SoopInv'
  BY StepIsSound
<1>2. SoopInv => NeverMixed
  <2> SUFFICES ASSUME SoopInv, NEW t \in Targets
               PROVE  Cardinality({p[1] : p \in partials[t].of}) <= 1
    BY DEF NeverMixed
  <2>1. PICK s \in Sources : partials[t].of \subseteq {<<s, t[1]>>}
    BY DEF SoopInv, FragmentsAreOfOneSource, IsOf
  <2>2. {p[1] : p \in partials[t].of} \in {{}, {s}}
    BY <2>1
  <2>3. Cardinality({}) = 0 /\ Cardinality({s}) = 1
    BY FS_EmptySet, FS_Singleton
  <2>4. Cardinality({p[1] : p \in partials[t].of}) \in {0, 1}
    BY <2>2, <2>3
  <2> QED BY <2>4
<1> QED BY <1>1, <1>2, InitIsSound, PTL DEF Spec

----------------------------------------------------------------------------
\* A SOOP job is a run of DownloadRun.

\* All reports are of runs whose media is on the disk.
LEMMA AllAreKept == SoopInv => Kept = {r.run : r \in results}
<1> SUFFICES ASSUME SoopInv PROVE Kept = {r.run : r \in results}
  OBVIOUS
<1>1. {r \in results : OnDisk(r)} = results
  BY DEF SoopInv, ReportedFilesAreKept
<1> QED BY <1>1 DEF Kept

\* The next state's reports are kept, too.
LEMMA AllAreStillKept == SoopInv' => Kept' = {r.run : r \in results'}
<1> SUFFICES ASSUME SoopInv' PROVE Kept' = {r.run : r \in results'}
  OBVIOUS
<1>1. {r \in results' : OnDisk(r)'} = results'
  BY DEF SoopInv, ReportedFilesAreKept
<1> QED BY <1>1 DEF Kept

\* Each step of a job is a step of a run, or none.
LEMMA RunStep ==
  ASSUME SoopInv, [Next]_vars
  PROVE  [Run!Next]_Run!vars
<1>0. SoopInv' /\ Kept = {r.run : r \in results} /\ Kept' = {r.run : r \in results'}
  BY StepIsSound, AllAreKept, AllAreStillKept
<1> DEFINE K == {r.run : r \in results}
<1>1. UNCHANGED results => Kept' = Kept
  BY <1>0
<1>2. \A p \in Ended : p \notin Working /\ p # "idle"
  BY DEF Ended, Working
<1>3. CASE UNCHANGED <<run, Phase, job, cancel, results>>
  BY <1>1, <1>3 DEF Run!vars
<1>4. CASE Begin
  <2>1. /\ pc = "idle" /\ pc' = "login" /\ run' = run + 1 /\ cancel' = FALSE
        /\ job'.saves \in BOOLEAN /\ UNCHANGED results
    BY <1>4 DEF Begin, Goto
  <2>2. Phase = "idle" /\ Phase' = "work"
    BY <2>1 DEF Phase, Working
  <2> QED BY <1>1, <2>1, <2>2 DEF Run!Next, Run!Begin
<1>5. ASSUME NEW how \in Ended, pc \in Working, pc' = how,
             UNCHANGED <<run, job, cancel, results>>,
             how = "returned" => cancel, how = "published" => ~job.saves
      PROVE  Run!Next
  <2>1. Phase = "work" /\ Phase' = how
    BY <1>2, <1>5 DEF Phase
  <2>2. CASE how = "returned"
    BY <1>1, <1>5, <2>1, <2>2, Typed DEF Run!Next, Run!GiveUp, SoopInv
  <2>3. CASE how = "failed"
    BY <1>1, <1>5, <2>1, <2>3 DEF Run!Next, Run!Fail
  <2>4. CASE how = "published"
    BY <1>1, <1>5, <2>1, <2>4 DEF Run!Next, Run!Publish
  <2> QED BY <2>2, <2>3, <2>4 DEF Ended
<1>6. ASSUME NEW outputs, pc \in Working, job.saves, Publish(outputs),
             UNCHANGED <<run, job, cancel>>
      PROVE  Run!Next
  <2>1. pc' = "published"
    BY <1>6 DEF Publish, End, Goto
  <2>2. Phase = "work" /\ Phase' = "published"
    BY <1>6, <2>1 DEF Phase, Working
  <2>3. PICK new : new = [run |-> run, files |-> outputs, parts |-> job.want]
    OBVIOUS
  <2>4. Kept' = Kept \cup {run}
    <3>1. results' = results \cup {new} /\ new.run = run
      BY <1>6, <2>3 DEF Publish
    <3> QED BY <1>0, <3>1
  <2> QED BY <1>6, <2>2, <2>4 DEF Run!Next, Run!Publish
<1>7. CASE Flag
  <2>1. /\ pc \in Working /\ cancel' = TRUE /\ UNCHANGED <<run, job, pc, results>>
    BY <1>7 DEF Flag, files
  <2>2. Phase # "idle" /\ Phase' = Phase
    BY <2>1 DEF Phase
  <2> QED BY <1>1, <2>1, <2>2 DEF Run!Next, Run!Flag
<1>8. CASE Over \/ Crash
  <2>1. /\ pc # "idle" /\ pc' = "idle" /\ cancel' = FALSE /\ UNCHANGED <<run, job, results>>
    BY <1>2, <1>8 DEF Over, Crash, files, Working
  <2>2. Phase # "idle" /\ Phase' = "idle"
    BY <2>1 DEF Phase, Working
  <2> QED BY <1>1, <2>1, <2>2 DEF Run!Next, Run!Over
<1>9. ASSUME NEW how \in Ended, pc \in Working, Gone(how), how # "published",
             how = "returned" => cancel
      PROVE  Run!Next
  <2>1. pc' = how /\ UNCHANGED <<run, job, cancel, results>>
    BY <1>9 DEF Gone, End, Goto
  <2> QED BY <1>5, <1>9, <2>1
<1>10. ASSUME pc \in Working, pc' \in Working, UNCHANGED <<run, job, cancel, results>>
       PROVE  UNCHANGED <<run, Phase, job, cancel, results>>
  BY <1>10 DEF Phase
<1>11. ASSUME NEW e, NEW left, FailAttempt(e, left), pc \in Working,
              UNCHANGED <<run, job, cancel, results>>
       PROVE  Run!Next \/ UNCHANGED <<run, Phase, job, cancel, results>>
  <2>1. pc' \in {"top", "failed"}
    BY <1>11 DEF FailAttempt, End, Goto
  <2>2. "top" \in Working /\ "failed" \in Ended
    BY DEF Working, Ended
  <2> QED BY <1>5, <1>10, <1>11, <2>1, <2>2
<1>12. {"returned", "failed", "published"} \subseteq Ended
  BY DEF Ended
<1>13. CASE Login \/ Renew \/ Metadata \/ Refresh
  <2>1. pc \in Working
    BY <1>13 DEF Login, Renew, Metadata, Refresh, GetCookies, At, Working
  <2>2. Gone("failed") \/ (pc' \in Working /\ UNCHANGED <<run, job, cancel, results>>)
    BY <1>13 DEF Login, Renew, Metadata, Refresh, GetCookies, Step, Goto, Working
  <2> QED BY <1>3, <1>9, <1>10, <1>12, <2>1, <2>2
<1>14. CASE Analyse
  <2>1. pc \in Working /\ ~job.saves /\ UNCHANGED <<run, job, cancel, results>>
    BY <1>14 DEF Analyse, At, Working, SoopInv, TaskFitsItsPlace
  <2>2. pc' \in {"published", "failed"}
    BY <1>14 DEF Analyse, End, Goto
  <2> QED BY <1>5, <1>12, <2>1, <2>2
<1>15. CASE SelectPart \/ Attempt
  <2>1. pc \in Working
    BY <1>15 DEF SelectPart, Attempt, At, Working
  <2>2. \/ (Gone("returned") /\ cancel) \/ Gone("failed")
        \/ pc' \in Working /\ UNCHANGED <<run, job, cancel, results>>
    BY <1>15 DEF SelectPart, Attempt, Step, Goto, Working, files
  <2> QED BY <1>3, <1>9, <1>10, <1>12, <2>1, <2>2
<1>16. CASE PartsDone
  <2>1. pc \in Working /\ job.saves
    BY <1>16 DEF PartsDone, At, Working, SoopInv, TaskFitsItsPlace, Saving
  <2>2. \/ Gone("returned") /\ cancel
        \/ pc' \in Working /\ UNCHANGED <<run, job, cancel, results>>
        \/ Publish(task.files) /\ UNCHANGED <<run, job, cancel>>
    BY <1>16 DEF PartsDone, Step, Goto, Working, files
  <2> QED BY <1>3, <1>6, <1>9, <1>10, <1>12, <2>1, <2>2
<1>17. CASE Authorize \/ Prepare
  <2>1. pc \in Working /\ UNCHANGED <<run, job, cancel, results>>
    BY <1>17 DEF Authorize, Prepare, At, Working
  <2>2. FailAttempt(task.expired, partials[task.target]) \/ pc' \in Working
    BY <1>17 DEF Authorize, Prepare, Goto, Working
  <2> QED BY <1>3, <1>10, <1>11, <2>1, <2>2
<1>18. CASE Terminate
  <2>1. pc \in Working /\ cancel
    BY <1>18 DEF Terminate, At, Working
  <2>2. \/ Gone("returned")
        \/ /\ FailAttempt(FALSE, partials[task.target])
           /\ UNCHANGED <<run, job, cancel, results>>
    BY <1>18 DEF Terminate
  <2> QED BY <1>3, <1>9, <1>11, <1>12, <2>1, <2>2
<1>19. CASE MergeBegins
  <2>1. pc \in Working
    BY <1>19 DEF MergeBegins, At, Working
  <2>2. Gone("failed") \/ (pc' \in Working /\ UNCHANGED <<run, job, cancel, results>>)
    BY <1>19 DEF MergeBegins, Goto, Working
  <2> QED BY <1>3, <1>9, <1>10, <1>12, <2>1, <2>2
<1>20. CASE RemovePart \/ Fetch \/ MergeSucceeds
  <2>1. pc \in Working /\ pc' \in Working /\ UNCHANGED <<run, job, cancel, results>>
    BY <1>20 DEF RemovePart, Fetch, MergeSucceeds, At, Goto, Working
  <2> QED BY <1>3, <1>10, <2>1
<1>21. CASE MergeDone
  <2>1. pc \in Working /\ job.saves
    BY <1>21 DEF MergeDone, At, Working, SoopInv, TaskFitsItsPlace, Saving, InMerge
  <2>2. Publish({task.target}) /\ UNCHANGED <<run, job, cancel>>
    BY <1>21 DEF MergeDone
  <2> QED BY <1>6, <2>1, <2>2
<1>22. CASE ToolSucceeds
  <2>1. pc \in Working /\ UNCHANGED <<run, job, cancel, results>>
    BY <1>22 DEF ToolSucceeds, At, Working
  <2>2. (cancel /\ pc' = "returned") \/ pc' \in Working
    BY <1>22 DEF ToolSucceeds, Goto, Working
  <2> QED BY <1>3, <1>5, <1>10, <1>12, <2>1, <2>2
<1>23. CASE ToolFails
  <2>1. pc \in Working /\ UNCHANGED <<run, job, cancel, results>>
    BY <1>23 DEF ToolFails, At, Working
  <2>2. \E e \in BOOLEAN : FailAttempt(e, partials[task.target])
    BY <1>23 DEF ToolFails
  <2> QED BY <1>3, <1>11, <2>1, <2>2
<1>24. CASE MergeFails
  <2>1. pc \in Working /\ pc' = "failed" /\ UNCHANGED <<run, job, cancel, results>>
    BY <1>24 DEF MergeFails, At, Working, End, Goto
  <2> QED BY <1>5, <1>12, <2>1
<1>25. CASE Expire \/ Change \/ UNCHANGED vars
  <2>1. UNCHANGED <<run, job, cancel, pc, results>>
    BY <1>25 DEF Expire, Change, vars, files
  <2>2. UNCHANGED <<run, Phase, job, cancel, results>>
    BY <2>1 DEF Phase
  <2> QED BY <1>3, <2>2
<1> QED BY <1>4, <1>7, <1>8, <1>13, <1>14, <1>15, <1>16, <1>17, <1>18, <1>19, <1>20, <1>21, <1>22,
           <1>23, <1>24, <1>25 DEF Next, TaskStep, ToolStep, EnvStep

\* A SOOP job keeps the promise of a run: it publishes once and only what is complete and on the
\* disk, nothing later takes that away, and it gives up quietly only when it was cancelled.
THEOREM SoopJobsKeepTheirPromise == Spec => SoopRun
<1>1. SoopInv /\ [Next]_vars => SoopInv'
  BY StepIsSound
<1>2. SoopInv /\ [Next]_vars => [Run!Next]_Run!vars
  BY RunStep
<1>3. Init => Run!Init
  <2> SUFFICES ASSUME Init PROVE Run!Init
    OBVIOUS
  <2>1. /\ run = 0 /\ pc = "idle" /\ cancel = FALSE /\ results = {}
        /\ job = [saves |-> FALSE, want |-> {}, merge |-> FALSE, account |-> TRUE,
                  guarded |-> FALSE]
    BY DEF Init
  <2>2. job.saves = FALSE /\ Kept = {} /\ Phase = "idle"
    BY <2>1 DEF Kept, Phase, Working
  <2> QED BY <2>1, <2>2 DEF Run!Init
<1> QED BY <1>1, <1>2, <1>3, InitIsSound, PTL DEF Spec, SoopRun, Run!Spec
=============================================================================
