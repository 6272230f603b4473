------------------------ MODULE DownloadPartsProofs ------------------------
(***************************************************************************)
(* What holds of the KICK and CHZZK downloads (KickDownload, ChzzkDownload) *)
(* for all values of their constants, stated of the composition             *)
(* RuntimeParts: both implement DownloadRun.                                *)
(***************************************************************************)
EXTENDS RuntimeParts, TLAPS, WellFoundedInduction, FiniteSetTheorems

----------------------------------------------------------------------------
\* KICK downloads, for any playlist, attempts and jobs.

\* Where an attempt has a file.
Fetching == {"download", "drain", "publish"}

\* A download counts its attempts from one, and none is begun beyond the last.
AttemptsAreCounted ==
  /\ pc \in Kick!Working => run >= 1
  /\ pc \notin Kick!Working \/ pc = "metadata" => attempt = 0
  /\ pc \in {"attempt", "wait"} => attempt < MaxRetries
  /\ pc \in Fetching => attempt >= 1
  /\ pc \in Fetching \cup {"attempt", "wait"} => saves

\* yt-dlp is there only for an attempt whose file it writes; what was told is in that file, and
\* all of it when it is to be published.
FileHasWhatWasTold ==
  /\ tool.exit # "none" => pc \in Fetching
  /\ pc \in Fetching => partials[<<run, attempt>>] = tool.written /\ told.fragments <= tool.written
  /\ pc = "publish" => told.fragments = Fragments

\* There is no file yet of the attempts and jobs to come.
OutputsAreNew ==
  \A r \in 1 .. MaxRuns, k \in 1 .. MaxRetries :
    partials[<<r, k>>] # Kick!Absent => r <= run /\ (r = run /\ pc \in Kick!Working => k <= attempt)

\* The inductive invariant of a KICK job.
KickInv == Kick!KickTypeOK /\ AttemptsAreCounted /\ FileHasWhatWasTold /\ OutputsAreNew

\* What the proofs need of the constants.
KickBounds == Fragments \in Nat \ {0} /\ MaxRetries \in Nat \ {0} /\ MaxRuns \in Nat \ {0}

\* The invariant holds at first.
LEMMA KickInit ==
  ASSUME KickBounds
  PROVE  Kick!Init => KickInv
<1> SUFFICES ASSUME Kick!Init PROVE KickInv
  OBVIOUS
<1> USE DEF KickBounds, Kick!Init
<1>1. Kick!KickTypeOK
  <2>1. saves \in BOOLEAN /\ cancel \in BOOLEAN
    BY Zenon
  <2>2. Kick!Absent \in 0 .. Kick!Absent
    BY DEF Kick!Absent
  <2>3. tool \in [exit : {"none", "run", "ok", "bad"}, written : 0 .. Fragments, marked : BOOLEAN]
    BY DEF Kick!NoTool
  <2>4. told \in [fragments : 0 .. Fragments, done : BOOLEAN]
    BY DEF Kick!Untold
  <2>5. partials \in [Kick!Attempts -> 0 .. Kick!Absent] /\ finals \in [Kick!Attempts -> 0 .. Kick!Absent]
    BY <2>2
  <2> QED BY <2>1, <2>3, <2>4, <2>5 DEF Kick!KickTypeOK
<1>2. AttemptsAreCounted
  BY DEF AttemptsAreCounted, Kick!Working, Fetching
<1>3. FileHasWhatWasTold
  BY DEF FileHasWhatWasTold, Fetching, Kick!NoTool
<1>4. OutputsAreNew
  BY DEF OutputsAreNew, Kick!Attempts
<1> QED BY <1>1, <1>2, <1>3, <1>4 DEF KickInv

\* A job that ended, or died, has no attempt; its files stay.
LEMMA EndKeeps ==
  ASSUME KickBounds, KickInv, NEW how \in Kick!Ended \cup {"idle"}, Kick!End(how),
         UNCHANGED <<run, saves>>, cancel' \in BOOLEAN,
         partials' \in [Kick!Attempts -> 0 .. Kick!Absent], finals' \in [Kick!Attempts -> 0 .. Kick!Absent],
         \A a \in Kick!Attempts : partials'[a] \in {partials[a], Kick!Absent}
  PROVE  KickInv'
<1> USE DEF KickBounds, Kick!End, Kick!Goto, Kick!Ended
<1>1. how \notin Kick!Working /\ how \notin Fetching /\ how \notin {"attempt", "wait", "metadata"}
  BY DEF Kick!Working, Fetching
<1>2. Kick!KickTypeOK'
  <2>1. tool' \in [exit : {"none", "run", "ok", "bad"}, written : 0 .. Fragments, marked : BOOLEAN]
    BY DEF Kick!NoTool
  <2>2. told' \in [fragments : 0 .. Fragments, done : BOOLEAN]
    BY DEF Kick!Untold
  <2> QED BY <2>1, <2>2 DEF KickInv, Kick!KickTypeOK
<1>3. AttemptsAreCounted'
  BY <1>1 DEF AttemptsAreCounted, Fetching
<1>4. FileHasWhatWasTold'
  BY <1>1 DEF FileHasWhatWasTold, Fetching, Kick!NoTool
<1>5. OutputsAreNew'
  BY <1>1 DEF KickInv, OutputsAreNew, Kick!Attempts
<1> QED BY <1>2, <1>3, <1>4, <1>5 DEF KickInv

\* An attempt that failed: the job ends, or waits for the next one.
LEMMA FailAttemptKeeps ==
  ASSUME KickBounds, KickInv, pc \in {"download", "drain"}, Kick!FailAttempt, UNCHANGED <<Kick!job,
  Kick!files>>
  PROVE  KickInv'
<1> USE DEF KickBounds, Kick!job, Kick!files
<1>1. CASE Kick!End("returned") \/ Kick!End("failed")
  <2>1. /\ cancel' \in BOOLEAN /\ partials' \in [Kick!Attempts -> 0 .. Kick!Absent]
        /\ finals' \in [Kick!Attempts -> 0 .. Kick!Absent]
    BY DEF KickInv, Kick!KickTypeOK
  <2> QED BY <1>1, <2>1, EndKeeps DEF Kick!Ended
<1>2. CASE ~(Kick!End("returned") \/ Kick!End("failed"))
  <2>1. pc' = "wait" /\ tool' = Kick!NoTool /\ told' = Kick!Untold /\ UNCHANGED attempt
          /\ attempt # MaxRetries
    BY <1>2 DEF Kick!FailAttempt, Kick!Goto
  <2>2. tool' \in [exit : {"none", "run", "ok", "bad"}, written : 0 .. Fragments, marked : BOOLEAN]
    BY <2>1 DEF Kick!NoTool
  <2>3. told' \in [fragments : 0 .. Fragments, done : BOOLEAN]
    BY <2>1 DEF Kick!Untold
  <2>4. Kick!KickTypeOK'
    BY <2>1, <2>2, <2>3 DEF KickInv, Kick!KickTypeOK, Kick!Working
  <2>5. AttemptsAreCounted'
    BY <2>1 DEF KickInv, Kick!KickTypeOK, AttemptsAreCounted, Kick!Working, Fetching
  <2>6. FileHasWhatWasTold'
    BY <2>1 DEF FileHasWhatWasTold, Fetching, Kick!NoTool
  <2>7. OutputsAreNew'
    BY <2>1 DEF KickInv, OutputsAreNew, Kick!Working
  <2> QED BY <2>4, <2>5, <2>6, <2>7 DEF KickInv
<1> QED BY <1>1, <1>2

\* The steps of a job that only move it, or end it.
LEMMA KickMoves ==
  ASSUME KickBounds, KickInv,
         Kick!Begin \/ Kick!Metadata \/ Kick!GiveUpWaiting \/ Kick!Wait \/ Kick!Flag \/ Kick!Over
           \/ Kick!Crash
  PROVE  KickInv'
<1> USE DEF KickBounds, Kick!job, Kick!files, Kick!Goto
<1>1. /\ partials \in [Kick!Attempts -> 0 .. Kick!Absent] /\ finals \in [Kick!Attempts -> 0 .. Kick!Absent]
      /\ cancel \in BOOLEAN /\ {TRUE, FALSE} \subseteq BOOLEAN
  BY DEF KickInv, Kick!KickTypeOK
<1>2. UNCHANGED <<partials, finals>>
  BY DEF Kick!Begin, Kick!Metadata, Kick!GiveUpWaiting, Kick!Wait, Kick!Flag, Kick!Over, Kick!Crash
<1>3. CASE \E how \in Kick!Ended \cup {"idle"} : Kick!End(how) /\ UNCHANGED <<run, saves>>
             /\ cancel' \in {cancel, FALSE}
  <2>1. cancel' \in BOOLEAN
    BY <1>1, <1>3
  <2> QED BY <1>1, <1>2, <1>3, <2>1, EndKeeps
<1>4. CASE Kick!Begin
  <2> USE <1>4 DEF Kick!Begin
  <2>0. saves' \in BOOLEAN /\ cancel' \in BOOLEAN
    BY Zenon
  <2>5. run' \in 0 .. MaxRuns /\ pc' = "metadata" /\ UNCHANGED <<attempt, tool, told>>
    BY DEF KickInv, Kick!KickTypeOK
  <2>1. Kick!KickTypeOK'
    BY <1>1, <1>2, <2>0, <2>5 DEF KickInv, Kick!KickTypeOK, Kick!Working
  <2>2. AttemptsAreCounted'
    BY DEF KickInv, Kick!KickTypeOK, AttemptsAreCounted, Kick!Working, Fetching
  <2>3. FileHasWhatWasTold'
    BY DEF KickInv, FileHasWhatWasTold, Fetching
  <2>4. OutputsAreNew'
    BY <1>2 DEF KickInv, Kick!KickTypeOK, OutputsAreNew
  <2> QED BY <2>1, <2>2, <2>3, <2>4 DEF KickInv
<1>5. CASE /\ UNCHANGED <<run, saves, attempt, tool, told>> /\ cancel' \in {cancel, TRUE}
           /\ \/ pc = "metadata" /\ saves /\ pc' = "attempt"
              \/ pc = "wait" /\ pc' = "attempt"
              \/ pc \in Kick!Working /\ pc' = pc
  <2>0. cancel' \in BOOLEAN
    BY <1>1, <1>5
  <2>1. Kick!KickTypeOK'
    BY <1>2, <1>5, <2>0 DEF KickInv, Kick!KickTypeOK, Kick!Working
  <2>2. AttemptsAreCounted'
    BY <1>5 DEF KickInv, Kick!KickTypeOK, AttemptsAreCounted, Kick!Working, Fetching
  <2>3. FileHasWhatWasTold'
    BY <1>2, <1>5 DEF KickInv, FileHasWhatWasTold, Fetching, Kick!Working
  <2>4. OutputsAreNew'
    BY <1>2, <1>5 DEF KickInv, OutputsAreNew, Kick!Working
  <2> QED BY <2>1, <2>2, <2>3, <2>4 DEF KickInv
<1>6. CASE Kick!Over
  <2> USE <1>6 DEF Kick!Over
  <2>0. cancel' \in BOOLEAN /\ pc \in Kick!Ended /\ pc' = "idle"
    BY Zenon
  <2>1. Kick!KickTypeOK'
    BY <1>2, <2>0 DEF KickInv, Kick!KickTypeOK
  <2>2. AttemptsAreCounted'
    BY <2>0 DEF KickInv, AttemptsAreCounted, Kick!Working, Kick!Ended, Fetching
  <2>3. FileHasWhatWasTold'
    BY <2>0 DEF KickInv, FileHasWhatWasTold, Fetching, Kick!Ended
  <2>4. OutputsAreNew'
    BY <1>2, <2>0 DEF KickInv, OutputsAreNew, Kick!Working
  <2> QED BY <2>1, <2>2, <2>3, <2>4 DEF KickInv
<1>7. Kick!Metadata => \/ \E how \in Kick!Ended : Kick!End(how) /\ UNCHANGED <<run, saves, cancel>>
                       \/ pc = "metadata" /\ saves /\ pc' = "attempt" /\ UNCHANGED <<run, saves, cancel, attempt, tool, told>>
  BY DEF Kick!Metadata, Kick!Ended
<1>8. Kick!GiveUpWaiting \/ Kick!Wait \/ Kick!Crash =>
        \/ \E how \in Kick!Ended \cup {"idle"} : Kick!End(how) /\ UNCHANGED <<run, saves>> /\ cancel' \in {cancel, FALSE}
        \/ pc = "wait" /\ pc' = "attempt" /\ UNCHANGED <<run, saves, cancel, attempt, tool, told>>
  BY DEF Kick!GiveUpWaiting, Kick!Wait, Kick!Crash, Kick!Ended
<1>9. Kick!Flag => pc \in Kick!Working /\ pc' = pc /\ cancel' = TRUE /\ UNCHANGED <<run, saves, attempt, tool, told>>
  BY DEF Kick!Flag
<1> QED BY <1>3, <1>4, <1>5, <1>6, <1>7, <1>8, <1>9

\* The steps of an attempt, and of yt-dlp.
LEMMA AttemptSteps ==
  ASSUME KickBounds, KickInv,
         Kick!Attempt \/ Kick!Read \/ Kick!SeeExit \/ Kick!Judge \/ Kick!Publish \/ Kick!Fetch \/ Kick!Exit
  PROVE  KickInv'
<1> USE DEF KickBounds, Kick!job, Kick!files, Kick!Goto
<1>1. /\ partials \in [Kick!Attempts -> 0 .. Kick!Absent] /\ finals \in [Kick!Attempts -> 0 .. Kick!Absent]
      /\ cancel \in BOOLEAN /\ run \in 0 .. MaxRuns /\ attempt \in 0 .. MaxRetries
      /\ tool \in [exit : {"none", "run", "ok", "bad"}, written : 0 .. Fragments, marked : BOOLEAN]
      /\ told \in [fragments : 0 .. Fragments, done : BOOLEAN]
  BY DEF KickInv, Kick!KickTypeOK
<1>2. \A k \in 0 .. Fragments : k \in 0 .. Kick!Absent /\ k # Kick!Absent
  BY DEF Kick!Absent
<1>3. CASE Kick!Attempt
  <2>1. CASE Kick!End("returned") \/ Kick!End("failed")
    <3>1. UNCHANGED <<run, saves, cancel, partials, finals>>
      BY <1>3, <2>1 DEF Kick!Attempt, Kick!End
    <3> QED BY <1>1, <2>1, <3>1, EndKeeps DEF Kick!Ended
  <2>2. CASE ~(Kick!End("returned") \/ Kick!End("failed"))
    <3>1. /\ pc = "attempt" /\ pc' = "download" /\ attempt' = attempt + 1
          /\ UNCHANGED <<run, saves, cancel, finals>>
          /\ partials' = [partials EXCEPT ![<<run, attempt + 1>>] = 0]
          /\ tool' = [Kick!NoTool EXCEPT !.exit = "run"] /\ told' = Kick!Untold
      BY <1>3, <2>2 DEF Kick!Attempt, Kick!Output
    <3>2. run \in 1 .. MaxRuns /\ attempt + 1 \in 1 .. MaxRetries /\ saves
      BY <1>1, <3>1 DEF KickInv, AttemptsAreCounted, Kick!Working
    <3>3. <<run, attempt + 1>> \in Kick!Attempts
      BY <3>2 DEF Kick!Attempts
    <3>4. tool' = [exit |-> "run", written |-> 0, marked |-> FALSE]
            /\ told' = [fragments |-> 0, done |-> FALSE]
      BY <3>1 DEF Kick!NoTool, Kick!Untold
    <3>5. /\ tool' \in [exit : {"none", "run", "ok", "bad"}, written : 0 .. Fragments, marked : BOOLEAN]
          /\ told' \in [fragments : 0 .. Fragments, done : BOOLEAN]
      BY <3>4
    <3>6. partials' \in [Kick!Attempts -> 0 .. Kick!Absent] /\ partials'[<<run, attempt + 1>>] = 0
      BY <1>1, <1>2, <3>1, <3>3
    <3>7. Kick!KickTypeOK'
      BY <3>1, <3>2, <3>5, <3>6 DEF KickInv, Kick!KickTypeOK, Kick!Working
    <3>8. AttemptsAreCounted'
      BY <3>1, <3>2 DEF AttemptsAreCounted, Kick!Working, Fetching
    <3>9. FileHasWhatWasTold'
      BY <3>1, <3>4, <3>6 DEF FileHasWhatWasTold, Fetching
    <3>10. OutputsAreNew'
      BY <1>1, <3>1, <3>2 DEF KickInv, OutputsAreNew, Kick!Attempts, Kick!Working
    <3> QED BY <3>7, <3>8, <3>9, <3>10 DEF KickInv
  <2> QED BY <2>1, <2>2
<1>4. CASE Kick!Read
  <2>1. /\ pc \in {"download", "drain"} /\ told' = [fragments |-> tool.written, done |-> tool.marked]
        /\ UNCHANGED <<run, saves, cancel, pc, attempt, tool, partials, finals>>
    BY <1>4 DEF Kick!Read
  <2>2. told' \in [fragments : 0 .. Fragments, done : BOOLEAN] /\ told'.fragments = tool.written
    BY <1>1, <2>1
  <2>3. Kick!KickTypeOK'
    BY <2>1, <2>2 DEF KickInv, Kick!KickTypeOK
  <2>4. AttemptsAreCounted' /\ OutputsAreNew'
    BY <2>1 DEF KickInv, AttemptsAreCounted, OutputsAreNew
  <2>5. FileHasWhatWasTold'
    BY <1>1, <2>1, <2>2 DEF KickInv, FileHasWhatWasTold, Fetching
  <2> QED BY <2>3, <2>4, <2>5 DEF KickInv
<1>5. CASE /\ UNCHANGED <<run, saves, cancel, attempt, tool, told, partials, finals>>
           /\ pc \in {"download", "drain"}
           /\ pc' = "drain" \/ (pc' = "publish" /\ told.fragments = Fragments)
  <2>1. Kick!KickTypeOK'
    BY <1>5 DEF KickInv, Kick!KickTypeOK, Kick!Working
  <2>2. AttemptsAreCounted' /\ OutputsAreNew'
    BY <1>5 DEF KickInv, AttemptsAreCounted, OutputsAreNew, Kick!Working, Fetching
  <2>3. FileHasWhatWasTold'
    BY <1>5 DEF KickInv, FileHasWhatWasTold, Fetching
  <2> QED BY <2>1, <2>2, <2>3 DEF KickInv
<1>6. CASE Kick!SeeExit
  <2>1. \/ pc \in {"download", "drain"} /\ Kick!FailAttempt /\ UNCHANGED <<Kick!job, Kick!files>>
        \/ /\ UNCHANGED <<run, saves, cancel, attempt, tool, told, partials, finals>>
           /\ pc \in {"download", "drain"} /\ pc' = "drain"
    BY <1>6 DEF Kick!SeeExit
  <2> QED BY <1>5, <2>1, FailAttemptKeeps
<1>7. CASE Kick!Judge
  <2>1. \/ Kick!End("returned") /\ UNCHANGED <<run, saves, cancel, partials, finals>>
        \/ pc \in {"download", "drain"} /\ Kick!FailAttempt /\ UNCHANGED <<Kick!job, Kick!files>>
        \/ /\ UNCHANGED <<run, saves, cancel, attempt, tool, told, partials, finals>>
           /\ pc \in {"download", "drain"} /\ pc' = "publish" /\ told.fragments = Fragments
    BY <1>7 DEF Kick!Judge, Kick!Complete
  <2>2. CASE Kick!End("returned") /\ UNCHANGED <<run, saves, cancel, partials, finals>>
    BY <1>1, <2>2, EndKeeps DEF Kick!Ended
  <2> QED BY <1>5, <2>1, <2>2, FailAttemptKeeps
<1>8. CASE Kick!Publish
  <2>1. PICK how \in Kick!Ended : Kick!End(how)
    BY <1>8 DEF Kick!Publish, Kick!Ended
  <2>2. /\ UNCHANGED <<run, saves, cancel>>
        /\ \/ UNCHANGED <<partials, finals>>
           \/ /\ finals' = [finals EXCEPT ![<<run, attempt>>] = partials[<<run, attempt>>]]
              /\ partials' = [partials EXCEPT ![<<run, attempt>>] = Kick!Absent]
    BY <1>8 DEF Kick!Publish, Kick!Output
  <2>3. <<run, attempt>> \in Kick!Attempts
    BY <1>1, <1>8 DEF Kick!Publish, KickInv, AttemptsAreCounted, Kick!Working, Fetching, Kick!Attempts
  <2>4. Kick!Absent \in 0 .. Kick!Absent
    BY DEF Kick!Absent
  <2>5. /\ partials' \in [Kick!Attempts -> 0 .. Kick!Absent]
        /\ finals' \in [Kick!Attempts -> 0 .. Kick!Absent]
        /\ \A a \in Kick!Attempts : partials'[a] \in {partials[a], Kick!Absent}
    BY <1>1, <2>2, <2>3, <2>4
  <2> QED BY <1>1, <2>1, <2>2, <2>5, EndKeeps
<1>9. CASE Kick!Fetch
  <2>1. /\ tool.exit = "run" /\ tool.written < Fragments /\ tool' = [tool EXCEPT !.written = tool.written + 1]
        /\ partials' = [partials EXCEPT ![<<run, attempt>>] = tool.written + 1]
        /\ UNCHANGED <<run, saves, cancel, pc, attempt, told, finals>>
    BY <1>9 DEF Kick!Fetch, Kick!Output
  <2>2. pc \in Fetching /\ pc # "publish"
    BY <1>1, <2>1 DEF KickInv, FileHasWhatWasTold, Fetching
  <2>3. <<run, attempt>> \in Kick!Attempts
    BY <1>1, <2>2 DEF KickInv, AttemptsAreCounted, Kick!Working, Fetching, Kick!Attempts
  <2>4. /\ tool' \in [exit : {"none", "run", "ok", "bad"}, written : 0 .. Fragments, marked : BOOLEAN]
        /\ tool'.written = tool.written + 1 /\ tool.written + 1 \in 0 .. Fragments
    BY <1>1, <2>1
  <2>5. partials' \in [Kick!Attempts -> 0 .. Kick!Absent] /\ partials'[<<run, attempt>>] = tool.written + 1
    BY <1>1, <1>2, <2>1, <2>3, <2>4
  <2>6. Kick!KickTypeOK'
    BY <2>1, <2>4, <2>5 DEF KickInv, Kick!KickTypeOK
  <2>7. AttemptsAreCounted'
    BY <2>1 DEF KickInv, AttemptsAreCounted
  <2>8. FileHasWhatWasTold'
    BY <1>1, <2>1, <2>2, <2>4, <2>5 DEF KickInv, FileHasWhatWasTold
  <2>9. OutputsAreNew'
    BY <1>1, <2>1, <2>3 DEF KickInv, OutputsAreNew, Kick!Attempts
  <2> QED BY <2>6, <2>7, <2>8, <2>9 DEF KickInv
<1>10. CASE Kick!Exit
  <2>1. PICK how \in {"ok", "bad"}, marked \in BOOLEAN :
          tool' = [tool EXCEPT !.exit = how, !.marked = marked]
    BY <1>10 DEF Kick!Exit
  <2>2. tool.exit = "run" /\ UNCHANGED <<run, saves, cancel, pc, attempt, told, partials, finals>>
    BY <1>10 DEF Kick!Exit
  <2>3. /\ tool' \in [exit : {"none", "run", "ok", "bad"}, written : 0 .. Fragments, marked : BOOLEAN]
        /\ tool'.written = tool.written
    BY <1>1, <2>1
  <2>4. Kick!KickTypeOK'
    BY <2>2, <2>3 DEF KickInv, Kick!KickTypeOK
  <2>5. AttemptsAreCounted' /\ OutputsAreNew' /\ FileHasWhatWasTold'
    BY <2>2, <2>3 DEF KickInv, AttemptsAreCounted, OutputsAreNew, FileHasWhatWasTold
  <2> QED BY <2>4, <2>5 DEF KickInv
<1> QED BY <1>3, <1>4, <1>6, <1>7, <1>8, <1>9, <1>10

\* KickInv is inductive.
LEMMA KickStep ==
  ASSUME KickBounds
  PROVE  KickInv /\ [Kick!Next]_(Kick!vars) => KickInv'
<1> SUFFICES ASSUME KickInv, [Kick!Next]_(Kick!vars) PROVE KickInv'
  OBVIOUS
<1>1. CASE Kick!Next
  BY <1>1, KickMoves, AttemptSteps DEF Kick!Next, Kick!TaskStep
<1>2. CASE UNCHANGED Kick!vars
  BY <1>2 DEF Kick!vars, Kick!job, Kick!files, KickInv, Kick!KickTypeOK, AttemptsAreCounted,
  FileHasWhatWasTold,
              OutputsAreNew
<1> QED BY <1>1, <1>2

\* A behaviour of the composition is one of KICK's jobs.
LEMMA KickPart == Spec => Kick!Spec
<1>1. Init => Kick!Init
  BY DEF Init
<1>2. [Next]_vars => [Kick!Next]_(Kick!vars)
  <2>1. Next => Kick!Next \/ UNCHANGED kick
    BY DEF Next, Only
  <2>2. UNCHANGED vars => UNCHANGED kick
    BY DEF vars
  <2>3. UNCHANGED kick => UNCHANGED Kick!vars
    BY DEF kick, Kick!vars, Kick!job, Kick!files
  <2> QED BY <2>1, <2>2, <2>3
<1> QED BY <1>1, <1>2, PTL DEF Spec, Kick!Spec

\* DownloadRun's initial state.
LEMMA KickRunInit ==
  ASSUME KickBounds
  PROVE  Kick!Init => Kick!Run!Init
<1> SUFFICES ASSUME Kick!Init PROVE Kick!Run!Init
  OBVIOUS
<1>1. run = 0 /\ saves = FALSE /\ cancel = FALSE /\ pc = "idle"
  BY DEF Kick!Init
<1>2. Kick!Kept = {}
  <2>1. Kick!Absent # Fragments
    BY DEF Kick!Absent, KickBounds
  <2>2. \A r \in 1 .. MaxRuns, k \in 1 .. MaxRetries : finals[<<r, k>>] = Kick!Absent
    BY DEF Kick!Init, Kick!Attempts
  <2> QED BY <2>1, <2>2, Zenon DEF Kick!Kept
<1>3. Kick!Phase = "idle"
  BY <1>1 DEF Kick!Phase, Kick!Working
<1> QED BY <1>1, <1>2, <1>3 DEF Kick!Run!Init

\* Every step of a job is one that DownloadRun allows.
LEMMA KickRunStep ==
  ASSUME KickBounds, KickInv, KickInv', [Kick!Next]_(Kick!vars)
  PROVE  [Kick!Run!Next]_(Kick!Run!vars)
<1> USE DEF KickBounds, Kick!job, Kick!files, Kick!Goto
<1>1. /\ finals \in [Kick!Attempts -> 0 .. Kick!Absent] /\ run \in 0 .. MaxRuns /\ attempt \in 0 .. MaxRetries
      /\ pc \in Kick!Working \cup Kick!Ended \cup {"idle"}
      /\ pc' \in Kick!Working \cup Kick!Ended \cup {"idle"}
  BY DEF KickInv, Kick!KickTypeOK
<1>2. finals' = finals => Kick!Kept' = Kick!Kept
  BY DEF Kick!Kept
<1>3. \A w \in Kick!Working : w \notin Kick!Ended /\ w # "idle"
  BY DEF Kick!Working, Kick!Ended
<1>4. CASE Kick!Phase' = Kick!Phase /\ UNCHANGED <<run, saves, cancel, finals>>
  BY <1>2, <1>4 DEF Kick!Run!vars
<1>5. CASE UNCHANGED <<run, saves, finals>> /\ pc # "idle" /\ pc' = "idle" /\ cancel' = FALSE
  <2>1. Kick!Phase # "idle" /\ Kick!Phase' = "idle"
    BY <1>1, <1>3, <1>5 DEF Kick!Phase, Kick!Working
  <2> QED BY <1>2, <1>5, <2>1 DEF Kick!Run!Next, Kick!Run!Over
<1>6. CASE UNCHANGED <<run, saves, cancel, finals>> /\ pc \in Kick!Working /\ pc' = "failed"
  <2>1. Kick!Phase = "work" /\ Kick!Phase' = "failed"
    BY <1>6 DEF Kick!Phase, Kick!Working
  <2> QED BY <1>2, <1>6, <2>1 DEF Kick!Run!Next, Kick!Run!Fail
<1>7. CASE UNCHANGED <<run, saves, cancel, finals>> /\ pc \in Kick!Working /\ cancel /\ pc' = "returned"
  <2>1. Kick!Phase = "work" /\ Kick!Phase' = "returned"
    BY <1>7 DEF Kick!Phase, Kick!Working
  <2> QED BY <1>2, <1>7, <2>1 DEF Kick!Run!Next, Kick!Run!GiveUp
<1>8. CASE /\ UNCHANGED <<run, saves, cancel>> /\ pc \in Kick!Working /\ pc' = "published"
           /\ Kick!Kept' = IF saves THEN Kick!Kept \cup {run} ELSE Kick!Kept
  <2>1. Kick!Phase = "work" /\ Kick!Phase' = "published"
    BY <1>8 DEF Kick!Phase, Kick!Working
  <2> QED BY <1>8, <2>1 DEF Kick!Run!Next, Kick!Run!Publish
<1>9. CASE Kick!Begin
  <2>1. pc = "idle" /\ run' = run + 1 /\ saves' \in BOOLEAN /\ cancel' = FALSE /\ pc' = "metadata"
          /\ finals' = finals
    BY <1>9 DEF Kick!Begin
  <2>2. Kick!Phase = "idle" /\ Kick!Phase' = "work"
    BY <2>1 DEF Kick!Phase, Kick!Working
  <2> QED BY <1>2, <2>1, <2>2 DEF Kick!Run!Next, Kick!Run!Begin
<1>10. CASE Kick!Flag
  <2>1. pc \in Kick!Working /\ cancel' = TRUE /\ UNCHANGED <<run, saves, pc, finals>>
    BY <1>10 DEF Kick!Flag
  <2>2. Kick!Phase = "work" /\ Kick!Phase' = Kick!Phase
    BY <2>1 DEF Kick!Phase
  <2> QED BY <1>2, <2>1, <2>2 DEF Kick!Run!Next, Kick!Run!Flag
<1>11. CASE Kick!Metadata
  <2>1. /\ UNCHANGED <<run, saves, cancel, finals>> /\ pc \in Kick!Working
        /\ pc' = "failed" \/ (saves /\ pc' \in Kick!Working) \/ (~saves /\ pc' = "published")
    BY <1>11 DEF Kick!Metadata, Kick!End, Kick!Working
  <2>2. pc' \in Kick!Working => Kick!Phase' = Kick!Phase
    BY <2>1 DEF Kick!Phase
  <2> QED BY <1>2, <1>4, <1>6, <1>8, <2>1, <2>2
<1>12. CASE Kick!Attempt \/ Kick!SeeExit \/ Kick!GiveUpWaiting \/ Kick!Judge \/ Kick!Wait
  <2>1. /\ UNCHANGED <<run, saves, cancel, finals>> /\ pc \in Kick!Working
        /\ pc' = "failed" \/ (cancel /\ pc' = "returned") \/ pc' \in Kick!Working
    <3>1. CASE Kick!Attempt
      BY <3>1 DEF Kick!Attempt, Kick!End, Kick!Working
    <3>2. CASE Kick!SeeExit
      BY <3>2 DEF Kick!SeeExit, Kick!FailAttempt, Kick!End, Kick!Working
    <3>3. CASE Kick!GiveUpWaiting
      BY <3>3 DEF Kick!GiveUpWaiting, Kick!End, Kick!Working
    <3>4. CASE Kick!Judge
      BY <3>4 DEF Kick!Judge, Kick!FailAttempt, Kick!End, Kick!Working
    <3>5. CASE Kick!Wait
      BY <3>5 DEF Kick!Wait, Kick!End, Kick!Working
    <3> QED BY <1>12, <3>1, <3>2, <3>3, <3>4, <3>5
  <2>2. pc' \in Kick!Working => Kick!Phase' = Kick!Phase
    BY <2>1 DEF Kick!Phase
  <2> QED BY <1>4, <1>6, <1>7, <2>1, <2>2
<1>13. CASE Kick!Publish
  <2>1. /\ UNCHANGED <<run, saves, cancel>> /\ pc = "publish"
        /\ \/ UNCHANGED finals /\ (pc' = "failed" \/ (cancel /\ pc' = "returned"))
           \/ /\ pc' = "published"
              /\ finals' = [finals EXCEPT ![<<run, attempt>>] = partials[<<run, attempt>>]]
    BY <1>13 DEF Kick!Publish, Kick!End, Kick!Output
  <2>2. pc \in Kick!Working
    BY <2>1 DEF Kick!Working
  <2>3. CASE finals' = [finals EXCEPT ![<<run, attempt>>] = partials[<<run, attempt>>]] /\ pc' = "published"
    <3>1. run \in 1 .. MaxRuns /\ attempt \in 1 .. MaxRetries /\ saves
      BY <1>1, <2>1, <2>2 DEF KickInv, AttemptsAreCounted, Fetching
    <3>2. <<run, attempt>> \in Kick!Attempts
      BY <3>1 DEF Kick!Attempts
    <3>3. partials[<<run, attempt>>] = Fragments
      BY <2>1 DEF KickInv, Kick!KickTypeOK, FileHasWhatWasTold, Fetching
    <3>4. Kick!Kept' = Kick!Kept \cup {run}
      <4>1. finals'[<<run, attempt>>] = Fragments
        BY <1>1, <2>3, <3>2, <3>3
      <4>2. \A r \in 1 .. MaxRuns, k \in 1 .. MaxRetries :
              finals'[<<r, k>>] = IF <<r, k>> = <<run, attempt>> THEN Fragments ELSE finals[<<r, k>>]
        BY <1>1, <2>3, <3>2, <3>3 DEF Kick!Attempts
      <4> QED BY <3>1, <4>1, <4>2 DEF Kick!Kept
    <3> QED BY <1>8, <2>1, <2>2, <2>3, <3>1, <3>4
  <2> QED BY <1>6, <1>7, <2>1, <2>2, <2>3
<1>14. CASE Kick!Read \/ Kick!Fetch \/ Kick!Exit \/ UNCHANGED Kick!vars
  <2>1. UNCHANGED <<run, saves, cancel, pc, finals>>
    BY <1>14 DEF Kick!Read, Kick!Fetch, Kick!Exit, Kick!vars
  <2> QED BY <1>4, <2>1 DEF Kick!Phase
<1>15. CASE Kick!Over \/ Kick!Crash
  <2>1. UNCHANGED <<run, saves, finals>> /\ pc # "idle" /\ pc' = "idle" /\ cancel' = FALSE
    BY <1>3, <1>15 DEF Kick!Over, Kick!Crash, Kick!End, Kick!Ended
  <2> QED BY <1>5, <2>1
<1> QED BY <1>9, <1>10, <1>11, <1>12, <1>13, <1>14, <1>15 DEF Kick!Next, Kick!TaskStep

\* No step touches what an earlier attempt downloaded.
LEMMA KickFilesStay ==
  ASSUME KickBounds, KickInv, [Kick!Next]_(Kick!vars), ~ UNCHANGED Kick!vars,
         NEW a \in Kick!Attempts, partials[a] # Kick!Absent, tool.exit # "run" \/ a # <<run, attempt>>
  PROVE  partials'[a] = partials[a] \/ finals'[a] = partials[a]
<1> USE DEF KickBounds, Kick!job, Kick!files
<1>1. /\ partials \in [Kick!Attempts -> 0 .. Kick!Absent] /\ finals \in [Kick!Attempts -> 0 .. Kick!Absent]
      /\ run \in 0 .. MaxRuns /\ attempt \in 0 .. MaxRetries
  BY DEF KickInv, Kick!KickTypeOK
<1>2. CASE partials' = partials
  BY <1>2
<1>3. CASE Kick!Attempt
  <2>1. CASE partials' = [partials EXCEPT ![<<run, attempt + 1>>] = 0]
    <3>1. pc \in Kick!Working
      BY <1>3 DEF Kick!Attempt, Kick!Working
    <3>2. PICK r \in 1 .. MaxRuns, k \in 1 .. MaxRetries : a = <<r, k>>
      BY DEF Kick!Attempts
    <3>3. r <= run /\ (r = run => k <= attempt)
      BY <3>1, <3>2 DEF KickInv, OutputsAreNew
    <3>4. a # <<run, attempt + 1>>
      BY <1>1, <3>2, <3>3
    <3> QED BY <1>1, <2>1, <3>4
  <2> QED BY <1>2, <1>3, <2>1 DEF Kick!Attempt, Kick!Output
<1>4. CASE Kick!Fetch
  <2>1. tool.exit = "run" /\ partials' = [partials EXCEPT ![<<run, attempt>>] = tool.written + 1]
    BY <1>4 DEF Kick!Fetch, Kick!Output
  <2> QED BY <1>1, <2>1
<1>5. CASE Kick!Publish
  <2>1. CASE /\ finals' = [finals EXCEPT ![<<run, attempt>>] = partials[<<run, attempt>>]]
             /\ partials' = [partials EXCEPT ![<<run, attempt>>] = Kick!Absent]
    BY <1>1, <2>1
  <2> QED BY <1>2, <1>5, <2>1 DEF Kick!Publish, Kick!Output
<1>6. Kick!Begin \/ Kick!Metadata \/ Kick!Read \/ Kick!SeeExit \/ Kick!GiveUpWaiting \/ Kick!Judge
        \/ Kick!Wait
      \/ Kick!Exit \/ Kick!Flag \/ Kick!Over \/ Kick!Crash => partials' = partials
  BY DEF Kick!Begin, Kick!Metadata, Kick!Read, Kick!SeeExit, Kick!GiveUpWaiting, Kick!Judge, Kick!Wait,
         Kick!Exit, Kick!Flag, Kick!Over, Kick!Crash
<1> QED BY <1>2, <1>3, <1>4, <1>5, <1>6 DEF Kick!Next, Kick!TaskStep

\* A KICK job keeps its promise to the facade and the queue: what it reports COMPLETED has every
\* fragment and stays (load_metadata, download_ts, publish_ts); and no later attempt or job
\* touches what an earlier one downloaded.
THEOREM KickJobsKeepTheirPromise == Spec => KickRun
<1>1. KickBounds
  BY PartsAssumption DEF KickBounds
<1>2. Kick!Init => KickInv
  BY <1>1, KickInit
<1>3. KickInv /\ [Kick!Next]_(Kick!vars) => KickInv'
  BY <1>1, KickStep
<1>4. KickInv => Kick!KickTypeOK
  BY DEF KickInv
<1>5. Kick!Init => Kick!Run!Init
  BY <1>1, KickRunInit
<1>6. KickInv /\ KickInv' /\ [Kick!Next]_(Kick!vars) => [Kick!Run!Next]_(Kick!Run!vars)
  BY <1>1, KickRunStep
<1>7. KickInv /\ [Kick!Next]_(Kick!vars) =>
        [\A a \in Kick!Attempts : partials[a] # Kick!Absent /\ (tool.exit # "run" \/ a # <<run, attempt>>)
           => partials'[a] = partials[a] \/ finals'[a] = partials[a]]_(Kick!vars)
  <2> SUFFICES ASSUME KickInv, [Kick!Next]_(Kick!vars), ~ UNCHANGED Kick!vars
               PROVE  \A a \in Kick!Attempts :
                        partials[a] # Kick!Absent /\ (tool.exit # "run" \/ a # <<run, attempt>>)
                          => partials'[a] = partials[a] \/ finals'[a] = partials[a]
    OBVIOUS
  <2> QED BY <1>1, KickFilesStay
<1> QED BY <1>2, <1>3, <1>4, <1>5, <1>6, <1>7, KickPart, PTL
        DEF KickRun, Kick!KickIsSound, Kick!Spec, Kick!KickRun, Kick!Run!Spec, Kick!EarlierFilesStay

----------------------------------------------------------------------------
\* CHZZK downloads, for any processes, names, attempts and jobs.

\* Where a job has the claim of a name, and where its directory is its own.
Claiming == {"recheck", "attempt", "pipe", "finalize", "copy", "copying", "copied"}
Storing  == {"finalize", "copy", "copying", "copied"}
Naming   == {"look", "lock"} \cup Claiming
Owning   == {"metadata"} \cup Naming

\* A job j of p has the sidecar's inode, the lock, and a name to write to, as far as it got.
ClaimIsHeld(j, an) ==
  /\ j.claim <=> j.pc \in Claiming
  /\ j.inode # 0 <=> j.pc \in Claiming \cup {"lock"}
  /\ j.pc \in Claiming \cup {"lock"} => j.name \in Chzzk!Names /\ an[j.name] = j.inode
  /\ j.pc = "look" => j.name >= 1

\* The creation lock covers the directory until its owner's lock does.
DirIsOwned(p, j, ds, cr) ==
  /\ j.owner <=> j.pc \in Owning
  /\ cr = p <=> j.pc \in {"naming", "owning"}
  /\ j.pc \in Owning \cup {"owning"} => <<p, j.run>> \in ds
  /\ j.pc \in Chzzk!Ended => <<p, j.run>> \notin ds

\* Only a whole download gets to a final name, however often the job changes the name.
DownloadIsWhole(j) ==
  /\ j.pc \in Chzzk!Working \cup Chzzk!Ended => j.run >= 1
  /\ j.pc \in Naming => j.saves
  /\ j.pc \in {"dir", "naming", "owning", "metadata", "attempt"} => j.staged = "none"
  /\ j.pc \in Storing => j.staged = "whole"
  /\ j.pc # "pipe" => j.staged # "partial"
  /\ j.pc = "pipe" /\ j.ffmpeg = "ok" => j.staged = "whole"
  /\ j.pc \in Chzzk!Working \ {"pipe"} /\ j.staged = "none" => j.attempt < MaxTries

\* A .finalizing file of the running job is where its claim is.
CopyIsClaimed(p, j, tm) ==
  /\ \A n \in Chzzk!Names, r \in Chzzk!Runs :
       tm[n].by = <<p, r>> =>
         /\ r <= j.run
         /\ r = j.run => j.pc \in {"boot", "idle"} \/ (j.pc \in {"copying", "copied"} /\ n = j.name)
  /\ j.pc \in {"copying", "copied"} => tm[j.name].by = <<p, j.run>>
  /\ j.pc = "copied" => tm[j.name].whole

\* All of it, of one job and the disk.
JobIsSound(p, j, ds, cr, an, tm) ==
  ClaimIsHeld(j, an) /\ DirIsOwned(p, j, ds, cr) /\ DownloadIsWhole(j) /\ CopyIsClaimed(p, j, tm)

\* The inductive invariant of the CHZZK jobs: two of them never hold one lock.
ChzzkInv ==
  /\ Chzzk!ChzzkTypeOK
  /\ \A p \in Procs : JobIsSound(p, task[p], dirs, creation, anchors, temps)
  /\ \A p, q \in Procs : p # q /\ task[p].claim /\ task[q].claim => task[p].inode # task[q].inode

\* What the proofs need of the constants.
ChzzkBounds ==
  /\ LastName \in Nat \ {0} /\ MaxTries \in Nat \ {0} /\ MaxRuns \in Nat \ {0}
  /\ IsFiniteSet(Procs) /\ NoProc \notin Procs

\* The module's instance of Cardinality is the library's.
LEMMA ChzzkCardinality == ASSUME NEW S PROVE Chzzk!Cardinality(S) = Cardinality(S)
  BY Zenon DEF Chzzk!Cardinality, Chzzk!IsFiniteSet, Cardinality, IsFiniteSet

\* A sidecar that is to be created has an inode that is not used.
LEMMA InodeIsFree ==
  ASSUME ChzzkBounds, Chzzk!ChzzkTypeOK, NEW n \in Chzzk!Names, anchors[n] = 0
  PROVE  Chzzk!FreeInode \in Chzzk!Inodes
<1> DEFINE Others == Chzzk!Names \ {n}
           A == {anchors[m] : m \in Others}
           B == {task[q].inode : q \in Procs}
           Used == {anchors[m] : m \in Chzzk!Names} \cup B
           Free == Chzzk!Inodes \ Used
<1>1. Chzzk!Inodes = 1 .. (LastName + Cardinality(Procs))
  BY ChzzkCardinality DEF Chzzk!Inodes
<1>2. Cardinality(Procs) \in Nat
  BY FS_CardinalityType DEF ChzzkBounds
<1>3. IsFiniteSet(A) /\ Cardinality(A) <= LastName - 1 /\ Cardinality(A) \in Nat
  <2>1. IsFiniteSet(Chzzk!Names) /\ Cardinality(Chzzk!Names) = LastName
    BY FS_Interval DEF Chzzk!Names, ChzzkBounds
  <2>2. IsFiniteSet(Others) /\ Cardinality(Others) = LastName - 1
    BY <2>1, FS_RemoveElement
  <2> DEFINE f == [m \in Others |-> anchors[m]]
  <2>3. f \in Surjection(Others, A)
    BY DEF Surjection
  <2> HIDE DEF f, A
  <2>4. IsFiniteSet(A) /\ Cardinality(A) <= Cardinality(Others)
    BY <2>2, <2>3, FS_Surjection
  <2>5. Cardinality(A) \in Nat
    BY <2>4, FS_CardinalityType
  <2> QED BY <2>2, <2>4, <2>5
<1>4. IsFiniteSet(B) /\ Cardinality(B) <= Cardinality(Procs) /\ Cardinality(B) \in Nat
  <2> DEFINE f == [q \in Procs |-> task[q].inode]
  <2>1. f \in Surjection(Procs, B)
    BY DEF Surjection
  <2> HIDE DEF f, B
  <2>2. IsFiniteSet(B) /\ Cardinality(B) <= Cardinality(Procs)
    BY <2>1, FS_Surjection DEF ChzzkBounds
  <2>3. Cardinality(B) \in Nat
    BY <2>2, FS_CardinalityType
  <2> QED BY <2>2, <2>3
<1>5. Free # {}
  <2> SUFFICES ASSUME Free = {} PROVE FALSE
    OBVIOUS
  <2>1. Chzzk!Inodes \subseteq A \cup B
    <3>1. 0 \notin Chzzk!Inodes
      BY <1>1, <1>2 DEF ChzzkBounds
    <3> QED BY <3>1
  <2> HIDE DEF A, B
  <2>2. IsFiniteSet(A \cup B)
          /\ Cardinality(A \cup B) = Cardinality(A) + Cardinality(B) - Cardinality(A \cap B)
    BY <1>3, <1>4, FS_Union
  <2>3. Cardinality(A \cap B) \in Nat
    BY <1>3, FS_Subset, FS_CardinalityType
  <2>4. Cardinality(Chzzk!Inodes) <= Cardinality(A \cup B)
    BY <2>1, <2>2, FS_Subset
  <2>5. Cardinality(Chzzk!Inodes) = LastName + Cardinality(Procs)
    BY <1>1, <1>2, FS_Interval DEF ChzzkBounds
  <2> QED BY <1>2, <1>3, <1>4, <2>2, <2>3, <2>4, <2>5 DEF ChzzkBounds
<1>6. Free \subseteq Nat
  BY <1>1, <1>2 DEF ChzzkBounds
<1>7. Chzzk!FreeInode = Chzzk!Min(Free)
  BY Zenon DEF Chzzk!FreeInode
<1> HIDE DEF Free
<1> DEFINE Less == OpToRel(<, Nat)
<1>8. PICK least \in Free : \A y \in Free : <<y, least>> \notin Less
  <2> HIDE DEF Less
  <2> QED BY <1>5, <1>6, WFMin, NatLessThanWellFounded DEF Less
<1>9. \A y \in Free : least <= y
  <2>1. \A c, d \in Nat : d < c => <<d, c>> \in Less
    BY DEF OpToRel
  <2> HIDE DEF Less
  <2>2. least \in Nat
    BY <1>6, <1>8
  <2>3. ASSUME NEW y \in Free PROVE ~ (y < least)
    <3>1. y \in Nat /\ <<y, least>> \notin Less
      BY <1>6, <1>8
    <3> QED BY <2>1, <2>2, <3>1
  <2> QED BY <1>6, <2>2, <2>3
<1>10. Chzzk!Min(Free) \in Free
  BY <1>9, Zenon DEF Chzzk!Min
<1> QED BY <1>7, <1>10 DEF Free

\* What the step of one job must not do to the others.
Apart(p) ==
  \A q \in Procs \ {p} :
    /\ task[q].pc \in Owning \cup {"owning"} /\ <<q, task[q].run>> \in dirs => <<q, task[q].run>> \in dirs'
    /\ <<q, task[q].run>> \in dirs' => <<q, task[q].run>> \in dirs
    /\ creation' = q <=> creation = q
    /\ \A n \in Chzzk!Names : anchors[n] # 0 => anchors'[n] = anchors[n]
    /\ \A n \in Chzzk!Names, r \in Chzzk!Runs : temps'[n].by = <<q, r>> => temps'[n] = temps[n]
    /\ task[q].claim => temps'[task[q].name] = temps[task[q].name]

\* A job that is apart from a step stays sound.
LEMMA OtherJobsStay ==
  ASSUME ChzzkBounds, ChzzkInv, NEW p \in Procs, NEW q \in Procs \ {p}, Apart(p)
  PROVE  JobIsSound(q, task[q], dirs', creation', anchors', temps')
<1> DEFINE j == task[q]
<1>1. JobIsSound(q, j, dirs, creation, anchors, temps)
  BY DEF ChzzkInv
<1>2. /\ j.pc \in Owning \cup {"owning"} /\ <<q, j.run>> \in dirs => <<q, j.run>> \in dirs'
      /\ <<q, j.run>> \in dirs' => <<q, j.run>> \in dirs
      /\ creation' = q <=> creation = q
      /\ \A n \in Chzzk!Names : anchors[n] # 0 => anchors'[n] = anchors[n]
      /\ \A n \in Chzzk!Names, r \in Chzzk!Runs : temps'[n].by = <<q, r>> => temps'[n] = temps[n]
      /\ j.claim => temps'[j.name] = temps[j.name]
  BY DEF Apart
<1> HIDE DEF j
<1>3. ClaimIsHeld(j, anchors')
  BY <1>1, <1>2 DEF JobIsSound, ClaimIsHeld
<1>4. DirIsOwned(q, j, dirs', creation')
  BY <1>1, <1>2 DEF JobIsSound, DirIsOwned
<1>5. DownloadIsWhole(j)
  BY <1>1 DEF JobIsSound
<1>6. CopyIsClaimed(q, j, temps')
  <2>1. j.pc \in {"copying", "copied"} => temps'[j.name] = temps[j.name]
    BY <1>1, <1>2 DEF JobIsSound, ClaimIsHeld, Claiming
  <2> QED BY <1>1, <1>2, <2>1 DEF JobIsSound, CopyIsClaimed
<1> QED BY <1>3, <1>4, <1>5, <1>6 DEF JobIsSound, j

\* The step of one job, which becomes j.
LEMMA OneJob ==
  ASSUME ChzzkBounds, ChzzkInv, NEW p \in Procs, NEW j \in Chzzk!Jobs,
         task' = [task EXCEPT ![p] = j], Apart(p),
         JobIsSound(p, j, dirs', creation', anchors', temps'),
         dirs' \subseteq Procs \X Chzzk!Runs, creation' \in Procs \cup {NoProc},
         anchors' \in [Chzzk!Names -> Chzzk!Inodes \cup {0}],
         published' \in [Chzzk!Names -> Chzzk!File \cup {Chzzk!NoFile}],
         temps' \in [Chzzk!Names -> Chzzk!File \cup {Chzzk!NoFile}],
         reported' \subseteq [proc : Procs, run : Chzzk!Runs, name : Chzzk!Names],
         j.claim => (task[p].claim /\ j.inode = task[p].inode) \/ ~ Chzzk!Locked(j.inode)
  PROVE  ChzzkInv'
<1>1. task \in [Procs -> Chzzk!Jobs]
  BY DEF ChzzkInv, Chzzk!ChzzkTypeOK
<1>2. task' \in [Procs -> Chzzk!Jobs] /\ task'[p] = j /\ \A q \in Procs \ {p} : task'[q] = task[q]
  BY <1>1
<1>3. Chzzk!ChzzkTypeOK'
  BY <1>2 DEF Chzzk!ChzzkTypeOK, Chzzk!None
<1>4. ASSUME NEW q \in Procs
      PROVE  JobIsSound(q, task'[q], dirs', creation', anchors', temps')
  BY <1>2, <1>4, OtherJobsStay
<1>5. ASSUME NEW q \in Procs \ {p}, j.claim, task[q].claim
      PROVE  j.inode # task[q].inode
  <2>1. CASE task[p].claim /\ j.inode = task[p].inode
    BY <1>5, <2>1 DEF ChzzkInv
  <2>2. CASE ~ Chzzk!Locked(j.inode)
    BY <1>5, <2>2 DEF Chzzk!Locked
  <2> QED BY <1>5, <2>1, <2>2
<1>6. \A q, r \in Procs : q # r /\ task'[q].claim /\ task'[r].claim => task'[q].inode # task'[r].inode
  BY <1>2, <1>5 DEF ChzzkInv
<1> QED BY <1>3, <1>4, <1>6 DEF ChzzkInv

\* No file has no writer.
LEMMA NoFileHasNoWriter == \A q, r : Chzzk!NoFile.by # <<q, r>>
<1>1. \A q, r : Len(<<q, r>>) = 2 /\ Len(<< >>) = 0
  OBVIOUS
<1>2. Chzzk!NoFile.by = << >> /\ Chzzk!NoFile.whole = FALSE
  BY DEF Chzzk!NoFile
<1> QED BY <1>1, <1>2

\* Two claims are of two names.
LEMMA ClaimedNames ==
  ASSUME ChzzkInv, NEW p \in Procs, NEW q \in Procs \ {p}, task[p].claim, task[q].claim
  PROVE  task[p].name # task[q].name
<1>1. ClaimIsHeld(task[p], anchors) /\ ClaimIsHeld(task[q], anchors)
  BY DEF ChzzkInv, JobIsSound
<1>2. anchors[task[p].name] = task[p].inode /\ anchors[task[q].name] = task[q].inode
  BY <1>1 DEF ClaimIsHeld
<1>3. task[p].inode # task[q].inode
  BY DEF ChzzkInv
<1> QED BY <1>2, <1>3

\* The steps of a job that only touch its own directory, lock and .finalizing file.
LEMMA StaysApart ==
  ASSUME ChzzkBounds, ChzzkInv, NEW p \in Procs,
         dirs' \in {dirs, dirs \cup {<<p, task[p].run>>}, dirs \ {<<p, task[p].run>>}},
         creation' = creation \/ (creation = p /\ creation' = NoProc) \/ (creation = NoProc /\ creation' = p),
         \A n \in Chzzk!Names : anchors[n] # 0 => anchors'[n] = anchors[n],
         NEW f, f.by = <<p, task[p].run>> \/ f = Chzzk!NoFile,
         temps' = temps \/ (task[p].claim /\ temps' = [temps EXCEPT ![task[p].name] = f])
  PROVE  Apart(p)
<1> SUFFICES ASSUME NEW q \in Procs \ {p}
             PROVE  /\ task[q].pc \in Owning \cup {"owning"} /\ <<q, task[q].run>> \in dirs
                         => <<q, task[q].run>> \in dirs'
                    /\ <<q, task[q].run>> \in dirs' => <<q, task[q].run>> \in dirs
                    /\ creation' = q <=> creation = q
                    /\ \A n \in Chzzk!Names : anchors[n] # 0 => anchors'[n] = anchors[n]
                    /\ \A n \in Chzzk!Names, r \in Chzzk!Runs : temps'[n].by = <<q, r>> => temps'[n] = temps[n]
                    /\ task[q].claim => temps'[task[q].name] = temps[task[q].name]
  BY DEF Apart
<1>1. <<q, task[q].run>> \in dirs' <=> <<q, task[q].run>> \in dirs
  <2>1. <<q, task[q].run>> # <<p, task[p].run>>
    OBVIOUS
  <2> QED BY <2>1
<1>2. creation' = q <=> creation = q
  BY DEF ChzzkBounds
<1>3. temps \in [Chzzk!Names -> Chzzk!File \cup {Chzzk!NoFile}]
  BY DEF ChzzkInv, Chzzk!ChzzkTypeOK
<1>4. CASE temps' = temps
  BY <1>1, <1>2, <1>4
<1>5. CASE temps' # temps
  <2>1. task[p].claim /\ temps' = [temps EXCEPT ![task[p].name] = f]
    BY <1>5
  <2>2. \A r : f.by # <<q, r>>
    BY NoFileHasNoWriter
  <2>3. \A n \in Chzzk!Names : temps'[n] = temps[n] \/ temps'[n] = f
    BY <1>3, <2>1
  <2>4. task[q].claim => temps'[task[q].name] = temps[task[q].name]
    <3> SUFFICES ASSUME task[q].claim PROVE temps'[task[q].name] = temps[task[q].name]
      OBVIOUS
    <3>1. task[q].name # task[p].name
      BY <2>1, ClaimedNames
    <3>2. task[q].name \in Chzzk!Names
      BY DEF ChzzkInv, JobIsSound, ClaimIsHeld
    <3> QED BY <1>3, <2>1, <3>1, <3>2
  <2> QED BY <1>1, <1>2, <2>2, <2>3, <2>4
<1> QED BY <1>4, <1>5

\* What ChzzkInv says of one job.
LEMMA JobFacts ==
  ASSUME ChzzkInv, NEW p \in Procs
  PROVE  /\ task \in [Procs -> Chzzk!Jobs] /\ task[p] \in Chzzk!Jobs
         /\ ClaimIsHeld(task[p], anchors) /\ DirIsOwned(p, task[p], dirs, creation)
         /\ DownloadIsWhole(task[p]) /\ CopyIsClaimed(p, task[p], temps)
         /\ dirs \subseteq Procs \X Chzzk!Runs /\ creation \in Procs \cup {NoProc}
         /\ anchors \in [Chzzk!Names -> Chzzk!Inodes \cup {0}]
         /\ published \in [Chzzk!Names -> Chzzk!File \cup {Chzzk!NoFile}]
         /\ temps \in [Chzzk!Names -> Chzzk!File \cup {Chzzk!NoFile}]
         /\ reported \subseteq [proc : Procs, run : Chzzk!Runs, name : Chzzk!Names]
  BY DEF ChzzkInv, JobIsSound, Chzzk!ChzzkTypeOK, Chzzk!None

\* A job that ends drops its claim with the .finalizing file, its directory and the lock on it.
LEMMA JobEnds ==
  ASSUME ChzzkBounds, ChzzkInv, NEW p \in Procs, task[p].pc \in Chzzk!Working,
         NEW how \in Chzzk!Ended, Chzzk!End(p, how),
         published' \in [Chzzk!Names -> Chzzk!File \cup {Chzzk!NoFile}],
         reported' \subseteq [proc : Procs, run : Chzzk!Runs, name : Chzzk!Names]
  PROVE  ChzzkInv'
<1> DEFINE j == [Chzzk!Unclaimed(task[p]) EXCEPT !.pc = how, !.owner = FALSE, !.staged = "none",
                                         !.streamlink = "none", !.ffmpeg = "none", !.attempt = 0]
<1>1. /\ task[p] \in Chzzk!Jobs /\ task \in [Procs -> Chzzk!Jobs]
      /\ ClaimIsHeld(task[p], anchors) /\ DirIsOwned(p, task[p], dirs, creation)
      /\ DownloadIsWhole(task[p]) /\ CopyIsClaimed(p, task[p], temps)
      /\ dirs \subseteq Procs \X Chzzk!Runs /\ creation \in Procs \cup {NoProc}
      /\ anchors \in [Chzzk!Names -> Chzzk!Inodes \cup {0}]
      /\ temps \in [Chzzk!Names -> Chzzk!File \cup {Chzzk!NoFile}]
  BY JobFacts
<1>2. /\ task' = [task EXCEPT ![p] = j] /\ dirs' = dirs \ {<<p, task[p].run>>} /\ anchors' = anchors
      /\ creation' = IF creation = p THEN NoProc ELSE creation
      /\ temps' = IF task[p].claim THEN [temps EXCEPT ![task[p].name] = Chzzk!NoFile] ELSE temps
  BY DEF Chzzk!End, Chzzk!Become, Chzzk!TempsAfter, Chzzk!AnchorsAfter, Chzzk!Target, Chzzk!Self
<1>3. how \notin Chzzk!Working /\ how \notin Claiming /\ how \notin Owning /\ how \notin Naming
        /\ how \notin Storing
      /\ how \notin {"look", "lock", "boot", "idle", "dir", "naming", "owning", "metadata", "attempt", "pipe",
                      "copying", "copied"}
  BY DEF Chzzk!Working, Chzzk!Ended, Claiming, Owning, Naming, Storing
<1>4. 0 \in 0 .. MaxTries /\ 0 \in 0 .. LastName + 1
  BY DEF ChzzkBounds
<1>5. /\ j \in Chzzk!Jobs /\ j.pc = how /\ j.run = task[p].run /\ j.claim = FALSE /\ j.inode = 0
      /\ j.owner = FALSE
      /\ j.staged = "none"
  BY <1>1, <1>4 DEF Chzzk!Jobs, Chzzk!Unclaimed, Chzzk!None, Chzzk!Exits
<1> HIDE DEF j
<1>6. Apart(p)
  <2>1. creation' = creation \/ (creation = p /\ creation' = NoProc) \/ (creation = NoProc /\ creation' = p)
    BY <1>2
  <2>2. dirs' \in {dirs, dirs \cup {<<p, task[p].run>>}, dirs \ {<<p, task[p].run>>}}
    BY <1>2
  <2>3. \A n \in Chzzk!Names : anchors[n] # 0 => anchors'[n] = anchors[n]
    BY <1>2
  <2>4. temps' = temps \/ (task[p].claim /\ temps' = [temps EXCEPT ![task[p].name] = Chzzk!NoFile])
    BY <1>2
  <2> QED BY <2>1, <2>2, <2>3, <2>4, StaysApart
<1>7. temps' \in [Chzzk!Names -> Chzzk!File \cup {Chzzk!NoFile}]
  BY <1>1, <1>2
<1>8. ClaimIsHeld(j, anchors')
  BY <1>3, <1>5 DEF ClaimIsHeld
<1>9. DirIsOwned(p, j, dirs', creation')
  BY <1>2, <1>3, <1>5 DEF DirIsOwned, ChzzkBounds
<1>10. DownloadIsWhole(j)
  BY <1>1, <1>3, <1>5 DEF DownloadIsWhole
<1>11. CopyIsClaimed(p, j, temps')
  <2>1. ASSUME NEW n \in Chzzk!Names, NEW r \in Chzzk!Runs, temps'[n].by = <<p, r>>
        PROVE  r <= j.run /\ r # j.run
    <3>1. temps'[n] = temps[n]
      BY <1>1, <1>2, <2>1, NoFileHasNoWriter
    <3>2. task[p].pc \in {"copying", "copied"} => task[p].claim /\ task[p].name \in Chzzk!Names
      BY <1>1 DEF ClaimIsHeld, Claiming
    <3>3. ~ (task[p].pc \in {"copying", "copied"} /\ n = task[p].name)
      BY <1>1, <1>2, <2>1, <3>2, NoFileHasNoWriter
    <3>4. task[p].pc \notin {"boot", "idle"}
      BY DEF Chzzk!Working
    <3> QED BY <1>1, <1>5, <2>1, <3>1, <3>3, <3>4 DEF CopyIsClaimed
  <2> QED BY <1>3, <1>5, <2>1 DEF CopyIsClaimed
<1>12. dirs' \subseteq Procs \X Chzzk!Runs /\ creation' \in Procs \cup {NoProc}
      /\ anchors' \in [Chzzk!Names -> Chzzk!Inodes \cup {0}]
  BY <1>1, <1>2
<1> QED BY <1>2, <1>5, <1>6, <1>7, <1>8, <1>9, <1>10, <1>11, <1>12, OneJob DEF JobIsSound

\* A job that goes on, and touches nothing but perhaps the .finalizing file of its claim.
LEMMA JobGoesOn ==
  ASSUME ChzzkBounds, ChzzkInv, NEW p \in Procs, NEW j \in Chzzk!Jobs, task' = [task EXCEPT ![p] = j],
         UNCHANGED <<dirs, creation, anchors, published, reported>>,
         NEW f \in Chzzk!File \cup {Chzzk!NoFile}, f.by = <<p, task[p].run>> \/ f = Chzzk!NoFile,
         temps' = temps \/ (task[p].claim /\ temps' = [temps EXCEPT ![task[p].name] = f]),
         ClaimIsHeld(j, anchors), DirIsOwned(p, j, dirs, creation), DownloadIsWhole(j), CopyIsClaimed(p, j,
         temps'),
         j.claim => (task[p].claim /\ j.inode = task[p].inode) \/ ~ Chzzk!Locked(j.inode)
  PROVE  ChzzkInv'
<1>1. Apart(p)
  <2>1. dirs' \in {dirs, dirs \cup {<<p, task[p].run>>}, dirs \ {<<p, task[p].run>>}}
    OBVIOUS
  <2> QED BY <2>1, StaysApart
<1>2. JobIsSound(p, j, dirs', creation', anchors', temps')
  BY DEF JobIsSound
<1>3. /\ dirs' \subseteq Procs \X Chzzk!Runs /\ creation' \in Procs \cup {NoProc}
      /\ anchors' \in [Chzzk!Names -> Chzzk!Inodes \cup {0}]
      /\ published' \in [Chzzk!Names -> Chzzk!File \cup {Chzzk!NoFile}]
      /\ reported' \subseteq [proc : Procs, run : Chzzk!Runs, name : Chzzk!Names]
  BY JobFacts
<1>4. temps' \in [Chzzk!Names -> Chzzk!File \cup {Chzzk!NoFile}]
  BY JobFacts
<1> QED BY <1>1, <1>2, <1>3, <1>4, OneJob

\* While a job writes no .finalizing file there is none of it.
LEMMA NoCopyYet ==
  ASSUME ChzzkInv, NEW p \in Procs, NEW j, j.run = task[p].run, j.pc \notin {"copying", "copied"},
         task[p].pc \in (Chzzk!Working \cup Chzzk!Ended) \ {"copying", "copied"}
  PROVE  CopyIsClaimed(p, j, temps)
<1>1. CopyIsClaimed(p, task[p], temps)
  BY JobFacts
<1>2. task[p].pc \notin {"boot", "idle", "copying", "copied"}
  BY DEF Chzzk!Working, Chzzk!Ended
<1> QED BY <1>1, <1>2 DEF CopyIsClaimed

\* A job whose .finalizing file is removed has none.
LEMMA CopyIsGone ==
  ASSUME ChzzkInv, NEW p \in Procs, NEW j, j.run = task[p].run, j.pc \notin {"copying", "copied"},
         task[p].pc \in Claiming, temps' = [temps EXCEPT ![task[p].name] = Chzzk!NoFile]
  PROVE  CopyIsClaimed(p, j, temps')
<1>1. CopyIsClaimed(p, task[p], temps) /\ temps \in [Chzzk!Names -> Chzzk!File \cup {Chzzk!NoFile}]
  BY JobFacts
<1>2. task[p].pc \notin {"boot", "idle"}
  BY DEF Claiming
<1>3. ASSUME NEW n \in Chzzk!Names, NEW r \in Chzzk!Runs, temps'[n].by = <<p, r>>
      PROVE  r <= j.run /\ r # j.run
  <2>1. n # task[p].name /\ temps'[n] = temps[n]
    BY <1>1, <1>3, NoFileHasNoWriter
  <2> QED BY <1>1, <1>2, <1>3, <2>1 DEF CopyIsClaimed
<1> QED BY <1>3 DEF CopyIsClaimed

\* The places of a job, one in the other.
LEMMA Places ==
  /\ Claiming \subseteq Naming /\ Naming \subseteq Owning /\ Owning \subseteq Chzzk!Working
  /\ Storing \subseteq Claiming
  /\ \A pc1 \in Chzzk!Ended \cup {"boot", "idle", "dir", "naming", "owning"} : pc1 \notin Owning /\ pc1 \notin Naming
  /\ \A pc1 \in Chzzk!Ended \cup {"boot", "idle"} : pc1 \notin Chzzk!Working
  /\ \A pc1 \in {"boot", "idle", "dir", "naming", "owning", "metadata", "look", "lock"} : pc1 \notin Claiming
  /\ \A pc1 \in Chzzk!Working \cup {"boot", "idle"} : pc1 \notin Chzzk!Ended
  BY DEF Claiming, Naming, Owning, Storing, Chzzk!Working, Chzzk!Ended

\* On to a name, without a claim.
LEMMA LooksOn ==
  ASSUME ChzzkBounds, ChzzkInv, NEW p \in Procs, task[p].pc \in {"metadata"} \cup Naming,
  task[p].pc \notin {"attempt", "pipe"},
         task[p].saves, NEW n \in 1 .. LastName + 1, Chzzk!LookAt(p, n),
         UNCHANGED <<dirs, creation, anchors, published, reported>>,
         temps' = Chzzk!TempsAfter(p) \/ (temps' = temps /\ task[p].pc \notin {"copying", "copied"})
  PROVE  ChzzkInv'
<1> DEFINE j == [Chzzk!Unclaimed(task[p]) EXCEPT !.pc = "look", !.name = n]
<1>1. /\ task[p] \in Chzzk!Jobs /\ task \in [Procs -> Chzzk!Jobs]
      /\ ClaimIsHeld(task[p], anchors) /\ DirIsOwned(p, task[p], dirs, creation)
      /\ DownloadIsWhole(task[p]) /\ CopyIsClaimed(p, task[p], temps)
  BY JobFacts
<1>2. task' = [task EXCEPT ![p] = j]
  BY DEF Chzzk!LookAt, Chzzk!Become
<1>3. n \in 0 .. LastName + 1 /\ n >= 1
  BY DEF ChzzkBounds
<1>4. /\ j \in Chzzk!Jobs /\ j.pc = "look" /\ j.run = task[p].run /\ j.claim = FALSE /\ j.inode = 0
      /\ j.name = n
      /\ j.owner = task[p].owner /\ j.staged = task[p].staged /\ j.saves = task[p].saves
      /\ j.attempt = task[p].attempt
  BY <1>1, <1>3 DEF Chzzk!Jobs, Chzzk!Unclaimed, Chzzk!None, Chzzk!Working
<1> HIDE DEF j
<1>5. ClaimIsHeld(j, anchors)
  BY <1>3, <1>4 DEF ClaimIsHeld, Claiming
<1>6. task[p].pc \in Owning /\ task[p].pc \in Chzzk!Working
  BY Places DEF Owning
<1>7. DirIsOwned(p, j, dirs, creation)
  BY <1>1, <1>4, <1>6, Places DEF DirIsOwned, Owning, Naming, Chzzk!Ended
<1>8. DownloadIsWhole(j)
  BY <1>1, <1>4, <1>6 DEF DownloadIsWhole, Storing
<1>9. CopyIsClaimed(p, j, temps')
  <2>1. CASE temps' = temps /\ task[p].pc \notin {"copying", "copied"}
    BY <1>4, <1>6, <2>1, NoCopyYet
  <2>2. CASE temps' = Chzzk!TempsAfter(p) /\ ~ task[p].claim
    <3>1. task[p].pc \notin {"copying", "copied"}
      BY <1>1, <2>2 DEF ClaimIsHeld, Claiming
    <3> QED BY <1>4, <1>6, <2>2, <3>1, NoCopyYet DEF Chzzk!TempsAfter
  <2>3. CASE temps' = Chzzk!TempsAfter(p) /\ task[p].claim
    <3>1. task[p].pc \in Claiming
      BY <1>1, <2>3 DEF ClaimIsHeld
    <3> QED BY <1>4, <2>3, <3>1, CopyIsGone DEF Chzzk!TempsAfter, Chzzk!Target
  <2> QED BY <2>1, <2>2, <2>3
<1>10. temps' = temps \/ (task[p].claim /\ temps' = [temps EXCEPT ![task[p].name] = Chzzk!NoFile])
  BY DEF Chzzk!TempsAfter, Chzzk!Target
<1> QED BY <1>2, <1>4, <1>5, <1>7, <1>8, <1>9, <1>10, JobGoesOn

\* A job that ends and publishes nothing.
LEMMA JobIsGone ==
  ASSUME ChzzkBounds, ChzzkInv, NEW p \in Procs, task[p].pc \in Chzzk!Working,
         NEW how \in Chzzk!Ended, Chzzk!Gone(p, how)
  PROVE  ChzzkInv'
<1>1. /\ published' \in [Chzzk!Names -> Chzzk!File \cup {Chzzk!NoFile}]
      /\ reported' \subseteq [proc : Procs, run : Chzzk!Runs, name : Chzzk!Names]
  BY JobFacts DEF Chzzk!Gone
<1> QED BY <1>1, JobEnds DEF Chzzk!Gone

\* Where a job is when only its pc, and what no invariant is about, changes.
SameBut(j, k, place) ==
  /\ j.pc = place /\ j.run = k.run /\ j.saves = k.saves /\ j.claim = k.claim /\ j.inode = k.inode
  /\ j.name = k.name
  /\ j.owner = k.owner

\* A process without a job.
LEMMA NoJobIsOne ==
  ASSUME ChzzkBounds
  PROVE  /\ Chzzk!NoJob \in Chzzk!Jobs /\ Chzzk!NoJob.claim = FALSE /\ Chzzk!NoJob.inode = 0
         /\ Chzzk!NoJob.owner = FALSE /\ Chzzk!NoJob.staged = "none" /\ Chzzk!NoJob.attempt = 0
         /\ Chzzk!NoJob.pc = "boot"
<1>1. /\ 0 \in 0 .. MaxTries /\ 0 \in 0 .. LastName + 1 /\ 0 \in 0 .. MaxRuns /\ FALSE \in BOOLEAN
      /\ 0 \in Chzzk!Inodes \cup {Chzzk!None} /\ "none" \in Chzzk!Exits
  BY DEF Chzzk!None, Chzzk!Exits, ChzzkBounds
<1> QED BY <1>1 DEF Chzzk!Jobs, Chzzk!NoJob, Chzzk!None

\* The steps before a job has its directory, and after it ended.
LEMMA FirstSteps ==
  ASSUME ChzzkBounds, ChzzkInv, NEW p \in Procs,
         Chzzk!Scavenge(p) \/ Chzzk!Begin(p) \/ Chzzk!PrepareDir(p) \/ Chzzk!NameDir(p) \/ Chzzk!OwnDir(p)
           \/ Chzzk!Over(p)
  PROVE  ChzzkInv'
<1> USE DEF Chzzk!disk, Chzzk!Become, Chzzk!Goto, Chzzk!At
<1>1. /\ task[p] \in Chzzk!Jobs /\ task \in [Procs -> Chzzk!Jobs]
      /\ ClaimIsHeld(task[p], anchors) /\ DirIsOwned(p, task[p], dirs, creation)
      /\ DownloadIsWhole(task[p]) /\ CopyIsClaimed(p, task[p], temps)
      /\ dirs \subseteq Procs \X Chzzk!Runs /\ creation \in Procs \cup {NoProc}
      /\ anchors \in [Chzzk!Names -> Chzzk!Inodes \cup {0}]
      /\ published \in [Chzzk!Names -> Chzzk!File \cup {Chzzk!NoFile}]
      /\ temps \in [Chzzk!Names -> Chzzk!File \cup {Chzzk!NoFile}]
      /\ reported \subseteq [proc : Procs, run : Chzzk!Runs, name : Chzzk!Names]
  BY JobFacts
<1>2. CASE Chzzk!Scavenge(p)
  <2> DEFINE j == [task[p] EXCEPT !.pc = "idle"]
  <2>1. /\ task[p].pc = "boot" /\ creation = NoProc /\ task' = [task EXCEPT ![p] = j]
        /\ dirs' = dirs \cap Chzzk!OwnedDirs /\ UNCHANGED <<creation, anchors, published, temps, reported>>
    BY <1>2 DEF Chzzk!Scavenge
  <2>2. j \in Chzzk!Jobs /\ SameBut(j, task[p], "idle") /\ j.staged = task[p].staged
          /\ j.attempt = task[p].attempt
    BY <1>1 DEF Chzzk!Jobs, SameBut
  <2> HIDE DEF j
  <2>3. Apart(p)
    <3>1. ASSUME NEW q \in Procs \ {p}, task[q].pc \in Owning \cup {"owning"}
          PROVE  <<q, task[q].run>> \in Chzzk!OwnedDirs
      <4>1. DirIsOwned(q, task[q], dirs, creation)
        BY JobFacts
      <4>2. task[q].owner
        BY <2>1, <3>1, <4>1 DEF DirIsOwned, ChzzkBounds
      <4> QED BY <4>2 DEF Chzzk!OwnedDirs, Chzzk!Self
    <3> QED BY <2>1, <3>1 DEF Apart
  <2>4. ClaimIsHeld(j, anchors')
    BY <1>1, <2>1, <2>2, Places DEF ClaimIsHeld, SameBut, Claiming
  <2>5. DirIsOwned(p, j, dirs', creation')
    BY <1>1, <2>1, <2>2, Places DEF DirIsOwned, SameBut, ChzzkBounds
  <2>6. DownloadIsWhole(j)
    BY <1>1, <2>1, <2>2, Places DEF DownloadIsWhole, SameBut, Storing
  <2>7. CopyIsClaimed(p, j, temps')
    BY <1>1, <2>1, <2>2 DEF CopyIsClaimed, SameBut
  <2>8. dirs' \subseteq Procs \X Chzzk!Runs
    BY <1>1, <2>1
  <2>9. j.claim = FALSE
    BY <1>1, <2>1, <2>2, Places DEF ClaimIsHeld, SameBut
  <2> QED BY <1>1, <2>1, <2>2, <2>3, <2>4, <2>5, <2>6, <2>7, <2>8, <2>9, OneJob DEF JobIsSound
<1>3. CASE Chzzk!Begin(p)
  <2>1. PICK s \in BOOLEAN :
          task' = [task EXCEPT ![p] = [Chzzk!NoJob EXCEPT !.pc = "dir", !.run = task[p].run + 1, !.saves = s]]
    BY <1>3 DEF Chzzk!Begin
  <2>2. task[p].pc = "idle" /\ task[p].run < MaxRuns
          /\ UNCHANGED <<dirs, creation, anchors, published, temps, reported>>
    BY <1>3 DEF Chzzk!Begin
  <2> DEFINE j == [Chzzk!NoJob EXCEPT !.pc = "dir", !.run = task[p].run + 1, !.saves = s]
  <2>3. task[p].run + 1 \in 0 .. MaxRuns /\ task[p].run + 1 >= 1 /\ task[p].run \in Nat
    BY <1>1, <2>2 DEF Chzzk!Jobs, ChzzkBounds
  <2>4. /\ j \in Chzzk!Jobs /\ j.pc = "dir" /\ j.run = task[p].run + 1 /\ j.claim = FALSE /\ j.inode = 0
        /\ j.owner = FALSE
        /\ j.staged = "none" /\ j.attempt = 0
    <3>1. "dir" \in Chzzk!Working
      BY DEF Chzzk!Working
    <3> QED BY <2>3, <3>1, NoJobIsOne DEF Chzzk!Jobs
  <2> HIDE DEF j
  <2>5. ClaimIsHeld(j, anchors)
    BY <2>4 DEF ClaimIsHeld, Claiming
  <2>6. DirIsOwned(p, j, dirs, creation)
    BY <1>1, <2>2, <2>4 DEF DirIsOwned, Owning, Naming, Claiming, Chzzk!Ended
  <2>7. DownloadIsWhole(j)
    BY <2>3, <2>4 DEF DownloadIsWhole, Naming, Claiming, Storing, ChzzkBounds
  <2>8. CopyIsClaimed(p, j, temps)
    BY <1>1, <2>2, <2>3, <2>4 DEF CopyIsClaimed, Chzzk!Runs
  <2> QED BY <2>1, <2>2, <2>4, <2>5, <2>6, <2>7, <2>8, JobGoesOn DEF j
<1>4. CASE Chzzk!PrepareDir(p)
  <2> DEFINE j == [task[p] EXCEPT !.pc = "naming"]
  <2>1. /\ task[p].pc = "dir" /\ creation = NoProc /\ creation' = p /\ task' = [task EXCEPT ![p] = j]
        /\ UNCHANGED <<dirs, anchors, published, temps, reported>>
    BY <1>4 DEF Chzzk!PrepareDir
  <2>2. j \in Chzzk!Jobs /\ SameBut(j, task[p], "naming") /\ j.staged = task[p].staged
          /\ j.attempt = task[p].attempt
    BY <1>1 DEF Chzzk!Jobs, SameBut, Chzzk!Working
  <2> HIDE DEF j
  <2>3. Apart(p)
    <3>1. dirs' \in {dirs, dirs \cup {<<p, task[p].run>>}, dirs \ {<<p, task[p].run>>}}
      BY <2>1
    <3> QED BY <2>1, <3>1, StaysApart
  <2>4. ClaimIsHeld(j, anchors')
    BY <1>1, <2>1, <2>2 DEF ClaimIsHeld, SameBut, Claiming
  <2>5. DirIsOwned(p, j, dirs', creation')
    BY <1>1, <2>1, <2>2 DEF DirIsOwned, SameBut, Owning, Naming, Claiming, Chzzk!Ended
  <2>6. DownloadIsWhole(j)
    BY <1>1, <2>1, <2>2 DEF DownloadIsWhole, SameBut, Naming, Claiming, Storing, Chzzk!Working
  <2>7. CopyIsClaimed(p, j, temps')
    <3>1. task[p].pc \in (Chzzk!Working \cup Chzzk!Ended) \ {"copying", "copied"}
      BY <2>1 DEF Chzzk!Working
    <3> QED BY <2>1, <2>2, <3>1, NoCopyYet DEF SameBut
  <2>8. j.claim = FALSE
    BY <1>1, <2>1, <2>2 DEF ClaimIsHeld, SameBut, Claiming
  <2> QED BY <1>1, <2>1, <2>2, <2>3, <2>4, <2>5, <2>6, <2>7, <2>8, OneJob DEF JobIsSound
<1>5. CASE Chzzk!NameDir(p)
  <2> DEFINE j == [task[p] EXCEPT !.pc = "owning"]
  <2>1. CASE Chzzk!Gone(p, "failed")
    <3>1. task[p].pc \in Chzzk!Working /\ "failed" \in Chzzk!Ended
      BY <1>5 DEF Chzzk!NameDir, Chzzk!Working, Chzzk!Ended
    <3> QED BY <2>1, <3>1, JobIsGone
  <2>2. CASE ~ Chzzk!Gone(p, "failed")
    <3>1. /\ task[p].pc = "naming" /\ dirs' = dirs \cup {<<p, task[p].run>>} /\ task' = [task EXCEPT ![p] = j]
          /\ UNCHANGED <<creation, anchors, published, temps, reported>>
      BY <1>5, <2>2 DEF Chzzk!NameDir, Chzzk!Self
    <3>2. j \in Chzzk!Jobs /\ SameBut(j, task[p], "owning") /\ j.staged = task[p].staged
            /\ j.attempt = task[p].attempt
      BY <1>1 DEF Chzzk!Jobs, SameBut, Chzzk!Working
    <3> HIDE DEF j
    <3>3. Apart(p)
      <4>1. dirs' \in {dirs, dirs \cup {<<p, task[p].run>>}, dirs \ {<<p, task[p].run>>}}
        BY <3>1
      <4> QED BY <3>1, <4>1, StaysApart
    <3>4. ClaimIsHeld(j, anchors')
      BY <1>1, <3>1, <3>2 DEF ClaimIsHeld, SameBut, Claiming
    <3>5. DirIsOwned(p, j, dirs', creation')
      BY <1>1, <3>1, <3>2 DEF DirIsOwned, SameBut, Owning, Naming, Claiming, Chzzk!Ended
    <3>6. DownloadIsWhole(j)
      BY <1>1, <3>1, <3>2 DEF DownloadIsWhole, SameBut, Naming, Claiming, Storing, Chzzk!Working
    <3>7. CopyIsClaimed(p, j, temps')
      <4>1. task[p].pc \in (Chzzk!Working \cup Chzzk!Ended) \ {"copying", "copied"}
        BY <3>1 DEF Chzzk!Working
      <4> QED BY <3>1, <3>2, <4>1, NoCopyYet DEF SameBut
    <3>8. j.claim = FALSE
      BY <1>1, <3>1, <3>2 DEF ClaimIsHeld, SameBut, Claiming
    <3>9. dirs' \subseteq Procs \X Chzzk!Runs
      BY <1>1, <3>1 DEF DownloadIsWhole, Chzzk!Working, Chzzk!Jobs, Chzzk!Runs, ChzzkBounds
    <3> QED BY <1>1, <3>1, <3>2, <3>3, <3>4, <3>5, <3>6, <3>7, <3>8, <3>9, OneJob DEF JobIsSound
  <2> QED BY <2>1, <2>2
<1>6. CASE Chzzk!OwnDir(p)
  <2> DEFINE j == [task[p] EXCEPT !.pc = "metadata", !.owner = TRUE]
  <2>1. CASE Chzzk!Gone(p, "failed")
    <3>1. task[p].pc \in Chzzk!Working /\ "failed" \in Chzzk!Ended
      BY <1>6 DEF Chzzk!OwnDir, Chzzk!Working, Chzzk!Ended
    <3> QED BY <2>1, <3>1, JobIsGone
  <2>2. CASE ~ Chzzk!Gone(p, "failed")
    <3>1. /\ task[p].pc = "owning" /\ creation' = NoProc /\ task' = [task EXCEPT ![p] = j]
          /\ UNCHANGED <<dirs, anchors, published, temps, reported>>
      BY <1>6, <2>2 DEF Chzzk!OwnDir
    <3>2. /\ j \in Chzzk!Jobs /\ j.pc = "metadata" /\ j.run = task[p].run /\ j.saves = task[p].saves
          /\ j.claim = task[p].claim /\ j.inode = task[p].inode /\ j.owner = TRUE /\ j.staged = task[p].staged
          /\ j.attempt = task[p].attempt
      BY <1>1 DEF Chzzk!Jobs, Chzzk!Working
    <3> HIDE DEF j
    <3>3. Apart(p)
      <4>1. dirs' \in {dirs, dirs \cup {<<p, task[p].run>>}, dirs \ {<<p, task[p].run>>}}
        BY <3>1
      <4>2. creation = p
        BY <1>1, <3>1 DEF DirIsOwned
      <4> QED BY <3>1, <4>1, <4>2, StaysApart
    <3>4. ClaimIsHeld(j, anchors')
      BY <1>1, <3>1, <3>2 DEF ClaimIsHeld, Claiming
    <3>5. DirIsOwned(p, j, dirs', creation')
      BY <1>1, <3>1, <3>2 DEF DirIsOwned, Owning, Chzzk!Ended, ChzzkBounds
    <3>6. DownloadIsWhole(j)
      BY <1>1, <3>1, <3>2 DEF DownloadIsWhole, Naming, Claiming, Storing, Chzzk!Working
    <3>7. CopyIsClaimed(p, j, temps')
      <4>1. task[p].pc \in (Chzzk!Working \cup Chzzk!Ended) \ {"copying", "copied"}
        BY <3>1 DEF Chzzk!Working
      <4> QED BY <3>1, <3>2, <4>1, NoCopyYet
    <3>8. j.claim = FALSE
      BY <1>1, <3>1, <3>2 DEF ClaimIsHeld, Claiming
    <3> QED BY <1>1, <3>1, <3>2, <3>3, <3>4, <3>5, <3>6, <3>7, <3>8, OneJob DEF JobIsSound
  <2> QED BY <2>1, <2>2
<1>7. CASE Chzzk!Over(p)
  <2> DEFINE j == [task[p] EXCEPT !.pc = "idle", !.cancel = FALSE]
  <2>1. /\ task[p].pc \in Chzzk!Ended /\ task' = [task EXCEPT ![p] = j]
        /\ UNCHANGED <<dirs, creation, anchors, published, temps, reported>>
    BY <1>7 DEF Chzzk!Over
  <2>2. j \in Chzzk!Jobs /\ SameBut(j, task[p], "idle") /\ j.staged = task[p].staged
    BY <1>1 DEF Chzzk!Jobs, SameBut
  <2> HIDE DEF j
  <2>3. ClaimIsHeld(j, anchors)
    BY <1>1, <2>1, <2>2 DEF ClaimIsHeld, SameBut, Claiming, Chzzk!Ended
  <2>4. DirIsOwned(p, j, dirs, creation)
    BY <1>1, <2>1, <2>2 DEF DirIsOwned, SameBut, Owning, Naming, Claiming, Chzzk!Ended
  <2>5. DownloadIsWhole(j)
    BY <1>1, <2>1, <2>2 DEF DownloadIsWhole, SameBut, Naming, Claiming, Storing, Chzzk!Ended, Chzzk!Working
  <2>6. CopyIsClaimed(p, j, temps)
    BY <1>1, <2>1, <2>2, NoCopyYet DEF SameBut, Chzzk!Ended
  <2>7. j.claim = FALSE
    BY <1>1, <2>1, <2>2 DEF ClaimIsHeld, SameBut, Claiming, Chzzk!Ended
  <2> QED BY <2>1, <2>2, <2>3, <2>4, <2>5, <2>6, <2>7, JobGoesOn
<1> QED BY <1>2, <1>3, <1>4, <1>5, <1>6, <1>7

\* A crash, the cancel flag, and the details of the video.
LEMMA JobIsDisturbed ==
  ASSUME ChzzkBounds, ChzzkInv, NEW p \in Procs, Chzzk!Flag(p) \/ Chzzk!Crash(p) \/ Chzzk!Metadata(p)
  PROVE  ChzzkInv'
<1> USE DEF Chzzk!disk, Chzzk!Become, Chzzk!At
<1>1. /\ task[p] \in Chzzk!Jobs /\ task \in [Procs -> Chzzk!Jobs]
      /\ ClaimIsHeld(task[p], anchors) /\ DirIsOwned(p, task[p], dirs, creation)
      /\ DownloadIsWhole(task[p]) /\ CopyIsClaimed(p, task[p], temps)
      /\ dirs \subseteq Procs \X Chzzk!Runs /\ creation \in Procs \cup {NoProc}
      /\ anchors \in [Chzzk!Names -> Chzzk!Inodes \cup {0}]
      /\ published \in [Chzzk!Names -> Chzzk!File \cup {Chzzk!NoFile}]
      /\ temps \in [Chzzk!Names -> Chzzk!File \cup {Chzzk!NoFile}]
      /\ reported \subseteq [proc : Procs, run : Chzzk!Runs, name : Chzzk!Names]
  BY JobFacts
<1>2. CASE Chzzk!Flag(p)
  <2> DEFINE j == [task[p] EXCEPT !.cancel = TRUE]
  <2>1. task' = [task EXCEPT ![p] = j] /\ UNCHANGED <<dirs, creation, anchors, published, temps, reported>>
    BY <1>2 DEF Chzzk!Flag
  <2>2. /\ j \in Chzzk!Jobs /\ SameBut(j, task[p], task[p].pc) /\ j.staged = task[p].staged
        /\ j.attempt = task[p].attempt
        /\ j.ffmpeg = task[p].ffmpeg
    BY <1>1 DEF Chzzk!Jobs, SameBut
  <2> HIDE DEF j
  <2>3. ClaimIsHeld(j, anchors)
    BY <1>1, <2>2 DEF ClaimIsHeld, SameBut
  <2>4. DirIsOwned(p, j, dirs, creation)
    BY <1>1, <2>2 DEF DirIsOwned, SameBut
  <2>5. DownloadIsWhole(j)
    BY <1>1, <2>2 DEF DownloadIsWhole, SameBut
  <2>6. CopyIsClaimed(p, j, temps)
    BY <1>1, <2>2 DEF CopyIsClaimed, SameBut
  <2>7. j.claim = task[p].claim /\ j.inode = task[p].inode
    BY <2>2 DEF SameBut
  <2> QED BY <2>1, <2>2, <2>3, <2>4, <2>5, <2>6, <2>7, JobGoesOn
<1>3. CASE Chzzk!Crash(p)
  <2> DEFINE j == [Chzzk!NoJob EXCEPT !.run = task[p].run, !.saves = task[p].saves]
  <2>1. /\ task[p].pc \in Chzzk!Working /\ task' = [task EXCEPT ![p] = j]
        /\ creation' = IF creation = p THEN NoProc ELSE creation
        /\ UNCHANGED <<dirs, anchors, published, temps, reported>>
    BY <1>3 DEF Chzzk!Crash
  <2>2. /\ j \in Chzzk!Jobs /\ j.pc = "boot" /\ j.run = task[p].run /\ j.claim = FALSE /\ j.inode = 0
        /\ j.owner = FALSE
        /\ j.staged = "none" /\ j.attempt = 0
    <3>3. task[p].run \in 0 .. MaxRuns /\ task[p].saves \in BOOLEAN
      BY <1>1 DEF Chzzk!Jobs
    <3> QED BY <3>3, NoJobIsOne DEF Chzzk!Jobs
  <2> HIDE DEF j
  <2>3. Apart(p)
    <3>1. dirs' \in {dirs, dirs \cup {<<p, task[p].run>>}, dirs \ {<<p, task[p].run>>}}
      BY <2>1
    <3> QED BY <2>1, <3>1, StaysApart
  <2>4. ClaimIsHeld(j, anchors')
    BY <2>2 DEF ClaimIsHeld, Claiming
  <2>5. DirIsOwned(p, j, dirs', creation')
    BY <2>1, <2>2 DEF DirIsOwned, Owning, Naming, Claiming, Chzzk!Ended, ChzzkBounds
  <2>6. DownloadIsWhole(j)
    BY <2>2 DEF DownloadIsWhole, Naming, Claiming, Storing, Chzzk!Working, Chzzk!Ended
  <2>7. CopyIsClaimed(p, j, temps')
    BY <1>1, <2>1, <2>2 DEF CopyIsClaimed
  <2>8. creation' \in Procs \cup {NoProc}
    BY <1>1, <2>1
  <2> QED BY <1>1, <2>1, <2>2, <2>3, <2>4, <2>5, <2>6, <2>7, <2>8, OneJob DEF JobIsSound
<1>4. CASE Chzzk!Metadata(p)
  <2>1. /\ task[p].pc = "metadata"
        /\ \/ Chzzk!Gone(p, "failed")
           \/ Chzzk!Gone(p, "published")
           \/ task[p].saves /\ Chzzk!LookAt(p, 1) /\ UNCHANGED <<dirs, creation, anchors, published, temps, reported>>
    BY <1>4 DEF Chzzk!Metadata
  <2>2. task[p].pc \in Chzzk!Working /\ "failed" \in Chzzk!Ended /\ "published" \in Chzzk!Ended
    BY <2>1 DEF Chzzk!Working, Chzzk!Ended
  <2>3. CASE task[p].saves /\ Chzzk!LookAt(p, 1)
               /\ UNCHANGED <<dirs, creation, anchors, published, temps, reported>>
    <3>1. 1 \in 1 .. LastName + 1
      BY DEF ChzzkBounds
    <3> QED BY <2>1, <2>3, <3>1, LooksOn
  <2> QED BY <2>1, <2>2, <2>3, JobIsGone
<1> QED BY <1>2, <1>3, <1>4

\* claim_collision_path.
LEMMA ClaimSteps ==
  ASSUME ChzzkBounds, ChzzkInv, NEW p \in Procs, Chzzk!Look(p) \/ Chzzk!Lock(p) \/ Chzzk!Recheck(p)
  PROVE  ChzzkInv'
<1> USE DEF Chzzk!disk, Chzzk!Become, Chzzk!Goto, Chzzk!At
<1>1. /\ task[p] \in Chzzk!Jobs /\ task \in [Procs -> Chzzk!Jobs]
      /\ ClaimIsHeld(task[p], anchors) /\ DirIsOwned(p, task[p], dirs, creation)
      /\ DownloadIsWhole(task[p]) /\ CopyIsClaimed(p, task[p], temps)
      /\ dirs \subseteq Procs \X Chzzk!Runs /\ creation \in Procs \cup {NoProc}
      /\ anchors \in [Chzzk!Names -> Chzzk!Inodes \cup {0}]
      /\ published \in [Chzzk!Names -> Chzzk!File \cup {Chzzk!NoFile}]
      /\ temps \in [Chzzk!Names -> Chzzk!File \cup {Chzzk!NoFile}]
      /\ reported \subseteq [proc : Procs, run : Chzzk!Runs, name : Chzzk!Names]
  BY JobFacts
<1>2. task[p].name \in 0 .. LastName + 1 /\ task[p].inode \in Chzzk!Inodes \cup {0}
  BY <1>1 DEF Chzzk!Jobs, Chzzk!None
<1>3. CASE Chzzk!Look(p)
  <2> DEFINE n == task[p].name
             i == IF anchors[n] = 0 THEN Chzzk!FreeInode ELSE anchors[n]
             j == [task[p] EXCEPT !.pc = "lock", !.inode = i]
  <2>0. task[p].pc = "look" /\ n >= 1 /\ task[p].saves /\ task[p].pc \in Chzzk!Working
          /\ "failed" \in Chzzk!Ended
    BY <1>1, <1>3 DEF Chzzk!Look, ClaimIsHeld, DownloadIsWhole, Naming, Chzzk!Working, Chzzk!Ended
  <2>1. \/ Chzzk!Gone(p, "failed")
        \/ n <= LastName /\ Chzzk!LookAt(p, n + 1) /\ UNCHANGED <<dirs, creation, anchors, published, temps, reported>>
        \/ /\ n <= LastName /\ anchors' = [anchors EXCEPT ![n] = i] /\ task' = [task EXCEPT ![p] = j]
           /\ UNCHANGED <<dirs, creation, published, temps, reported>>
    <3>1. n \in Nat /\ LastName \in Nat
      BY <1>2 DEF ChzzkBounds
    <3> QED BY <1>3, <3>1 DEF Chzzk!Look, Chzzk!None
  <2>2. CASE n <= LastName /\ Chzzk!LookAt(p, n + 1)
               /\ UNCHANGED <<dirs, creation, anchors, published, temps, reported>>
    <3>1. n + 1 \in 1 .. LastName + 1
      BY <1>2, <2>2 DEF ChzzkBounds
    <3>2. task[p].pc \in {"metadata"} \cup Naming
            /\ task[p].pc \notin {"attempt", "pipe", "copying", "copied"}
      BY <2>0 DEF Naming
    <3> QED BY <2>0, <2>2, <3>1, <3>2, LooksOn
  <2>3. CASE /\ n <= LastName /\ anchors' = [anchors EXCEPT ![n] = i] /\ task' = [task EXCEPT ![p] = j]
             /\ UNCHANGED <<dirs, creation, published, temps, reported>>
    <3>1. n \in Chzzk!Names
      BY <1>2, <2>0, <2>3 DEF Chzzk!Names, ChzzkBounds
    <3>2. i \in Chzzk!Inodes
      <4>1. anchors[n] \in Chzzk!Inodes \cup {0}
        BY <1>1, <3>1
      <4> QED BY <3>1, <4>1, InodeIsFree DEF ChzzkInv
    <3>3. i # 0
      <4>1. Cardinality(Procs) \in Nat
        BY FS_CardinalityType DEF ChzzkBounds
      <4> QED BY <3>2, <4>1, ChzzkCardinality DEF Chzzk!Inodes, ChzzkBounds
    <3>4. anchors' \in [Chzzk!Names -> Chzzk!Inodes \cup {0}] /\ anchors'[n] = i
      BY <1>1, <2>3, <3>1, <3>2
    <3>5. \A m \in Chzzk!Names : anchors[m] # 0 => anchors'[m] = anchors[m]
      BY <1>1, <2>3, <3>1
    <3>6. /\ j \in Chzzk!Jobs /\ j.pc = "lock" /\ j.run = task[p].run /\ j.saves = task[p].saves
          /\ j.claim = task[p].claim /\ j.inode = i /\ j.name = n /\ j.owner = task[p].owner
          /\ j.staged = task[p].staged /\ j.attempt = task[p].attempt
      BY <1>1, <3>2 DEF Chzzk!Jobs, Chzzk!Working
    <3> HIDE DEF j, i, n
    <3>7. Apart(p)
      <4>1. dirs' \in {dirs, dirs \cup {<<p, task[p].run>>}, dirs \ {<<p, task[p].run>>}}
        BY <2>3
      <4> QED BY <2>3, <3>5, <4>1, StaysApart
    <3>8. ClaimIsHeld(j, anchors')
      BY <1>1, <2>0, <3>1, <3>3, <3>4, <3>6 DEF ClaimIsHeld, Claiming
    <3>9. DirIsOwned(p, j, dirs', creation')
      BY <1>1, <2>0, <2>3, <3>6 DEF DirIsOwned, Owning, Naming, Chzzk!Ended
    <3>10. DownloadIsWhole(j)
      BY <1>1, <2>0, <3>6 DEF DownloadIsWhole, Naming, Storing, Chzzk!Working
    <3>11. CopyIsClaimed(p, j, temps')
      BY <2>0, <2>3, <3>6, NoCopyYet
    <3>12. j.claim = FALSE
      BY <1>1, <2>0, <3>6 DEF ClaimIsHeld, Claiming
    <3> QED BY <1>1, <2>3, <3>4, <3>6, <3>7, <3>8, <3>9, <3>10, <3>11, <3>12, OneJob DEF JobIsSound
  <2> QED BY <2>0, <2>1, <2>2, <2>3, JobIsGone
<1>4. CASE Chzzk!Lock(p)
  <2> DEFINE j == [task[p] EXCEPT !.pc = "recheck", !.claim = TRUE]
  <2>0. /\ task[p].pc = "lock" /\ task[p].name \in Chzzk!Names /\ task[p].saves /\ task[p].inode # 0
        /\ task[p].pc \in Chzzk!Working
        /\ UNCHANGED <<dirs, creation, anchors, published, temps, reported>>
    BY <1>1, <1>4 DEF Chzzk!Lock, ClaimIsHeld, DownloadIsWhole, Naming, Claiming, Chzzk!Working
  <2>1. \/ Chzzk!LookAt(p, task[p].name + 1)
        \/ ~ Chzzk!Locked(task[p].inode) /\ task' = [task EXCEPT ![p] = j]
    BY <1>4 DEF Chzzk!Lock
  <2>2. CASE Chzzk!LookAt(p, task[p].name + 1)
    <3>1. task[p].name + 1 \in 1 .. LastName + 1
      BY <2>0 DEF ChzzkBounds, Chzzk!Names
    <3>2. task[p].pc \in {"metadata"} \cup Naming
            /\ task[p].pc \notin {"attempt", "pipe", "copying", "copied"}
      BY <2>0 DEF Naming
    <3> QED BY <2>0, <2>2, <3>1, <3>2, LooksOn
  <2>3. CASE ~ Chzzk!Locked(task[p].inode) /\ task' = [task EXCEPT ![p] = j]
    <3>1. /\ j \in Chzzk!Jobs /\ j.pc = "recheck" /\ j.run = task[p].run /\ j.saves = task[p].saves
          /\ j.claim = TRUE /\ j.inode = task[p].inode /\ j.name = task[p].name /\ j.owner = task[p].owner
          /\ j.staged = task[p].staged /\ j.attempt = task[p].attempt
      BY <1>1 DEF Chzzk!Jobs, Chzzk!Working
    <3> HIDE DEF j
    <3>2. ClaimIsHeld(j, anchors)
      BY <1>1, <2>0, <3>1 DEF ClaimIsHeld, Claiming
    <3>3. DirIsOwned(p, j, dirs, creation)
      BY <1>1, <2>0, <3>1 DEF DirIsOwned, Owning, Naming, Claiming, Chzzk!Ended
    <3>4. DownloadIsWhole(j)
      BY <1>1, <2>0, <3>1 DEF DownloadIsWhole, Naming, Storing, Chzzk!Working
    <3>5. CopyIsClaimed(p, j, temps)
      BY <2>0, <3>1, NoCopyYet
    <3> QED BY <2>0, <2>3, <3>1, <3>2, <3>3, <3>4, <3>5, JobGoesOn
  <2> QED BY <2>1, <2>2, <2>3
<1>5. CASE Chzzk!Recheck(p)
  <2> DEFINE place == IF task[p].staged = "none" THEN "attempt" ELSE "finalize"
             j == [task[p] EXCEPT !.pc = place]
  <2>0. /\ task[p].pc = "recheck" /\ task[p].name \in Chzzk!Names /\ task[p].saves /\ task[p].claim
        /\ task[p].pc \in Chzzk!Working /\ task[p].pc \in Claiming
        /\ UNCHANGED <<dirs, creation, anchors, published, reported>>
    BY <1>1, <1>5 DEF Chzzk!Recheck, ClaimIsHeld, DownloadIsWhole, Naming, Claiming, Chzzk!Working
  <2>1. \/ Chzzk!LookAt(p, task[p].name + 1) /\ temps' = temps
        \/ task' = [task EXCEPT ![p] = j] /\ temps' = [temps EXCEPT ![task[p].name] = Chzzk!NoFile]
    BY <1>5 DEF Chzzk!Recheck, Chzzk!Target
  <2>2. CASE Chzzk!LookAt(p, task[p].name + 1) /\ temps' = temps
    <3>1. task[p].name + 1 \in 1 .. LastName + 1
      BY <2>0 DEF ChzzkBounds, Chzzk!Names
    <3>2. task[p].pc \in {"metadata"} \cup Naming
            /\ task[p].pc \notin {"attempt", "pipe", "copying", "copied"}
      BY <2>0 DEF Naming, Claiming
    <3> QED BY <2>0, <2>2, <3>1, <3>2, LooksOn
  <2>3. CASE task' = [task EXCEPT ![p] = j] /\ temps' = [temps EXCEPT ![task[p].name] = Chzzk!NoFile]
    <3>0. place \in {"attempt", "finalize"} /\ (place = "attempt" <=> task[p].staged = "none")
      OBVIOUS
    <3>1. /\ j \in Chzzk!Jobs /\ SameBut(j, task[p], place) /\ j.staged = task[p].staged
          /\ j.attempt = task[p].attempt
      BY <1>1, <3>0 DEF Chzzk!Jobs, Chzzk!Working, SameBut
    <3> HIDE DEF j, place
    <3>2. ClaimIsHeld(j, anchors)
      BY <1>1, <2>0, <3>0, <3>1 DEF ClaimIsHeld, Claiming, SameBut
    <3>3. DirIsOwned(p, j, dirs, creation)
      BY <1>1, <2>0, <3>0, <3>1 DEF DirIsOwned, Owning, Naming, Claiming, Chzzk!Ended, SameBut
    <3>4. DownloadIsWhole(j)
      <4>1. task[p].staged # "none" => task[p].staged = "whole"
        BY <1>1, <2>0 DEF DownloadIsWhole, Chzzk!Jobs
      <4> QED BY <1>1, <2>0, <3>0, <3>1, <4>1 DEF DownloadIsWhole, Naming, Storing, Chzzk!Working, SameBut
    <3>5. CopyIsClaimed(p, j, temps')
      BY <2>0, <2>3, <3>0, <3>1, CopyIsGone DEF SameBut
    <3>6. j.claim = task[p].claim /\ j.inode = task[p].inode
      BY <3>1 DEF SameBut
    <3> QED BY <2>0, <2>3, <3>1, <3>2, <3>3, <3>4, <3>5, <3>6, JobGoesOn
  <2> QED BY <2>1, <2>2, <2>3
<1> QED BY <1>3, <1>4, <1>5

\* A job that goes on where it was, or to the next place, with its claim; its files are as before.
LEMMA JobStaysClaimed ==
  ASSUME ChzzkBounds, ChzzkInv, NEW p \in Procs, NEW j \in Chzzk!Jobs, task' = [task EXCEPT ![p] = j],
         UNCHANGED <<dirs, creation, anchors, published, reported>>,
         NEW f \in Chzzk!File \cup {Chzzk!NoFile}, f.by = <<p, task[p].run>> \/ f = Chzzk!NoFile,
         temps' = temps \/ temps' = [temps EXCEPT ![task[p].name] = f],
         task[p].pc \in Claiming, j.pc \in Claiming, SameBut(j, task[p], j.pc),
         DownloadIsWhole(j), CopyIsClaimed(p, j, temps')
  PROVE  ChzzkInv'
<1>1. ClaimIsHeld(task[p], anchors) /\ DirIsOwned(p, task[p], dirs, creation)
  BY JobFacts
<1>2. task[p].claim
  BY <1>1 DEF ClaimIsHeld
<1>3. j.claim = task[p].claim /\ j.inode = task[p].inode
  BY DEF SameBut
<1>4. ClaimIsHeld(j, anchors)
  BY <1>1 DEF ClaimIsHeld, SameBut, Claiming
<1>5. DirIsOwned(p, j, dirs, creation)
  <2>1. \A w \in Claiming : w \in Owning /\ w \notin {"naming", "owning"} /\ w \notin Chzzk!Ended
    BY DEF Claiming, Naming, Owning, Chzzk!Ended
  <2> QED BY <1>1, <2>1 DEF DirIsOwned, SameBut
<1> QED BY <1>2, <1>3, <1>4, <1>5, JobGoesOn

\* The attempts and the pipe.
LEMMA PipeSteps ==
  ASSUME ChzzkBounds, ChzzkInv, NEW p \in Procs,
         Chzzk!Attempt(p) \/ Chzzk!StreamlinkExits(p) \/ Chzzk!FFmpegExits(p) \/ Chzzk!Observe(p)
  PROVE  ChzzkInv'
<1> USE DEF Chzzk!disk, Chzzk!Become, Chzzk!Goto, Chzzk!At
<1>1. /\ task[p] \in Chzzk!Jobs /\ ClaimIsHeld(task[p], anchors) /\ DownloadIsWhole(task[p])
  BY JobFacts
<1>2. /\ task[p].pc \in {"attempt", "pipe"} /\ task[p].pc \in Claiming /\ task[p].pc \in Chzzk!Working
      /\ task[p].pc \in (Chzzk!Working \cup Chzzk!Ended) \ {"copying", "copied"}
      /\ "failed" \in Chzzk!Ended /\ "returned" \in Chzzk!Ended
  BY DEF Chzzk!Attempt, Chzzk!StreamlinkExits, Chzzk!FFmpegExits, Chzzk!Observe, Claiming, Chzzk!Working,
  Chzzk!Ended
<1>3. ASSUME NEW j \in Chzzk!Jobs, task' = [task EXCEPT ![p] = j], j.pc \in {"attempt", "pipe", "finalize"},
             SameBut(j, task[p], j.pc), DownloadIsWhole(j),
             UNCHANGED <<dirs, creation, anchors, published, temps, reported>>
      PROVE  ChzzkInv'
  <2>1. CopyIsClaimed(p, j, temps)
    BY <1>2, <1>3, NoCopyYet DEF SameBut
  <2>2. j.pc \in Claiming
    BY <1>3 DEF Claiming
  <2> QED BY <1>2, <1>3, <2>1, <2>2, JobStaysClaimed
<1>4. ASSUME NEW how \in Chzzk!Ended, Chzzk!Gone(p, how)
      PROVE  ChzzkInv'
  BY <1>2, <1>4, JobIsGone
<1>5. task[p].run >= 1 /\ task[p].saves /\ task[p].attempt \in 0 .. MaxTries
  BY <1>1, <1>2 DEF DownloadIsWhole, Naming, Chzzk!Jobs
<1>6. CASE Chzzk!Attempt(p)
  <2>1. CASE Chzzk!Gone(p, "returned")
    BY <1>2, <1>4, <2>1
  <2>2. CASE ~ Chzzk!Gone(p, "returned")
    <3> DEFINE j == [task[p] EXCEPT !.pc = "pipe", !.attempt = task[p].attempt + 1, !.staged = "partial",
                                    !.streamlink = "run", !.ffmpeg = "run"]
    <3>1. /\ task[p].pc = "attempt" /\ task' = [task EXCEPT ![p] = j]
          /\ UNCHANGED <<dirs, creation, anchors, published, temps, reported>>
      BY <1>6, <2>2 DEF Chzzk!Attempt
    <3>2. task[p].attempt + 1 \in 0 .. MaxTries
      BY <1>1, <1>2, <1>5, <3>1 DEF DownloadIsWhole, ChzzkBounds
    <3>3. /\ j \in Chzzk!Jobs /\ j.pc = "pipe" /\ SameBut(j, task[p], j.pc) /\ j.staged = "partial"
          /\ j.ffmpeg = "run"
      BY <1>1, <3>2 DEF Chzzk!Jobs, Chzzk!Working, SameBut, Chzzk!Exits
    <3> HIDE DEF j
    <3>4. DownloadIsWhole(j)
      BY <1>5, <3>3 DEF DownloadIsWhole, SameBut, Storing
    <3> QED BY <1>3, <3>1, <3>3, <3>4
  <2> QED BY <2>1, <2>2
<1>7. CASE Chzzk!StreamlinkExits(p)
  <2>1. PICK how \in {"ok", "bad"} : task' = [task EXCEPT ![p] = [task[p] EXCEPT !.streamlink = how]]
    BY <1>7 DEF Chzzk!StreamlinkExits
  <2> DEFINE j == [task[p] EXCEPT !.streamlink = how]
  <2>2. task[p].pc = "pipe" /\ UNCHANGED <<dirs, creation, anchors, published, temps, reported>>
    BY <1>7 DEF Chzzk!StreamlinkExits
  <2>3. /\ j \in Chzzk!Jobs /\ j.pc = "pipe" /\ SameBut(j, task[p], j.pc) /\ j.staged = task[p].staged
        /\ j.ffmpeg = task[p].ffmpeg /\ j.attempt = task[p].attempt
    BY <1>1, <2>2 DEF Chzzk!Jobs, SameBut, Chzzk!Exits
  <2>4. task' = [task EXCEPT ![p] = j]
    BY <2>1
  <2> HIDE DEF j
  <2>5. DownloadIsWhole(j)
    BY <1>1, <2>2, <2>3 DEF DownloadIsWhole, SameBut
  <2> QED BY <1>3, <2>2, <2>3, <2>4, <2>5
<1>8. CASE Chzzk!FFmpegExits(p)
  <2>1. PICK how \in {"bad", "early", "ok"}, what \in {"partial", "whole", task[p].staged} :
          /\ task' = [task EXCEPT ![p] = [task[p] EXCEPT !.ffmpeg = how, !.staged = what]]
          /\ how = "ok" => what = "whole"
    <3>1. task \in [Procs -> Chzzk!Jobs] /\ [task[p] EXCEPT !.staged = task[p].staged] = task[p]
      BY <1>1, JobFacts DEF Chzzk!Jobs
    <3>2. /\ [task[p] EXCEPT !.ffmpeg = "bad"] = [task[p] EXCEPT !.ffmpeg = "bad", !.staged = task[p].staged]
          /\ [task[p] EXCEPT !.ffmpeg = "early"] = [task[p] EXCEPT !.ffmpeg = "early", !.staged = task[p].staged]
      BY <1>1 DEF Chzzk!Jobs
    <3> QED BY <1>8, <3>2 DEF Chzzk!FFmpegExits
  <2> DEFINE j == [task[p] EXCEPT !.ffmpeg = how, !.staged = what]
  <2>2. task[p].pc = "pipe" /\ UNCHANGED <<dirs, creation, anchors, published, temps, reported>>
    BY <1>8 DEF Chzzk!FFmpegExits
  <2>3. task[p].staged \in {"none", "partial", "whole"}
    BY <1>1 DEF Chzzk!Jobs
  <2>4. /\ j \in Chzzk!Jobs /\ j.pc = "pipe" /\ SameBut(j, task[p], j.pc) /\ j.staged = what
        /\ j.ffmpeg = how /\ j.attempt = task[p].attempt
    BY <1>1, <2>2, <2>3 DEF Chzzk!Jobs, SameBut, Chzzk!Exits
  <2>5. task' = [task EXCEPT ![p] = j]
    BY <2>1
  <2> HIDE DEF j
  <2>6. DownloadIsWhole(j)
    BY <1>1, <1>5, <2>1, <2>2, <2>4 DEF DownloadIsWhole, SameBut, Storing
  <2> QED BY <1>3, <2>2, <2>4, <2>5, <2>6
<1>9. CASE Chzzk!Observe(p)
  <2>1. \/ \E how \in Chzzk!Ended : Chzzk!Gone(p, how)
        \/ /\ task[p].attempt # MaxTries
           /\ task' = [task EXCEPT ![p] = [task[p] EXCEPT !.pc = "attempt", !.staged = "none", !.streamlink = "none",
                                                         !.ffmpeg = "none"]]
           /\ UNCHANGED <<dirs, creation, anchors, published, temps, reported>>
        \/ /\ task[p].ffmpeg = "ok" /\ task' = [task EXCEPT ![p] = [task[p] EXCEPT !.pc = "finalize"]]
           /\ UNCHANGED <<dirs, creation, anchors, published, temps, reported>>
    BY <1>2, <1>9 DEF Chzzk!Observe, Chzzk!FailAttempt, Chzzk!Piped
  <2>2. task[p].pc = "pipe"
    BY <1>9 DEF Chzzk!Observe
  <2>3. CASE /\ task[p].attempt # MaxTries
             /\ task' = [task EXCEPT ![p] = [task[p] EXCEPT !.pc = "attempt", !.staged = "none", !.streamlink = "none",
                                                           !.ffmpeg = "none"]]
             /\ UNCHANGED <<dirs, creation, anchors, published, temps, reported>>
    <3> DEFINE j == [task[p] EXCEPT !.pc = "attempt", !.staged = "none", !.streamlink = "none", !.ffmpeg = "none"]
    <3>1. /\ j \in Chzzk!Jobs /\ j.pc = "attempt" /\ SameBut(j, task[p], j.pc) /\ j.staged = "none"
          /\ j.attempt = task[p].attempt
      BY <1>1 DEF Chzzk!Jobs, SameBut, Chzzk!Exits, Chzzk!Working
    <3>2. task' = [task EXCEPT ![p] = j]
      BY <2>3
    <3> HIDE DEF j
    <3>3. j.attempt < MaxTries
      BY <1>5, <2>3, <3>1 DEF ChzzkBounds
    <3>4. DownloadIsWhole(j)
      BY <1>5, <3>1, <3>3 DEF DownloadIsWhole, SameBut, Storing
    <3> QED BY <1>3, <2>3, <3>1, <3>2, <3>4
  <2>4. CASE /\ task[p].ffmpeg = "ok" /\ task' = [task EXCEPT ![p] = [task[p] EXCEPT !.pc = "finalize"]]
             /\ UNCHANGED <<dirs, creation, anchors, published, temps, reported>>
    <3> DEFINE j == [task[p] EXCEPT !.pc = "finalize"]
    <3>1. /\ j \in Chzzk!Jobs /\ j.pc = "finalize" /\ SameBut(j, task[p], j.pc) /\ j.staged = task[p].staged
      BY <1>1 DEF Chzzk!Jobs, SameBut, Chzzk!Working
    <3>2. task' = [task EXCEPT ![p] = j]
      BY <2>4
    <3> HIDE DEF j
    <3>3. j.staged = "whole"
      BY <1>1, <2>2, <2>4, <3>1 DEF DownloadIsWhole
    <3>4. DownloadIsWhole(j)
      BY <1>5, <3>1, <3>3 DEF DownloadIsWhole, SameBut
    <3> QED BY <1>3, <2>4, <3>1, <3>2, <3>4
  <2> QED BY <1>4, <2>1, <2>3, <2>4
<1> QED BY <1>6, <1>7, <1>8, <1>9

\* finalize_output and publish_by_copy.
LEMMA PublishSteps ==
  ASSUME ChzzkBounds, ChzzkInv, NEW p \in Procs,
         Chzzk!LinkOrCopy(p) \/ Chzzk!CopyBegins(p) \/ Chzzk!Copy(p) \/ Chzzk!CopyLinks(p)
  PROVE  ChzzkInv'
<1> USE DEF Chzzk!disk, Chzzk!Become, Chzzk!Goto, Chzzk!At, Chzzk!Target, Chzzk!Self
<1> DEFINE n == task[p].name
           me == <<p, task[p].run>>
<1>1. /\ task[p] \in Chzzk!Jobs /\ ClaimIsHeld(task[p], anchors) /\ DownloadIsWhole(task[p])
      /\ CopyIsClaimed(p, task[p], temps)
      /\ published \in [Chzzk!Names -> Chzzk!File \cup {Chzzk!NoFile}]
      /\ temps \in [Chzzk!Names -> Chzzk!File \cup {Chzzk!NoFile}]
      /\ reported \subseteq [proc : Procs, run : Chzzk!Runs, name : Chzzk!Names]
  BY JobFacts
<1>2. /\ task[p].pc \in Storing /\ task[p].pc \in Claiming /\ task[p].pc \in Chzzk!Working
      /\ "failed" \in Chzzk!Ended /\ "returned" \in Chzzk!Ended /\ "published" \in Chzzk!Ended
      /\ task[p].pc \in {"metadata"} \cup Naming /\ task[p].pc \notin {"attempt", "pipe"}
  BY DEF Chzzk!LinkOrCopy, Chzzk!CopyBegins, Chzzk!Copy, Chzzk!CopyLinks, Storing, Claiming, Naming,
  Chzzk!Working,
         Chzzk!Ended
<1>3. /\ n \in Chzzk!Names /\ task[p].claim /\ task[p].run \in Chzzk!Runs /\ task[p].saves
      /\ task[p].staged = "whole"
  BY <1>1, <1>2 DEF ClaimIsHeld, DownloadIsWhole, Naming, Chzzk!Jobs, Chzzk!Runs, ChzzkBounds
<1>4. \A w \in BOOLEAN : [by |-> me, whole |-> w] \in Chzzk!File
  BY <1>3 DEF Chzzk!File, Chzzk!Writers
<1>5. ASSUME NEW how \in Chzzk!Ended, Chzzk!Gone(p, how)
      PROVE  ChzzkInv'
  BY <1>2, <1>5, JobIsGone
<1>6. ASSUME Chzzk!Collide(p)
      PROVE  ChzzkInv'
  <2>1. 1 \in 1 .. LastName + 1
    BY DEF ChzzkBounds
  <2>2. /\ Chzzk!LookAt(p, 1) /\ UNCHANGED <<dirs, creation, anchors, published, reported>>
        /\ temps' = Chzzk!TempsAfter(p)
    BY <1>6 DEF Chzzk!Collide, Chzzk!AnchorsAfter
  <2> QED BY <1>2, <1>3, <2>1, <2>2, LooksOn
<1>7. ASSUME NEW file \in Chzzk!File, Chzzk!Complete(p, file)
      PROVE  ChzzkInv'
  <2>1. published' \in [Chzzk!Names -> Chzzk!File \cup {Chzzk!NoFile}]
    BY <1>1, <1>3, <1>7 DEF Chzzk!Complete
  <2>2. reported' \subseteq [proc : Procs, run : Chzzk!Runs, name : Chzzk!Names]
    BY <1>1, <1>3, <1>7 DEF Chzzk!Complete
  <2> QED BY <1>2, <1>7, <2>1, <2>2, JobEnds DEF Chzzk!Complete
<1>8. ASSUME NEW place \in {"copy", "copying", "copied"}, task' = [task EXCEPT ![p] = [task[p] EXCEPT !.pc = place]],
             UNCHANGED <<dirs, creation, anchors, published, reported>>,
             NEW f \in Chzzk!File \cup {Chzzk!NoFile}, f.by = me \/ f = Chzzk!NoFile,
             temps' = temps \/ temps' = [temps EXCEPT ![n] = f],
             \A j : j.pc = place /\ j.run = task[p].run /\ j.name = n => CopyIsClaimed(p, j, temps')
      PROVE  ChzzkInv'
  <2> DEFINE j == [task[p] EXCEPT !.pc = place]
  <2>1. /\ j \in Chzzk!Jobs /\ j.pc = place /\ SameBut(j, task[p], j.pc) /\ j.staged = task[p].staged
    BY <1>1 DEF Chzzk!Jobs, SameBut, Chzzk!Working
  <2>2. task' = [task EXCEPT ![p] = j]
    BY <1>8
  <2> HIDE DEF j
  <2>3. DownloadIsWhole(j)
    BY <1>1, <1>2, <1>3, <2>1 DEF DownloadIsWhole, SameBut
  <2>4. CopyIsClaimed(p, j, temps') /\ j.pc \in Claiming
    BY <1>8, <2>1 DEF SameBut, Claiming
  <2> QED BY <1>2, <1>8, <2>1, <2>2, <2>3, <2>4, JobStaysClaimed
<1>9. CASE Chzzk!LinkOrCopy(p)
  <2>1. CASE task' = [task EXCEPT ![p] = [task[p] EXCEPT !.pc = "copy"]] /\ UNCHANGED <<Chzzk!disk, reported>>
    <3>1. task[p].pc \in (Chzzk!Working \cup Chzzk!Ended) \ {"copying", "copied"}
      BY <1>2, <1>9 DEF Chzzk!LinkOrCopy
    <3>2. \A j : j.pc = "copy" /\ j.run = task[p].run => CopyIsClaimed(p, j, temps)
      BY <3>1, NoCopyYet
    <3>3. UNCHANGED <<dirs, creation, anchors, published, temps, reported>>
      BY <2>1
    <3> QED BY <1>8, <2>1, <3>2, <3>3
  <2>2. [by |-> me, whole |-> task[p].staged = "whole"] \in Chzzk!File
    BY <1>3, <1>4
  <2> QED BY <1>2, <1>5, <1>6, <1>7, <1>9, <2>1, <2>2 DEF Chzzk!LinkOrCopy
<1>10. CASE Chzzk!CopyBegins(p)
  <2> DEFINE f == [by |-> me, whole |-> FALSE]
  <2>1. CASE /\ temps' = [temps EXCEPT ![n] = f]
             /\ task' = [task EXCEPT ![p] = [task[p] EXCEPT !.pc = "copying"]]
             /\ UNCHANGED <<dirs, creation, anchors, published, reported>>
    <3>1. f \in Chzzk!File /\ f.by = me
      BY <1>4
    <3>2. temps'[n] = f /\ \A m \in Chzzk!Names : m # n => temps'[m] = temps[m]
      BY <1>1, <1>3, <2>1
    <3>3. task[p].pc = "copy"
      BY <1>10 DEF Chzzk!CopyBegins
    <3> HIDE DEF f
    <3>4. \A j : j.pc = "copying" /\ j.run = task[p].run /\ j.name = n => CopyIsClaimed(p, j, temps')
      BY <1>1, <1>3, <3>1, <3>2, <3>3 DEF CopyIsClaimed, Chzzk!Runs
    <3> QED BY <1>8, <2>1, <3>1, <3>4
  <2> QED BY <1>2, <1>5, <1>6, <1>10, <2>1 DEF Chzzk!CopyBegins
<1>11. CASE Chzzk!Copy(p)
  <2>1. task[p].pc = "copying" /\ temps[n].by = me
    BY <1>1, <1>11 DEF Chzzk!Copy, CopyIsClaimed
  <2>2. CASE \E how \in Chzzk!Ended : Chzzk!Gone(p, how)
    BY <1>5, <2>2
  <2>3. CASE ~ \E how \in Chzzk!Ended : Chzzk!Gone(p, how)
    <3> DEFINE f == [temps[n] EXCEPT !.whole = (task[p].staged = "whole")]
    <3>1. /\ temps' = [temps EXCEPT ![n] = f] /\ task' = [task EXCEPT ![p] = [task[p] EXCEPT !.pc = "copied"]]
          /\ UNCHANGED <<dirs, creation, anchors, published, reported>>
      BY <1>2, <1>11, <2>1, <2>3 DEF Chzzk!Copy
    <3>2. temps[n] \in Chzzk!File
      BY <1>1, <1>3, <2>1, NoFileHasNoWriter
    <3>3. f \in Chzzk!File /\ f.by = me /\ f.whole
      BY <1>3, <2>1, <3>2 DEF Chzzk!File
    <3>4. temps'[n] = f /\ \A m \in Chzzk!Names : m # n => temps'[m] = temps[m]
      BY <1>1, <1>3, <3>1
    <3> HIDE DEF f
    <3>5. \A j : j.pc = "copied" /\ j.run = task[p].run /\ j.name = n => CopyIsClaimed(p, j, temps')
      BY <1>1, <1>3, <2>1, <3>3, <3>4 DEF CopyIsClaimed, Chzzk!Runs
    <3> QED BY <1>8, <3>1, <3>3, <3>5
  <2> QED BY <2>2, <2>3
<1>12. CASE Chzzk!CopyLinks(p)
  <2>1. task[p].pc = "copied" /\ temps[n].by = me
    BY <1>1, <1>12 DEF Chzzk!CopyLinks, CopyIsClaimed
  <2>2. temps[n] \in Chzzk!File
    BY <1>1, <1>3, <2>1, NoFileHasNoWriter
  <2> QED BY <1>2, <1>5, <1>6, <1>7, <1>12, <2>2 DEF Chzzk!CopyLinks
<1> QED BY <1>9, <1>10, <1>11, <1>12

\* A file of somebody else's.
LEMMA ForeignFile ==
  ASSUME ChzzkBounds, ChzzkInv, NEW n \in Chzzk!Names, Chzzk!Foreign(n)
  PROVE  ChzzkInv'
<1>1. [by |-> <<NoProc, Chzzk!None>>, whole |-> TRUE] \in Chzzk!File
  BY DEF Chzzk!File, Chzzk!Writers
<1>2. /\ UNCHANGED <<task, dirs, creation, anchors, temps, reported>>
      /\ published' = [published EXCEPT ![n] = [by |-> <<NoProc, Chzzk!None>>, whole |-> TRUE]]
  BY DEF Chzzk!Foreign
<1>3. published' \in [Chzzk!Names -> Chzzk!File \cup {Chzzk!NoFile}]
  BY <1>1, <1>2 DEF ChzzkInv, Chzzk!ChzzkTypeOK
<1>4. Chzzk!ChzzkTypeOK'
  BY <1>2, <1>3 DEF ChzzkInv, Chzzk!ChzzkTypeOK
<1> QED BY <1>2, <1>4 DEF ChzzkInv

\* The invariant holds at first.
LEMMA ChzzkInit ==
  ASSUME ChzzkBounds
  PROVE  Chzzk!Init => ChzzkInv
<1> SUFFICES ASSUME Chzzk!Init PROVE ChzzkInv
  OBVIOUS
<1> USE DEF Chzzk!Init
<1>1. Chzzk!ChzzkTypeOK
  BY NoJobIsOne DEF Chzzk!ChzzkTypeOK
<1>2. ASSUME NEW p \in Procs
      PROVE  JobIsSound(p, task[p], dirs, creation, anchors, temps)
  <2>1. task[p] = Chzzk!NoJob /\ creation # p
    BY DEF ChzzkBounds
  <2>2. ClaimIsHeld(task[p], anchors)
    BY <2>1, NoJobIsOne DEF ClaimIsHeld, Claiming
  <2>3. DirIsOwned(p, task[p], dirs, creation)
    BY <2>1, NoJobIsOne DEF DirIsOwned, Owning, Naming, Claiming, Chzzk!Ended
  <2>4. DownloadIsWhole(task[p])
    BY <2>1, NoJobIsOne DEF DownloadIsWhole, Naming, Claiming, Storing, Chzzk!Working, Chzzk!Ended
  <2>5. CopyIsClaimed(p, task[p], temps)
    BY <2>1, NoJobIsOne, NoFileHasNoWriter DEF CopyIsClaimed
  <2> QED BY <2>2, <2>3, <2>4, <2>5 DEF JobIsSound
<1>3. \A p \in Procs : task[p].claim = FALSE
  BY NoJobIsOne
<1> QED BY <1>1, <1>2, <1>3 DEF ChzzkInv

\* ChzzkInv is inductive.
LEMMA ChzzkStep ==
  ASSUME ChzzkBounds
  PROVE  ChzzkInv /\ [Chzzk!Next]_(Chzzk!vars) => ChzzkInv'
<1> SUFFICES ASSUME ChzzkInv, [Chzzk!Next]_(Chzzk!vars) PROVE ChzzkInv'
  OBVIOUS
<1>1. CASE \E p \in Procs : Chzzk!Scavenge(p) \/ Chzzk!Begin(p) \/ Chzzk!TaskStep(p) \/ Chzzk!Flag(p)
             \/ Chzzk!Over(p) \/ Chzzk!Crash(p)
  BY <1>1, FirstSteps, JobIsDisturbed, ClaimSteps, PipeSteps, PublishSteps DEF Chzzk!TaskStep
<1>2. CASE \E n \in Chzzk!Names : Chzzk!Foreign(n)
  BY <1>2, ForeignFile
<1>3. CASE UNCHANGED Chzzk!vars
  BY <1>3 DEF Chzzk!vars, Chzzk!disk, ChzzkInv, Chzzk!ChzzkTypeOK
<1> QED BY <1>1, <1>2, <1>3 DEF Chzzk!Next

\* A behaviour of the composition is one of CHZZK's jobs.
LEMMA ChzzkPart == Spec => Chzzk!Spec
<1>1. Init => Chzzk!Init
  BY DEF Init
<1>2. [Next]_vars => [Chzzk!Next]_(Chzzk!vars)
  <2>1. Next => Chzzk!Next \/ UNCHANGED chzzk
    BY DEF Next, Only
  <2>2. UNCHANGED vars => UNCHANGED chzzk
    BY DEF vars
  <2>3. UNCHANGED chzzk => UNCHANGED Chzzk!vars
    BY DEF chzzk, Chzzk!vars, Chzzk!disk
  <2> QED BY <2>1, <2>2, <2>3
<1> QED BY <1>1, <1>2, PTL DEF Spec, Chzzk!Spec

\* The invariant gives what the runs check.
LEMMA ChzzkInvIsEnough ==
  ASSUME ChzzkBounds
  PROVE  ChzzkInv => Chzzk!ChzzkOwnsItsFiles
<1> SUFFICES ASSUME ChzzkInv PROVE Chzzk!ChzzkOwnsItsFiles
  OBVIOUS
<1>1. Chzzk!ClaimsAreExclusive
  BY ClaimedNames DEF Chzzk!ClaimsAreExclusive, Chzzk!Target
<1>2. Chzzk!LiveDirStays
  BY JobFacts DEF Chzzk!LiveDirStays, DirIsOwned, Chzzk!Self
<1>3. ASSUME NEW p \in Procs, task[p].pc \in Chzzk!Ended
      PROVE  <<p, task[p].run>> \notin dirs /\ \A n \in Chzzk!Names : temps[n].by # <<p, task[p].run>>
  <2>1. DirIsOwned(p, task[p], dirs, creation) /\ CopyIsClaimed(p, task[p], temps) /\ DownloadIsWhole(task[p])
        /\ task[p] \in Chzzk!Jobs
    BY JobFacts
  <2>2. task[p].run \in Chzzk!Runs
    BY <1>3, <2>1 DEF DownloadIsWhole, Chzzk!Jobs, Chzzk!Runs, ChzzkBounds
  <2>3. task[p].pc \notin {"boot", "idle", "copying", "copied"}
    BY <1>3 DEF Chzzk!Ended
  <2> QED BY <1>3, <2>1, <2>2, <2>3 DEF DirIsOwned, CopyIsClaimed
<1>4. Chzzk!ChzzkTidy
  BY <1>3 DEF Chzzk!ChzzkTidy, Chzzk!Self
<1> QED BY <1>1, <1>2, <1>4 DEF Chzzk!ChzzkOwnsItsFiles, ChzzkInv

\* DownloadRun's initial state, for every process.
LEMMA ChzzkRunInit ==
  ASSUME ChzzkBounds
  PROVE  Chzzk!Init => \A p \in Procs : Chzzk!RunInit(p)
<1> SUFFICES ASSUME Chzzk!Init, NEW p \in Procs PROVE Chzzk!RunInit(p)
  OBVIOUS
<1>1. task[p] = Chzzk!NoJob
  BY DEF Chzzk!Init
<1>2. task[p].run = 0 /\ task[p].saves = FALSE /\ task[p].cancel = FALSE /\ task[p].pc = "boot"
  BY <1>1 DEF Chzzk!NoJob
<1>3. Chzzk!Phase(p) = "idle"
  BY <1>2 DEF Chzzk!Phase, Chzzk!Working
<1>4. Chzzk!Kept(p) = {}
  BY DEF Chzzk!Kept, Chzzk!Init
<1> QED BY <1>2, <1>3, <1>4 DEF Chzzk!RunInit, Chzzk!Run!Init

\* A step of a job that publishes no download, as DownloadRun sees it.
RunKind(k, j) ==
  /\ j.run = k.run /\ j.saves = k.saves
  /\ \/ /\ j.cancel = k.cancel
        /\ \/ k.pc \in Chzzk!Working /\ j.pc \in Chzzk!Working
           \/ k.pc = "boot" /\ j.pc = "idle"
           \/ k.pc \in Chzzk!Working /\ j.pc = "failed"
           \/ k.pc \in Chzzk!Working /\ j.pc = "returned" /\ k.cancel
           \/ k.pc \in Chzzk!Working /\ j.pc = "published" /\ ~ k.saves
     \/ k.pc \in Chzzk!Working /\ j.pc = k.pc /\ j.cancel = TRUE
     \/ k.pc \in Chzzk!Working \cup Chzzk!Ended /\ j.pc \in {"boot", "idle"} /\ j.cancel = FALSE

\* What a job becomes; the others stay.
LEMMA OnlyOneMoves ==
  ASSUME ChzzkInv, NEW p \in Procs, NEW j, task' = [task EXCEPT ![p] = j]
  PROVE  task'[p] = j /\ \A q \in Procs \ {p} : task'[q] = task[q]
  BY JobFacts

\* DownloadRun allows such a step.
LEMMA KindIsARunStep ==
  ASSUME NEW p \in Procs, RunKind(task[p], task'[p]), Chzzk!Kept(p)' = Chzzk!Kept(p)
  PROVE  Chzzk!RunStep(p)
<1> DEFINE k == task[p]
           j == task'[p]
<1>1. j.run = k.run /\ j.saves = k.saves
  BY DEF RunKind
<1>2. /\ \A w \in Chzzk!Working : w \notin {"boot", "idle", "failed", "returned", "published"}
      /\ \A w \in Chzzk!Ended : w \notin Chzzk!Working /\ w \notin {"boot", "idle", "work"}
      /\ "idle" \notin Chzzk!Working /\ "boot" \notin Chzzk!Working
  BY DEF Chzzk!Working, Chzzk!Ended
<1>3. /\ Chzzk!Phase(p) = IF k.pc \in Chzzk!Working THEN "work" ELSE IF k.pc = "boot" THEN "idle" ELSE k.pc
      /\ Chzzk!Phase(p)' = IF j.pc \in Chzzk!Working THEN "work" ELSE IF j.pc = "boot" THEN "idle" ELSE j.pc
  BY DEF Chzzk!Phase
<1>4. CASE j.cancel = k.cancel /\ Chzzk!Phase(p)' = Chzzk!Phase(p)
  BY <1>1, <1>4 DEF Chzzk!RunStep, Chzzk!Run!vars
<1>5. CASE j.cancel = k.cancel /\ k.pc \in Chzzk!Working /\ j.pc = "failed"
  <2>1. Chzzk!Phase(p) = "work" /\ Chzzk!Phase(p)' = "failed"
    BY <1>2, <1>3, <1>5
  <2> QED BY <1>1, <1>5, <2>1 DEF Chzzk!RunStep, Chzzk!Run!Next, Chzzk!Run!Fail
<1>6. CASE j.cancel = k.cancel /\ k.pc \in Chzzk!Working /\ j.pc = "returned" /\ k.cancel
  <2>1. Chzzk!Phase(p) = "work" /\ Chzzk!Phase(p)' = "returned"
    BY <1>2, <1>3, <1>6
  <2> QED BY <1>1, <1>6, <2>1 DEF Chzzk!RunStep, Chzzk!Run!Next, Chzzk!Run!GiveUp
<1>7. CASE j.cancel = k.cancel /\ k.pc \in Chzzk!Working /\ j.pc = "published" /\ ~ k.saves
  <2>1. Chzzk!Phase(p) = "work" /\ Chzzk!Phase(p)' = "published"
    BY <1>2, <1>3, <1>7
  <2> QED BY <1>1, <1>7, <2>1 DEF Chzzk!RunStep, Chzzk!Run!Next, Chzzk!Run!Publish
<1>8. CASE k.pc \in Chzzk!Working /\ j.pc = k.pc /\ j.cancel = TRUE
  <2>1. Chzzk!Phase(p) = "work" /\ Chzzk!Phase(p)' = Chzzk!Phase(p)
    BY <1>2, <1>3, <1>8
  <2> QED BY <1>1, <1>8, <2>1 DEF Chzzk!RunStep, Chzzk!Run!Next, Chzzk!Run!Flag
<1>9. CASE k.pc \in Chzzk!Working \cup Chzzk!Ended /\ j.pc \in {"boot", "idle"} /\ j.cancel = FALSE
  <2>1. Chzzk!Phase(p) # "idle" /\ Chzzk!Phase(p)' = "idle"
    BY <1>2, <1>3, <1>9
  <2> QED BY <1>1, <1>9, <2>1 DEF Chzzk!RunStep, Chzzk!Run!Next, Chzzk!Run!Over
<1>10. (k.pc \in Chzzk!Working /\ j.pc \in Chzzk!Working) \/ (k.pc = "boot" /\ j.pc = "idle")
         => Chzzk!Phase(p)' = Chzzk!Phase(p)
  BY <1>2, <1>3
<1> QED BY <1>4, <1>5, <1>6, <1>7, <1>8, <1>9, <1>10 DEF RunKind

\* A job that is not touched does not step.
LEMMA UntouchedRun ==
  ASSUME NEW q \in Procs, task'[q] = task[q], Chzzk!Kept(q)' = Chzzk!Kept(q)
  PROVE  Chzzk!RunStep(q)
<1>1. Chzzk!Phase(q)' = Chzzk!Phase(q)
  BY DEF Chzzk!Phase
<1> QED BY <1>1 DEF Chzzk!RunStep, Chzzk!Run!vars

\* What is kept depends on the final names and the reports only.
LEMMA KeptStays ==
  ASSUME NEW q \in Procs, UNCHANGED <<published, reported>>
  PROVE  Chzzk!Kept(q)' = Chzzk!Kept(q)
  BY DEF Chzzk!Kept

\* The ends of a job, and the way to another name.
LEMMA EndKinds ==
  ASSUME ChzzkBounds, ChzzkInv, NEW p \in Procs, task[p].pc \in Chzzk!Working
  PROVE  /\ \A how \in Chzzk!Ended : Chzzk!End(p, how) =>
              /\ task'[p].run = task[p].run /\ task'[p].saves = task[p].saves
              /\ task'[p].cancel = task[p].cancel
              /\ task'[p].pc = how /\ \A q \in Procs \ {p} : task'[q] = task[q]
         /\ \A n : Chzzk!LookAt(p, n) =>
              RunKind(task[p], task'[p]) /\ \A q \in Procs \ {p} : task'[q] = task[q]
         /\ \A j : /\ Chzzk!Become(p, j) /\ j.pc \in Chzzk!Working
                   /\ j.run = task[p].run /\ j.saves = task[p].saves /\ j.cancel = task[p].cancel
              => RunKind(task[p], task'[p]) /\ \A q \in Procs \ {p} : task'[q] = task[q]
<1>1. task[p] \in Chzzk!Jobs
  BY JobFacts
<1>2. ASSUME NEW how \in Chzzk!Ended, Chzzk!End(p, how)
      PROVE  /\ task'[p].run = task[p].run /\ task'[p].saves = task[p].saves
             /\ task'[p].cancel = task[p].cancel
             /\ task'[p].pc = how /\ \A q \in Procs \ {p} : task'[q] = task[q]
  <2> DEFINE j == [Chzzk!Unclaimed(task[p]) EXCEPT !.pc = how, !.owner = FALSE, !.staged = "none",
                                         !.streamlink = "none", !.ffmpeg = "none", !.attempt = 0]
  <2>1. task' = [task EXCEPT ![p] = j]
    BY <1>2 DEF Chzzk!End, Chzzk!Become
  <2>2. j.run = task[p].run /\ j.saves = task[p].saves /\ j.cancel = task[p].cancel /\ j.pc = how
    BY <1>1 DEF Chzzk!Unclaimed, Chzzk!Jobs
  <2> HIDE DEF j
  <2> QED BY <2>1, <2>2, OnlyOneMoves
<1>3. ASSUME NEW n, Chzzk!LookAt(p, n)
      PROVE  RunKind(task[p], task'[p]) /\ \A q \in Procs \ {p} : task'[q] = task[q]
  <2> DEFINE j == [Chzzk!Unclaimed(task[p]) EXCEPT !.pc = "look", !.name = n]
  <2>1. task' = [task EXCEPT ![p] = j]
    BY <1>3 DEF Chzzk!LookAt, Chzzk!Become
  <2>2. j.run = task[p].run /\ j.saves = task[p].saves /\ j.cancel = task[p].cancel /\ j.pc = "look"
    BY <1>1 DEF Chzzk!Unclaimed, Chzzk!Jobs
  <2> HIDE DEF j
  <2>3. "look" \in Chzzk!Working
    BY DEF Chzzk!Working
  <2> QED BY <2>1, <2>2, <2>3, OnlyOneMoves DEF RunKind
<1>4. ASSUME NEW j, Chzzk!Become(p, j), j.pc \in Chzzk!Working,
             j.run = task[p].run, j.saves = task[p].saves, j.cancel = task[p].cancel
      PROVE  RunKind(task[p], task'[p]) /\ \A q \in Procs \ {p} : task'[q] = task[q]
  <2>1. task' = [task EXCEPT ![p] = j]
    BY <1>4 DEF Chzzk!Become
  <2> QED BY <1>4, <2>1, OnlyOneMoves DEF RunKind
<1> QED BY <1>2, <1>3, <1>4

\* A whole download of the job is published under its name, where there was nothing.
Publishes(p, file) ==
  /\ Chzzk!Complete(p, file) /\ file \in Chzzk!File /\ file.whole /\ file.by = <<p, task[p].run>>
  /\ task[p].pc \in Chzzk!Working /\ task[p].saves /\ task[p].name \in Chzzk!Names
  /\ task[p].run \in Chzzk!Runs
  /\ published[task[p].name] = Chzzk!NoFile

\* Each step of a process is one of the kinds, a beginning, or a publication.
LEMMA StepKinds ==
  ASSUME ChzzkBounds, ChzzkInv, NEW p \in Procs,
         Chzzk!Scavenge(p) \/ Chzzk!Begin(p) \/ Chzzk!TaskStep(p) \/ Chzzk!Flag(p) \/ Chzzk!Over(p)
           \/ Chzzk!Crash(p)
  PROVE  \/ /\ RunKind(task[p], task'[p]) /\ \A q \in Procs \ {p} : task'[q] = task[q]
            /\ UNCHANGED <<published, reported>>
         \/ Chzzk!Begin(p)
         \/ \E file : Publishes(p, file)
<1> DEFINE Fine == /\ RunKind(task[p], task'[p]) /\ \A q \in Procs \ {p} : task'[q] = task[q]
                   /\ UNCHANGED <<published, reported>>
<1> USE DEF Chzzk!disk, Chzzk!Goto, Chzzk!At
<1>1. /\ task[p] \in Chzzk!Jobs /\ ClaimIsHeld(task[p], anchors) /\ DownloadIsWhole(task[p])
      /\ CopyIsClaimed(p, task[p], temps)
      /\ temps \in [Chzzk!Names -> Chzzk!File \cup {Chzzk!NoFile}]
  BY JobFacts
<1>2. ASSUME task[p].pc \in Chzzk!Working, UNCHANGED <<published, reported>>,
             NEW j, Chzzk!Become(p, j), j.pc \in Chzzk!Working,
             j.run = task[p].run, j.saves = task[p].saves, j.cancel = task[p].cancel
      PROVE  Fine
  BY <1>2, EndKinds
<1>3. ASSUME task[p].pc \in Chzzk!Working, UNCHANGED <<published, reported>>, NEW n, Chzzk!LookAt(p, n)
      PROVE  Fine
  BY <1>3, EndKinds
<1>4. ASSUME task[p].pc \in Chzzk!Working,
             \/ Chzzk!Gone(p, "failed")
             \/ Chzzk!Gone(p, "returned") /\ task[p].cancel
             \/ Chzzk!Gone(p, "published") /\ ~ task[p].saves
      PROVE  Fine
  BY <1>4, EndKinds DEF Chzzk!Gone, RunKind, Chzzk!Ended
<1>5. ASSUME NEW place \in Chzzk!Working
      PROVE  LET j == [task[p] EXCEPT !.pc = place]
             IN  j.pc \in Chzzk!Working /\ j.run = task[p].run /\ j.saves = task[p].saves
               /\ j.cancel = task[p].cancel
  BY <1>1 DEF Chzzk!Jobs
<1>6. ASSUME task[p].pc \in Chzzk!Working, UNCHANGED <<published, reported>>,
             NEW place \in Chzzk!Working, Chzzk!Become(p, [task[p] EXCEPT !.pc = place])
      PROVE  Fine
  BY <1>2, <1>5, <1>6
<1>7. \A w \in {"dir", "naming", "owning", "metadata", "look", "lock", "recheck", "attempt", "pipe",
                "finalize", "copy", "copying", "copied"} : w \in Chzzk!Working
  BY DEF Chzzk!Working
<1>8. CASE Chzzk!Scavenge(p) \/ Chzzk!Over(p) \/ Chzzk!Crash(p) \/ Chzzk!Flag(p)
  <2>1. CASE Chzzk!Scavenge(p)
    <3>1. /\ task[p].pc = "boot" /\ task' = [task EXCEPT ![p] = [task[p] EXCEPT !.pc = "idle"]]
          /\ UNCHANGED <<published, reported>>
      BY <2>1 DEF Chzzk!Scavenge, Chzzk!Become
    <3>2. LET j == [task[p] EXCEPT !.pc = "idle"]
          IN  j.pc = "idle" /\ j.run = task[p].run /\ j.saves = task[p].saves /\ j.cancel = task[p].cancel
      BY <1>1 DEF Chzzk!Jobs
    <3> QED BY <3>1, <3>2, OnlyOneMoves DEF RunKind
  <2>2. CASE Chzzk!Over(p)
    <3>1. /\ task[p].pc \in Chzzk!Ended
          /\ task' = [task EXCEPT ![p] = [task[p] EXCEPT !.pc = "idle", !.cancel = FALSE]]
          /\ UNCHANGED <<published, reported>>
      BY <2>2 DEF Chzzk!Over, Chzzk!Become
    <3>2. LET j == [task[p] EXCEPT !.pc = "idle", !.cancel = FALSE]
          IN  j.pc = "idle" /\ j.run = task[p].run /\ j.saves = task[p].saves /\ j.cancel = FALSE
      BY <1>1 DEF Chzzk!Jobs
    <3> QED BY <3>1, <3>2, OnlyOneMoves DEF RunKind
  <2>3. CASE Chzzk!Crash(p)
    <3>1. /\ task[p].pc \in Chzzk!Working
          /\ task' = [task EXCEPT ![p] = [Chzzk!NoJob EXCEPT !.run = task[p].run, !.saves = task[p].saves]]
          /\ UNCHANGED <<published, reported>>
      BY <2>3 DEF Chzzk!Crash, Chzzk!Become
    <3>2. LET j == [Chzzk!NoJob EXCEPT !.run = task[p].run, !.saves = task[p].saves]
          IN  j.pc = "boot" /\ j.run = task[p].run /\ j.saves = task[p].saves /\ j.cancel = FALSE
      BY DEF Chzzk!NoJob
    <3> QED BY <3>1, <3>2, OnlyOneMoves DEF RunKind
  <2>4. CASE Chzzk!Flag(p)
    <3>1. /\ task[p].pc \in Chzzk!Working /\ task' = [task EXCEPT ![p] = [task[p] EXCEPT !.cancel = TRUE]]
          /\ UNCHANGED <<published, reported>>
      BY <2>4 DEF Chzzk!Flag, Chzzk!Become
    <3>2. LET j == [task[p] EXCEPT !.cancel = TRUE]
          IN  j.pc = task[p].pc /\ j.run = task[p].run /\ j.saves = task[p].saves /\ j.cancel = TRUE
      BY <1>1 DEF Chzzk!Jobs
    <3> QED BY <3>1, <3>2, OnlyOneMoves DEF RunKind
  <2> QED BY <1>8, <2>1, <2>2, <2>3, <2>4
<1>9. CASE Chzzk!PrepareDir(p) \/ Chzzk!NameDir(p)
  <2>1. /\ task[p].pc \in Chzzk!Working /\ UNCHANGED <<published, reported>>
        /\ \/ \E place \in Chzzk!Working : Chzzk!Become(p, [task[p] EXCEPT !.pc = place])
           \/ Chzzk!Gone(p, "failed")
    BY <1>7, <1>9 DEF Chzzk!PrepareDir, Chzzk!NameDir, Chzzk!Gone
  <2> QED BY <1>4, <1>6, <2>1
<1>10. CASE Chzzk!OwnDir(p)
  <2> DEFINE j == [task[p] EXCEPT !.pc = "metadata", !.owner = TRUE]
  <2>1. j.pc \in Chzzk!Working /\ j.run = task[p].run /\ j.saves = task[p].saves /\ j.cancel = task[p].cancel
    BY <1>1, <1>7 DEF Chzzk!Jobs
  <2>2. /\ task[p].pc \in Chzzk!Working /\ UNCHANGED <<published, reported>>
        /\ Chzzk!Become(p, j) \/ Chzzk!Gone(p, "failed")
    BY <1>7, <1>10 DEF Chzzk!OwnDir, Chzzk!Gone
  <2> HIDE DEF j
  <2> QED BY <1>2, <1>4, <2>1, <2>2
<1>11. CASE Chzzk!Metadata(p)
  <2>1. /\ task[p].pc \in Chzzk!Working
        /\ \/ Chzzk!Gone(p, "failed")
           \/ Chzzk!Gone(p, "published") /\ ~ task[p].saves
           \/ Chzzk!LookAt(p, 1) /\ UNCHANGED <<published, reported>>
    BY <1>7, <1>11 DEF Chzzk!Metadata
  <2> QED BY <1>3, <1>4, <2>1
<1>12. CASE Chzzk!Look(p)
  <2>1. /\ task[p].pc \in Chzzk!Working
        /\ \/ Chzzk!Gone(p, "failed")
           \/ \E n : Chzzk!LookAt(p, n) /\ UNCHANGED <<published, reported>>
           \/ \E i : Chzzk!Become(p, [task[p] EXCEPT !.pc = "lock", !.inode = i]) /\ UNCHANGED <<published, reported>>
    BY <1>7, <1>12 DEF Chzzk!Look
  <2>2. \A i : LET j == [task[p] EXCEPT !.pc = "lock", !.inode = i]
               IN  j.pc \in Chzzk!Working /\ j.run = task[p].run /\ j.saves = task[p].saves
                 /\ j.cancel = task[p].cancel
    BY <1>1, <1>7 DEF Chzzk!Jobs
  <2> QED BY <1>2, <1>3, <1>4, <2>1, <2>2
<1>13. CASE Chzzk!Lock(p)
  <2> DEFINE j == [task[p] EXCEPT !.pc = "recheck", !.claim = TRUE]
  <2>1. j.pc \in Chzzk!Working /\ j.run = task[p].run /\ j.saves = task[p].saves /\ j.cancel = task[p].cancel
    BY <1>1, <1>7 DEF Chzzk!Jobs
  <2>2. /\ task[p].pc \in Chzzk!Working /\ UNCHANGED <<published, reported>>
        /\ Chzzk!Become(p, j) \/ \E n : Chzzk!LookAt(p, n)
    BY <1>7, <1>13 DEF Chzzk!Lock
  <2> HIDE DEF j
  <2> QED BY <1>2, <1>3, <2>1, <2>2
<1>14. CASE Chzzk!Recheck(p)
  <2>1. /\ task[p].pc \in Chzzk!Working /\ UNCHANGED <<published, reported>>
        /\ \/ \E n : Chzzk!LookAt(p, n)
           \/ \E place \in Chzzk!Working : Chzzk!Become(p, [task[p] EXCEPT !.pc = place])
    BY <1>7, <1>14 DEF Chzzk!Recheck
  <2> QED BY <1>3, <1>6, <2>1
<1>15. CASE Chzzk!Attempt(p)
  <2> DEFINE j == [task[p] EXCEPT !.pc = "pipe", !.attempt = @ + 1, !.staged = "partial",
                                  !.streamlink = "run", !.ffmpeg = "run"]
  <2>1. j.pc \in Chzzk!Working /\ j.run = task[p].run /\ j.saves = task[p].saves /\ j.cancel = task[p].cancel
    BY <1>1, <1>7 DEF Chzzk!Jobs
  <2>2. /\ task[p].pc \in Chzzk!Working
        /\ \/ Chzzk!Become(p, j) /\ UNCHANGED <<published, reported>>
           \/ Chzzk!Gone(p, "returned") /\ task[p].cancel
    BY <1>7, <1>15 DEF Chzzk!Attempt
  <2> HIDE DEF j
  <2> QED BY <1>2, <1>4, <2>1, <2>2
<1>16. CASE Chzzk!StreamlinkExits(p) \/ Chzzk!FFmpegExits(p)
  <2>1. task[p].pc = "pipe" /\ UNCHANGED <<published, reported>>
    BY <1>16 DEF Chzzk!StreamlinkExits, Chzzk!FFmpegExits
  <2>2. \A how : LET j == [task[p] EXCEPT !.streamlink = how]
                 IN  j.pc = task[p].pc /\ j.run = task[p].run /\ j.saves = task[p].saves
                   /\ j.cancel = task[p].cancel
    BY <1>1 DEF Chzzk!Jobs
  <2>3. \A how : LET j == [task[p] EXCEPT !.ffmpeg = how]
                 IN  j.pc = task[p].pc /\ j.run = task[p].run /\ j.saves = task[p].saves
                   /\ j.cancel = task[p].cancel
    BY <1>1 DEF Chzzk!Jobs
  <2>4. LET j == [task[p] EXCEPT !.ffmpeg = "ok", !.staged = "whole"]
        IN  j.pc = task[p].pc /\ j.run = task[p].run /\ j.saves = task[p].saves /\ j.cancel = task[p].cancel
    BY <1>1 DEF Chzzk!Jobs
  <2>5. \/ \E how : Chzzk!Become(p, [task[p] EXCEPT !.streamlink = how])
        \/ \E how : Chzzk!Become(p, [task[p] EXCEPT !.ffmpeg = how])
        \/ Chzzk!Become(p, [task[p] EXCEPT !.ffmpeg = "ok", !.staged = "whole"])
    BY <1>16, Zenon DEF Chzzk!StreamlinkExits, Chzzk!FFmpegExits
  <2> QED BY <1>2, <1>7, <2>1, <2>2, <2>3, <2>4, <2>5
<1>17. CASE Chzzk!Observe(p)
  <2> DEFINE j == [task[p] EXCEPT !.pc = "attempt", !.staged = "none", !.streamlink = "none", !.ffmpeg = "none"]
  <2>1. j.pc \in Chzzk!Working /\ j.run = task[p].run /\ j.saves = task[p].saves /\ j.cancel = task[p].cancel
    BY <1>1, <1>7 DEF Chzzk!Jobs
  <2>2. /\ task[p].pc \in Chzzk!Working
        /\ \/ Chzzk!Become(p, j) /\ UNCHANGED <<published, reported>>
           \/ Chzzk!Become(p, [task[p] EXCEPT !.pc = "finalize"]) /\ UNCHANGED <<published, reported>>
           \/ Chzzk!Gone(p, "returned") /\ task[p].cancel
           \/ Chzzk!Gone(p, "failed")
    BY <1>7, <1>17 DEF Chzzk!Observe, Chzzk!FailAttempt
  <2> HIDE DEF j
  <2> QED BY <1>2, <1>4, <1>6, <1>7, <2>1, <2>2
<1>18. CASE Chzzk!LinkOrCopy(p) \/ Chzzk!CopyBegins(p) \/ Chzzk!Copy(p) \/ Chzzk!CopyLinks(p)
  <2>1. task[p].pc \in Chzzk!Working /\ task[p].pc \in Storing
    BY <1>7, <1>18 DEF Chzzk!LinkOrCopy, Chzzk!CopyBegins, Chzzk!Copy, Chzzk!CopyLinks, Storing
  <2>2. /\ task[p].name \in Chzzk!Names /\ task[p].run \in Chzzk!Runs /\ task[p].saves
        /\ task[p].staged = "whole"
    BY <1>1, <2>1 DEF ClaimIsHeld, DownloadIsWhole, Storing, Naming, Claiming, Chzzk!Jobs, Chzzk!Runs,
    ChzzkBounds
  <2>3. \/ Chzzk!Gone(p, "failed")
        \/ Chzzk!Gone(p, "returned") /\ task[p].cancel
        \/ Chzzk!Collide(p)
        \/ \E place \in {"copy", "copying", "copied"} :
             Chzzk!Become(p, [task[p] EXCEPT !.pc = place]) /\ UNCHANGED <<published, reported>>
        \/ /\ published[task[p].name] = Chzzk!NoFile /\ task[p].pc = "finalize"
           /\ Chzzk!Complete(p, [by |-> <<p, task[p].run>>, whole |-> task[p].staged = "whole"])
        \/ /\ published[task[p].name] = Chzzk!NoFile /\ task[p].pc = "copied" /\ temps[task[p].name] # Chzzk!NoFile
           /\ Chzzk!Complete(p, temps[task[p].name])
    <3> USE DEF Chzzk!MustYield, Chzzk!Exists, Chzzk!Target, Chzzk!Self
    <3>1. CASE Chzzk!LinkOrCopy(p)
      BY <3>1 DEF Chzzk!LinkOrCopy
    <3>2. CASE Chzzk!CopyBegins(p)
      BY <3>2 DEF Chzzk!CopyBegins
    <3>3. CASE Chzzk!Copy(p)
      BY <3>3 DEF Chzzk!Copy
    <3>4. CASE Chzzk!CopyLinks(p)
      BY <3>4 DEF Chzzk!CopyLinks
    <3> QED BY <1>18, <3>1, <3>2, <3>3, <3>4
  <2>4. CASE Chzzk!Collide(p)
    BY <1>3, <2>1, <2>4 DEF Chzzk!Collide
  <2>5. CASE \E place \in {"copy", "copying", "copied"} :
               Chzzk!Become(p, [task[p] EXCEPT !.pc = place]) /\ UNCHANGED <<published, reported>>
    BY <1>6, <1>7, <2>1, <2>5
  <2>6. CASE /\ published[task[p].name] = Chzzk!NoFile /\ task[p].pc = "finalize"
             /\ Chzzk!Complete(p, [by |-> <<p, task[p].run>>, whole |-> task[p].staged = "whole"])
    <3> DEFINE file == [by |-> <<p, task[p].run>>, whole |-> task[p].staged = "whole"]
    <3>1. file \in Chzzk!File /\ file.whole /\ file.by = <<p, task[p].run>>
      BY <2>2 DEF Chzzk!File, Chzzk!Writers
    <3>2. Publishes(p, file)
      BY <2>1, <2>2, <2>6, <3>1 DEF Publishes
    <3> QED BY <3>2
  <2>7. CASE /\ published[task[p].name] = Chzzk!NoFile /\ task[p].pc = "copied"
             /\ temps[task[p].name] # Chzzk!NoFile
             /\ Chzzk!Complete(p, temps[task[p].name])
    <3> DEFINE file == temps[task[p].name]
    <3>1. file \in Chzzk!File /\ file.whole /\ file.by = <<p, task[p].run>>
      BY <1>1, <2>2, <2>7 DEF CopyIsClaimed
    <3>2. Publishes(p, file)
      BY <2>1, <2>2, <2>7, <3>1 DEF Publishes
    <3> QED BY <3>2
  <2> QED BY <1>4, <2>1, <2>3, <2>4, <2>5, <2>6, <2>7
<1> QED BY <1>8, <1>9, <1>10, <1>11, <1>12, <1>13, <1>14, <1>15, <1>16, <1>17, <1>18 DEF Chzzk!TaskStep

\* What a publication adds to what the runs of the processes kept.
LEMMA PublicationIsKept ==
  ASSUME ChzzkBounds, ChzzkInv, NEW p \in Procs, NEW file, Publishes(p, file)
  PROVE  /\ Chzzk!Kept(p)' = Chzzk!Kept(p) \cup {task[p].run}
         /\ \A q \in Procs \ {p} : Chzzk!Kept(q)' = Chzzk!Kept(q)
<1> DEFINE n == task[p].name
           mine == [proc |-> p, run |-> task[p].run, name |-> n]
<1>1. /\ published \in [Chzzk!Names -> Chzzk!File \cup {Chzzk!NoFile}]
      /\ reported \subseteq [proc : Procs, run : Chzzk!Runs, name : Chzzk!Names]
  BY JobFacts
<1>2. /\ n \in Chzzk!Names /\ published[n] = Chzzk!NoFile /\ file.whole /\ file.by = <<p, task[p].run>>
      /\ published' = [published EXCEPT ![n] = file] /\ reported' = reported \cup {mine}
  BY DEF Publishes, Chzzk!Complete, Chzzk!Target
<1>3. mine.proc = p /\ mine.run = task[p].run /\ mine.name = n
  OBVIOUS
<1>4. published'[n] = file /\ \A m \in Chzzk!Names \ {n} : published'[m] = published[m]
  BY <1>1, <1>2
<1>5. \A q, i : published[n].by # <<q, i>>
  BY <1>2, NoFileHasNoWriter
<1>6. \A r \in reported : r.name \in Chzzk!Names
  BY <1>1
<1> HIDE DEF mine, n
<1>7. ASSUME NEW q \in Procs
      PROVE  \A r \in reported :
               /\ r.proc = q /\ published[r.name].whole /\ published[r.name].by = <<q, r.run>>
               => published'[r.name].whole /\ published'[r.name].by = <<q, r.run>>
  <2> SUFFICES ASSUME NEW r \in reported, published[r.name].whole, published[r.name].by = <<q, r.run>>
               PROVE  published'[r.name].whole /\ published'[r.name].by = <<q, r.run>>
    OBVIOUS
  <2>1. r.name # n
    BY <1>5
  <2> QED BY <1>4, <1>6, <2>1
<1>8. ASSUME NEW q \in Procs, NEW r \in reported', r.proc = q, published'[r.name].whole, published'[r.name].by = <<q, r.run>>
      PROVE  \/ r \in reported /\ published[r.name].whole /\ published[r.name].by = <<q, r.run>>
             \/ q = p /\ r.run = task[p].run
  <2>1. CASE r = mine
    BY <1>3, <1>8, <2>1
  <2>2. CASE r \in reported /\ r.name # n
    BY <1>4, <1>6, <1>8, <2>2
  <2>3. CASE r \in reported /\ r.name = n
    <3>1. <<q, r.run>> = <<p, task[p].run>>
      BY <1>2, <1>4, <1>8, <2>3
    <3> QED BY <3>1
  <2> QED BY <1>2, <1>8, <2>1, <2>2, <2>3
<1>9. task[p].run \in Chzzk!Kept(p)'
  <2>1. mine \in reported' /\ published'[mine.name].whole /\ published'[mine.name].by = <<p, mine.run>>
    BY <1>2, <1>3, <1>4
  <2> QED BY <1>3, <2>1 DEF Chzzk!Kept
<1>10. reported \subseteq reported'
  BY <1>2
<1>11. ASSUME NEW q \in Procs
       PROVE  Chzzk!Kept(q) \subseteq Chzzk!Kept(q)'
  BY <1>7, <1>10 DEF Chzzk!Kept
<1>12. ASSUME NEW q \in Procs, NEW i \in Chzzk!Kept(q)'
       PROVE  i \in Chzzk!Kept(q) \/ (q = p /\ i = task[p].run)
  <2>1. PICK r \in reported' : /\ i = r.run /\ r.proc = q /\ published'[r.name].whole
          /\ published'[r.name].by = <<q, r.run>>
    BY <1>12 DEF Chzzk!Kept
  <2> QED BY <1>8, <2>1 DEF Chzzk!Kept
<1> QED BY <1>9, <1>11, <1>12

\* Somebody else's file takes nothing away.
LEMMA ForeignFileIsNotKept ==
  ASSUME ChzzkBounds, ChzzkInv, NEW n \in Chzzk!Names, Chzzk!Foreign(n), NEW q \in Procs
  PROVE  Chzzk!Kept(q)' = Chzzk!Kept(q)
<1>1. /\ published \in [Chzzk!Names -> Chzzk!File \cup {Chzzk!NoFile}]
      /\ reported \subseteq [proc : Procs, run : Chzzk!Runs, name : Chzzk!Names]
  BY JobFacts
<1>2. /\ published[n] = Chzzk!NoFile /\ reported' = reported
      /\ published' = [published EXCEPT ![n] = [by |-> <<NoProc, Chzzk!None>>, whole |-> TRUE]]
  BY DEF Chzzk!Foreign, Chzzk!Exists
<1>3. ASSUME NEW i
      PROVE  published[n].by # <<q, i>> /\ published'[n].by # <<q, i>>
  <2>1. published'[n].by = <<NoProc, Chzzk!None>>
    BY <1>1, <1>2
  <2>2. NoProc # q
    BY DEF ChzzkBounds
  <2> QED BY <1>2, <2>1, <2>2, NoFileHasNoWriter
<1>4. ASSUME NEW r \in reported
      PROVE  published'[r.name].whole /\ published'[r.name].by = <<q, r.run>>
               <=> published[r.name].whole /\ published[r.name].by = <<q, r.run>>
  <2>1. r.name \in Chzzk!Names
    BY <1>1
  <2>2. CASE r.name = n
    BY <1>3, <2>2
  <2>3. CASE r.name # n
    BY <1>1, <1>2, <2>1, <2>3
  <2> QED BY <2>2, <2>3
<1> QED BY <1>2, <1>4 DEF Chzzk!Kept

\* Every step is one that DownloadRun allows to the job of each process.
LEMMA ChzzkRunSteps ==
  ASSUME ChzzkBounds, ChzzkInv, Chzzk!Next, NEW q \in Procs
  PROVE  Chzzk!RunStep(q)
<1>1. CASE \E n \in Chzzk!Names : Chzzk!Foreign(n)
  BY <1>1, ForeignFileIsNotKept, UntouchedRun DEF Chzzk!Foreign
<1>2. ASSUME NEW p \in Procs,
             Chzzk!Scavenge(p) \/ Chzzk!Begin(p) \/ Chzzk!TaskStep(p) \/ Chzzk!Flag(p) \/ Chzzk!Over(p)
               \/ Chzzk!Crash(p)
      PROVE  Chzzk!RunStep(q)
  <2>1. CASE /\ RunKind(task[p], task'[p]) /\ \A o \in Procs \ {p} : task'[o] = task[o]
             /\ UNCHANGED <<published, reported>>
    <3>1. Chzzk!Kept(q)' = Chzzk!Kept(q)
      BY <2>1, KeptStays
    <3> QED BY <2>1, <3>1, KindIsARunStep, UntouchedRun
  <2>2. CASE Chzzk!Begin(p)
    <3>1. PICK s \in BOOLEAN :
            task' = [task EXCEPT ![p] = [Chzzk!NoJob EXCEPT !.pc = "dir", !.run = task[p].run + 1,
            !.saves = s]]
      BY <2>2 DEF Chzzk!Begin, Chzzk!Become
    <3>2. task[p].pc = "idle" /\ UNCHANGED <<published, reported>>
      BY <2>2 DEF Chzzk!Begin, Chzzk!At, Chzzk!disk
    <3> DEFINE j == [Chzzk!NoJob EXCEPT !.pc = "dir", !.run = task[p].run + 1, !.saves = s]
    <3>3. j.pc = "dir" /\ j.run = task[p].run + 1 /\ j.saves = s /\ j.cancel = FALSE
      BY DEF Chzzk!NoJob
    <3>4. task' = [task EXCEPT ![p] = j]
      BY <3>1
    <3> HIDE DEF j
    <3>5. task'[p] = j /\ \A o \in Procs \ {p} : task'[o] = task[o]
      BY <3>4, OnlyOneMoves
    <3>6. Chzzk!Kept(q)' = Chzzk!Kept(q)
      BY <3>2, KeptStays
    <3>7. CASE q = p
      <4>1. Chzzk!Phase(p) = "idle" /\ Chzzk!Phase(p)' = "work"
        BY <3>2, <3>3, <3>5 DEF Chzzk!Phase, Chzzk!Working
      <4>2. task'[p].run = task[p].run + 1 /\ task'[p].saves \in BOOLEAN /\ task'[p].cancel = FALSE
        BY <3>3, <3>5
      <4> QED BY <3>6, <3>7, <4>1, <4>2 DEF Chzzk!RunStep, Chzzk!Run!Next, Chzzk!Run!Begin
    <3> QED BY <3>5, <3>6, <3>7, UntouchedRun
  <2>3. CASE \E file : Publishes(p, file)
    <3>1. PICK file : Publishes(p, file)
      BY <2>3
    <3>2. /\ task[p].pc \in Chzzk!Working /\ task[p].saves /\ Chzzk!End(p, "published")
          /\ "published" \in Chzzk!Ended
      BY <3>1 DEF Publishes, Chzzk!Complete, Chzzk!Ended
    <3>3. /\ task'[p].run = task[p].run /\ task'[p].saves = task[p].saves /\ task'[p].cancel = task[p].cancel
          /\ task'[p].pc = "published" /\ \A o \in Procs \ {p} : task'[o] = task[o]
      BY <3>2, EndKinds
    <3>4. CASE q = p
      <4>1. Chzzk!Phase(p) = "work" /\ Chzzk!Phase(p)' = "published"
        BY <3>2, <3>3 DEF Chzzk!Phase, Chzzk!Working
      <4>2. Chzzk!Kept(p)' = Chzzk!Kept(p) \cup {task[p].run}
        BY <3>1, PublicationIsKept
      <4> QED BY <3>2, <3>3, <3>4, <4>1, <4>2 DEF Chzzk!RunStep, Chzzk!Run!Next, Chzzk!Run!Publish
    <3>5. CASE q # p
      BY <3>1, <3>3, <3>5, PublicationIsKept, UntouchedRun
    <3> QED BY <3>4, <3>5
  <2> QED BY <1>2, <2>1, <2>2, <2>3, StepKinds
<1> QED BY <1>1, <1>2 DEF Chzzk!Next

\* A file under a final name stays as it is.
LEMMA NamesAreKept ==
  ASSUME ChzzkBounds, ChzzkInv, Chzzk!Next, NEW m \in Chzzk!Names, Chzzk!Exists(m)
  PROVE  published'[m] = published[m]
<1>1. published \in [Chzzk!Names -> Chzzk!File \cup {Chzzk!NoFile}] /\ published[m] # Chzzk!NoFile
  BY DEF ChzzkInv, Chzzk!ChzzkTypeOK, Chzzk!Exists
<1>2. CASE \E n \in Chzzk!Names : Chzzk!Foreign(n)
  BY <1>1, <1>2 DEF Chzzk!Foreign, Chzzk!Exists
<1>3. ASSUME NEW p \in Procs,
             Chzzk!Scavenge(p) \/ Chzzk!Begin(p) \/ Chzzk!TaskStep(p) \/ Chzzk!Flag(p) \/ Chzzk!Over(p)
               \/ Chzzk!Crash(p)
      PROVE  published'[m] = published[m]
  <2>1. CASE UNCHANGED <<published, reported>>
    BY <2>1
  <2>2. CASE Chzzk!Begin(p)
    BY <2>2 DEF Chzzk!Begin, Chzzk!disk
  <2>3. CASE \E file : Publishes(p, file)
    BY <1>1, <2>3 DEF Publishes, Chzzk!Complete, Chzzk!Target
  <2> QED BY <1>3, <2>1, <2>2, <2>3, StepKinds
<1> QED BY <1>2, <1>3 DEF Chzzk!Next

\* A CHZZK job holds its names and its directory alone, and leaves nothing behind that it wrote
\* under another name (job_dir, claim_collision_path, Drop of DestinationClaim).
THEOREM JobsOwnTheirFiles == Spec => []ChzzkOwnsItsFiles
<1>1. ChzzkBounds
  BY PartsAssumption DEF ChzzkBounds
<1>2. Chzzk!Init => ChzzkInv
  BY <1>1, ChzzkInit
<1>3. ChzzkInv /\ [Chzzk!Next]_(Chzzk!vars) => ChzzkInv'
  BY <1>1, ChzzkStep
<1>4. ChzzkInv => ChzzkOwnsItsFiles
  BY <1>1, ChzzkInvIsEnough DEF ChzzkOwnsItsFiles
<1> QED BY <1>2, <1>3, <1>4, ChzzkPart, PTL DEF Chzzk!Spec

\* What a CHZZK job reports COMPLETED is whole, its own and there for good, and no file under a
\* final name is replaced, by whichever process (finalize_output, publish_by_copy).
THEOREM PublishedFilesStay == Spec => ChzzkPublishes
<1>1. ChzzkBounds
  BY PartsAssumption DEF ChzzkBounds
<1>2. Chzzk!Init => ChzzkInv
  BY <1>1, ChzzkInit
<1>3. ChzzkInv /\ [Chzzk!Next]_(Chzzk!vars) => ChzzkInv'
  BY <1>1, ChzzkStep
<1>4. Chzzk!Init => \A p \in Procs : Chzzk!RunInit(p)
  BY <1>1, ChzzkRunInit
<1>5. ChzzkInv /\ [Chzzk!Next]_(Chzzk!vars) => [\A p \in Procs : Chzzk!RunStep(p)]_(Chzzk!vars)
  BY <1>1, ChzzkRunSteps
<1>6. ChzzkInv /\ [Chzzk!Next]_(Chzzk!vars)
        => [\A n \in Chzzk!Names : Chzzk!Exists(n) => published'[n] = published[n]]_(Chzzk!vars)
  BY <1>1, NamesAreKept
<1> QED BY <1>2, <1>3, <1>4, <1>5, <1>6, ChzzkPart, PTL
        DEF ChzzkPublishes, Chzzk!Spec, Chzzk!ChzzkRuns, Chzzk!NothingReplaced
=============================================================================
