------------------------ MODULE SecretJournalProofs ------------------------
(* Proofs about SecretJournal: for any set of processes, of keys and of     *)
(* references no credential is lost and no stored reference dangles.        *)
EXTENDS SecretJournal, TLAPS

\* Whoever works holds the lock, and nobody reads meanwhile.
LockInv ==
  /\ \A p \in Procs : op[p].pc # "idle" => guard = p
  /\ \A p \in Procs : reading[p] # Silent => guard = Nobody

\* A reference occurs in one place only: as one key's setting or in one key's journal.
OnePlace ==
  /\ \A k, l \in Keys : db.setting[k] \in Refs /\ db.setting[k] = db.setting[l] => k = l
  /\ \A k, l \in Keys : db.setting[k] \notin db.journal[l]
  /\ \A k, l \in Keys : k # l => db.journal[k] \cap db.journal[l] = {}

\* References in the tables have been drawn.
UsedAreDrawn ==
  \A k \in Keys : db.journal[k] \subseteq drawn /\ (db.setting[k] \in Refs => db.setting[k] \in drawn)

\* What p is deleting is what the journal says.
DeletesJournalled(p) ==
  LET o == op[p] IN
  /\ o.pc = "clean" => /\ o.phase \in {"prepare", "tidy"}
                       /\ o.pending = db.journal[o.key]
  /\ o.pc = "forget" => /\ o.phase \in {"prepare", "tidy", "undo"}
                        /\ o.ref \in db.journal[o.key] /\ o.ref \notin keystore
                        /\ o.phase # "undo" => o.pending = db.journal[o.key]
  /\ o.pc = "store" => o.phase = "prepare" /\ o.ref \in db.journal[o.key]
  /\ o.pc \in {"clean", "forget", "store"} =>
       o.key \in Keys /\ (o.phase \in {"prepare", "tidy"} <=> o.key \in o.todo)

\* The fresh credentials of a save exist and are journalled until the commit.
FreshInv(p) ==
  LET o == op[p] IN
  /\ o.phase = "prepare" =>
       /\ o.todo \subseteq o.keys
       /\ \A k \in Keys : o.fresh[k] # Unset <=> k \in o.keys \ o.todo
       /\ \A k \in o.keys \ o.todo : o.fresh[k] \in db.journal[k] \cap keystore
  /\ o.phase = "undo" => \A k \in o.todo : o.fresh[k] \in db.journal[k]

\* A key that is ticked off has an empty journal.
TidyInv(p) ==
  LET o == op[p] IN
  o.phase = "tidy" => o.todo \subseteq o.keys /\ \A k \in o.keys \ o.todo : db.journal[k] = {}

\* The staging copy of a restore is up to date; an idle process has no phase.
StageInv(p) ==
  /\ op[p].pc = "copy" => staged[p] = db
  /\ op[p].pc = "idle" => op[p] = Idle

WorkInv == \A p \in Procs : DeletesJournalled(p) /\ FreshInv(p) /\ TidyInv(p) /\ StageInv(p)

\* What holds of the two stores after every step.
StoresInv == NoOrphan /\ ReferencesAreLive /\ OnePlace /\ UsedAreDrawn

\* The inductive invariant.
JournalInv == SecretTypeOK /\ LockInv /\ StoresInv /\ ReadersFindIt /\ WorkInv

----------------------------------------------------------------------------
(* Lemmas: what a step needs to keep the invariant.                         *)

LEMMA IdleIsTyped ==
  /\ Idle \in Op /\ Idle.pc = "idle" /\ Idle.phase = "none" /\ Idle.todo = {}
  /\ NoRows \in Rows
BY DEF Idle, Op, Pcs, Phases, NoFresh, NoRows, Rows, Values

\* The holder of the lock is alone: no other process works, and none reads.
LEMMA AloneAtWork ==
  ASSUME JournalInv, NEW p \in Procs, op[p].pc # "idle"
  PROVE  /\ guard = p
         /\ \A q \in Procs : q # p => op[q] = Idle
         /\ \A q \in Procs : reading[q] = Silent
BY SecretAssumption DEF JournalInv, LockInv, WorkInv, StageInv

\* A step of p alone: only its own part of WorkInv and the stores are in question.
LEMMA WorkStep ==
  ASSUME JournalInv, NEW p \in Procs, op[p].pc # "idle", NEW o \in Op,
         Becomes(p, o), o.pc # "idle", UNCHANGED <<guard, reading>>,
         db' \in Rows, staged' \in [Procs -> Rows], keystore' \subseteq Refs, drawn' \subseteq Refs,
         StoresInv', DeletesJournalled(p)', FreshInv(p)', TidyInv(p)', StageInv(p)'
  PROVE  JournalInv'
<1>1. op' \in [Procs -> Op] /\ op'[p] = o /\ \A q \in Procs : q # p => op'[q] = Idle
  BY AloneAtWork DEF JournalInv, SecretTypeOK, Becomes
<1>2. SecretTypeOK'
  BY <1>1 DEF JournalInv, SecretTypeOK
<1>3. guard' = p /\ \A q \in Procs : reading'[q] = Silent
  BY AloneAtWork
<1>4. LockInv' /\ ReadersFindIt'
  BY <1>1, <1>3, IdleIsTyped, SecretAssumption DEF LockInv, ReadersFindIt
<1>5. WorkInv'
  BY <1>1, IdleIsTyped DEF WorkInv, DeletesJournalled, FreshInv, TidyInv, StageInv
<1> QED
  BY <1>2, <1>4, <1>5 DEF JournalInv

\* The end of an operation, whatever it did to the stores.
LEMMA EndStep ==
  ASSUME JournalInv, NEW p \in Procs, op[p].pc # "idle",
         Release(p), UNCHANGED reading,
         db' \in Rows, staged' \in [Procs -> Rows], keystore' \subseteq Refs, drawn' \subseteq Refs,
         StoresInv'
  PROVE  JournalInv'
<1>1. op' \in [Procs -> Op] /\ \A q \in Procs : op'[q] = Idle
  BY AloneAtWork, IdleIsTyped DEF JournalInv, SecretTypeOK, Release, Becomes
<1>2. guard' = Nobody /\ \A q \in Procs : reading'[q] = Silent
  BY AloneAtWork DEF Release
<1>3. SecretTypeOK'
  BY <1>1, <1>2 DEF JournalInv, SecretTypeOK
<1>4. LockInv' /\ ReadersFindIt'
  BY <1>1, <1>2, IdleIsTyped, SecretAssumption DEF LockInv, ReadersFindIt
<1>5. WorkInv'
  BY <1>1, IdleIsTyped DEF WorkInv, DeletesJournalled, FreshInv, TidyInv, StageInv
<1> QED
  BY <1>3, <1>4, <1>5 DEF JournalInv

\* A process takes the lock and begins.
LEMMA BeginStep ==
  ASSUME JournalInv, NEW p \in Procs, CanLock(p), guard' = p, NEW o \in Op,
         Becomes(p, o), o.pc # "idle", UNCHANGED reading,
         db' \in Rows, staged' \in [Procs -> Rows], keystore' \subseteq Refs, drawn' \subseteq Refs,
         StoresInv', DeletesJournalled(p)', FreshInv(p)', TidyInv(p)', StageInv(p)'
  PROVE  JournalInv'
<1>1. /\ op' \in [Procs -> Op] /\ op'[p] = o
      /\ \A q \in Procs : q # p => op'[q] = op[q] /\ op[q] = Idle
  BY SecretAssumption DEF JournalInv, SecretTypeOK, CanLock, LockInv, WorkInv, StageInv, Becomes
<1>2. SecretTypeOK'
  BY <1>1 DEF JournalInv, SecretTypeOK
<1>3. LockInv' /\ ReadersFindIt'
  BY <1>1, IdleIsTyped, SecretAssumption DEF LockInv, ReadersFindIt, CanLock
<1>4. WorkInv'
  BY <1>1, IdleIsTyped DEF WorkInv, DeletesJournalled, FreshInv, TidyInv, StageInv
<1> QED
  BY <1>2, <1>3, <1>4 DEF JournalInv

\* Deleting a journalled credential disturbs neither store's consistency.
LEMMA DeletionIsSafe ==
  ASSUME JournalInv, NEW k \in Keys, NEW r \in db.journal[k],
         keystore' \in {keystore, keystore \ {r}}, UNCHANGED <<db, drawn>>
  PROVE  StoresInv' /\ keystore' \subseteq Refs
<1>1. \A l \in Keys : db.setting[l] # r
  BY DEF JournalInv, StoresInv, OnePlace
<1> QED
  BY <1>1 DEF JournalInv, SecretTypeOK, StoresInv, NoOrphan, ReferencesAreLive, OnePlace, UsedAreDrawn

----------------------------------------------------------------------------
(* One lemma per group of actions.                                          *)

LEMMA ReadersKeepJournalInv ==
  ASSUME JournalInv, NEW p \in Procs, Read(p) \/ ReadEnds(p)
  PROVE  JournalInv'
<1>1. UNCHANGED <<db, keystore, drawn, guard, op, staged>>
  BY DEF Read, ReadEnds
<1>2. SecretTypeOK'
  <2>1. reading' \in [Procs -> Values \cup {Silent}]
    BY DEF JournalInv, SecretTypeOK, Rows, Read, ReadEnds
  <2> QED
    BY <1>1, <2>1 DEF JournalInv, SecretTypeOK
<1>3. StoresInv' /\ WorkInv'
  BY <1>1 DEF JournalInv, StoresInv, NoOrphan, ReferencesAreLive, OnePlace, UsedAreDrawn,
              WorkInv, DeletesJournalled, FreshInv, TidyInv, StageInv
<1>4. LockInv' /\ ReadersFindIt'
  BY <1>1, SecretAssumption
     DEF JournalInv, SecretTypeOK, StoresInv, LockInv, ReadersFindIt, ReferencesAreLive, Read, ReadEnds
<1> QED
  BY <1>2, <1>3, <1>4 DEF JournalInv

\* Retiring values that nothing else refers to keeps the stores consistent: what is
\* retired is journalled, what is committed exists and leaves its journal.
LEMMA RetiringIsSafe ==
  ASSUME JournalInv, NEW ks \in SUBSET Keys, NEW values \in [Keys -> Refs \cup {Unset}],
         \A k \in ks : values[k] \in Refs => values[k] \in db.journal[k] \cap keystore,
         db' = RetiringRows(values, ks), UNCHANGED <<keystore, drawn>>
  PROVE  db' \in Rows /\ StoresInv'
<1>1. /\ db \in Rows /\ keystore \subseteq Refs
      /\ \A k \in Keys : db.setting[k] \in Values /\ db.journal[k] \subseteq Refs
  BY DEF JournalInv, SecretTypeOK, Rows
<1>2. \A k \in Keys : /\ db'.setting[k] = IF k \in ks THEN values[k] ELSE db.setting[k]
                      /\ db'.journal[k] = IF k \in ks
                           THEN (db.journal[k] \cup ({db.setting[k]} \cap Refs)) \ {values[k]}
                           ELSE db.journal[k]
  BY DEF RetiringRows, Native
<1>3. db' \in Rows
  BY <1>1 DEF RetiringRows, Native, Rows, Values
<1>4. NoOrphan'
  <2> SUFFICES ASSUME NEW r \in keystore
               PROVE  \E k \in Keys : db'.setting[k] = r \/ r \in db'.journal[k]
    BY DEF NoOrphan
  <2>1. PICK k \in Keys : db.setting[k] = r \/ r \in db.journal[k]
    BY DEF JournalInv, StoresInv, NoOrphan
  <2>2. db'.setting[k] = r \/ r \in db'.journal[k]
    BY <1>1, <1>2, <2>1
  <2> QED
    BY <2>2
<1>5. ReferencesAreLive'
  BY <1>2, SecretAssumption DEF JournalInv, StoresInv, ReferencesAreLive
<1>6. OnePlace'
  <2>1. /\ \A k, l \in Keys : db.setting[k] \in Refs /\ db.setting[k] = db.setting[l] => k = l
        /\ \A k, l \in Keys : db.setting[k] \notin db.journal[l]
        /\ \A k, l \in Keys : k # l => db.journal[k] \cap db.journal[l] = {}
    BY DEF JournalInv, StoresInv, OnePlace
  <2>2. \A k \in ks, l \in Keys : values[k] \in Refs =>
          values[k] # db.setting[l] /\ (k # l => values[k] \notin db.journal[l])
    BY <2>1
  <2>3. \A k \in ks : values[k] \in Refs \/ values[k] = Unset
    OBVIOUS
  <2>4. ASSUME NEW k \in Keys, NEW l \in Keys, db'.setting[k] \in Refs, db'.setting[k] = db'.setting[l]
        PROVE  k = l
    <3>1. CASE k \in ks /\ l \in ks
      <4>1. values[k] = values[l] /\ values[k] \in Refs
        BY <1>2, <2>4, <3>1
      <4> QED
        BY <2>2, <3>1, <4>1
    <3>2. CASE k \in ks /\ l \notin ks
      BY <1>2, <2>2, <2>4, <3>2
    <3>3. CASE k \notin ks /\ l \in ks
      BY <1>2, <2>2, <2>4, <3>3
    <3>4. CASE k \notin ks /\ l \notin ks
      BY <1>2, <2>1, <2>4, <3>4
    <3> QED
      BY <3>1, <3>2, <3>3, <3>4
  <2>5. ASSUME NEW k \in Keys, NEW l \in Keys
        PROVE  db'.setting[k] \notin db'.journal[l]
    <3>1. db'.journal[l] \subseteq db.journal[l] \cup ({db.setting[l]} \cap Refs)
      BY <1>2
    <3>2. CASE k \in ks /\ k = l
      BY <1>2, <3>2
    <3>3. CASE k \in ks /\ k # l
      BY <1>1, <2>2, <2>3, <1>2, <3>1, <3>3, SecretAssumption
    <3>4. CASE k \notin ks
      <4>1. db'.setting[k] = db.setting[k] /\ db.setting[k] \notin db.journal[l]
        BY <1>2, <2>1, <3>4
      <4>2. CASE l \in ks
        BY <2>1, <3>1, <3>4, <4>1, <4>2
      <4>3. CASE l \notin ks
        BY <1>2, <4>1, <4>3
      <4> QED
        BY <4>2, <4>3
    <3> QED
      BY <3>2, <3>3, <3>4
  <2>6. ASSUME NEW k \in Keys, NEW l \in Keys, k # l
        PROVE  db'.journal[k] \cap db'.journal[l] = {}
    <3>1. /\ db'.journal[k] \subseteq db.journal[k] \cup ({db.setting[k]} \cap Refs)
          /\ db'.journal[l] \subseteq db.journal[l] \cup ({db.setting[l]} \cap Refs)
      BY <1>2
    <3> QED
      BY <2>1, <2>6, <3>1
  <2> QED
    BY <2>4, <2>5, <2>6 DEF OnePlace
<1>7. UsedAreDrawn'
  BY <1>2 DEF JournalInv, StoresInv, UsedAreDrawn
<1> QED
  BY <1>3, <1>4, <1>5, <1>6, <1>7 DEF StoresInv

LEMMA BeginningsKeepJournalInv ==
  ASSUME JournalInv, NEW p \in Procs, NEW ks \in SUBSET Keys, BeginSave(p, ks) \/ Clear(p, ks) \/ Stage(p)
  PROVE  JournalInv'
<1> USE IdleIsTyped
<1>1. CASE BeginSave(p, ks)
  <2> DEFINE o == [Idle EXCEPT !.pc = "next", !.phase = "prepare", !.keys = ks, !.todo = ks]
  <2>1. o \in Op /\ o.pc = "next" /\ o.phase = "prepare" /\ o.keys = ks /\ o.todo = ks /\ o.fresh = NoFresh
    BY DEF Op, Idle, Pcs, Phases, NoFresh
  <2>2. Becomes(p, o) /\ op'[p] = o
    BY <1>1 DEF BeginSave, JournalInv, SecretTypeOK, Becomes
  <2> HIDE DEF o
  <2>3. DeletesJournalled(p)' /\ FreshInv(p)' /\ TidyInv(p)' /\ StageInv(p)'
    BY <2>1, <2>2 DEF DeletesJournalled, FreshInv, TidyInv, StageInv, NoFresh
  <2>4. StoresInv' /\ db' \in Rows /\ staged' \in [Procs -> Rows] /\ keystore' \subseteq Refs /\ drawn' \subseteq Refs
    BY <1>1 DEF BeginSave, JournalInv, SecretTypeOK, StoresInv, NoOrphan, ReferencesAreLive, OnePlace, UsedAreDrawn
  <2> QED
    BY <1>1, <2>1, <2>2, <2>3, <2>4, BeginStep DEF BeginSave
<1>2. CASE Clear(p, ks)
  <2> DEFINE o == [Idle EXCEPT !.pc = "next", !.phase = "tidy", !.keys = ks, !.todo = ks]
  <2>1. o \in Op /\ o.pc = "next" /\ o.phase = "tidy" /\ o.keys = ks /\ o.todo = ks
    BY DEF Op, Idle, Pcs, Phases, NoFresh
  <2>2. Becomes(p, o) /\ op'[p] = o
    BY <1>2 DEF Clear, JournalInv, SecretTypeOK, Becomes
  <2> HIDE DEF o
  <2>3. DeletesJournalled(p)' /\ FreshInv(p)' /\ TidyInv(p)' /\ StageInv(p)'
    BY <2>1, <2>2 DEF DeletesJournalled, FreshInv, TidyInv, StageInv
  <2>4. db' \in Rows /\ StoresInv'
    <3>1. NoFresh \in [Keys -> Refs \cup {Unset}] /\ \A k \in Keys : NoFresh[k] \notin Refs
      BY SecretAssumption DEF NoFresh
    <3> QED
      BY <1>2, <3>1, RetiringIsSafe DEF Clear
  <2>5. staged' \in [Procs -> Rows] /\ keystore' \subseteq Refs /\ drawn' \subseteq Refs
    BY <1>2 DEF Clear, JournalInv, SecretTypeOK
  <2> QED
    BY <1>2, <2>1, <2>2, <2>3, <2>4, <2>5, BeginStep DEF Clear
<1>3. CASE Stage(p)
  <2> DEFINE o == [Idle EXCEPT !.pc = "copy"]
  <2>1. o \in Op /\ o.pc = "copy" /\ o.phase = "none"
    BY DEF Op, Idle, Pcs, Phases, NoFresh
  <2>2. Becomes(p, o) /\ op'[p] = o
    BY <1>3 DEF Stage, JournalInv, SecretTypeOK, Becomes
  <2> HIDE DEF o
  <2>3. \A old \in OldRows : StagedRows(old) = db
    BY DEF StagedRows, KeptSettings, KeptJournals, JournalInv, SecretTypeOK, Rows
  <2>4. staged' \in [Procs -> Rows] /\ staged'[p] = db /\ db' = db
    BY <1>3, <2>3 DEF Stage, JournalInv, SecretTypeOK
  <2>5. DeletesJournalled(p)' /\ FreshInv(p)' /\ TidyInv(p)' /\ StageInv(p)'
    BY <2>1, <2>2, <2>4 DEF DeletesJournalled, FreshInv, TidyInv, StageInv
  <2>6. StoresInv' /\ db' \in Rows /\ keystore' \subseteq Refs /\ drawn' \subseteq Refs
    BY <1>3 DEF Stage, JournalInv, SecretTypeOK, StoresInv, NoOrphan, ReferencesAreLive, OnePlace, UsedAreDrawn
  <2> QED
    BY <1>3, <2>1, <2>2, <2>4, <2>5, <2>6, BeginStep DEF Stage
<1> QED
  BY <1>1, <1>2, <1>3

\* The steps that change nothing but what the process has in hand.
LEMMA BookkeepingKeepsJournalInv ==
  ASSUME JournalInv, NEW p \in Procs, NextKey(p) \/ KeyIsTidy(p)
  PROVE  JournalInv'
<1>1. op[p] \in Op /\ op[p].pc \in {"next", "clean"}
  BY DEF JournalInv, SecretTypeOK, NextKey, KeyIsTidy
<1>2. DeletesJournalled(p) /\ FreshInv(p) /\ TidyInv(p) /\ StageInv(p)
  BY DEF JournalInv, WorkInv
<1>3. /\ StoresInv' /\ db' \in Rows /\ staged' \in [Procs -> Rows]
      /\ keystore' \subseteq Refs /\ drawn' \subseteq Refs
  BY DEF NextKey, KeyIsTidy, JournalInv, SecretTypeOK, StoresInv, NoOrphan, ReferencesAreLive,
         OnePlace, UsedAreDrawn
<1>4. CASE NextKey(p)
  <2>1. PICK k \in op[p].todo :
          Becomes(p, [op[p] EXCEPT !.pc = "clean", !.key = k, !.pending = db.journal[k]])
    BY <1>4 DEF NextKey
  <2> DEFINE o == [op[p] EXCEPT !.pc = "clean", !.key = k, !.pending = db.journal[k]]
  <2>2. k \in Keys /\ db.journal[k] \subseteq Refs
    BY <1>1 DEF JournalInv, SecretTypeOK, Rows, Op
  <2>3. /\ o \in Op /\ o.pc = "clean" /\ o.key = k /\ o.pending = db.journal[k]
        /\ o.phase = op[p].phase /\ o.keys = op[p].keys /\ o.todo = op[p].todo /\ o.fresh = op[p].fresh
    BY <1>1, <2>2 DEF Op, Pcs
  <2>4. Becomes(p, o) /\ op'[p] = o
    BY <2>1 DEF JournalInv, SecretTypeOK, Becomes
  <2> HIDE DEF o
  <2>5. DeletesJournalled(p)' /\ FreshInv(p)' /\ TidyInv(p)' /\ StageInv(p)'
    BY <1>2, <1>4, <2>2, <2>3, <2>4 DEF NextKey, DeletesJournalled, FreshInv, TidyInv, StageInv
  <2> QED
    BY <1>1, <1>3, <1>4, <2>3, <2>4, <2>5, WorkStep DEF NextKey
<1>5. CASE KeyIsTidy(p)
  <2> DEFINE o == [op[p] EXCEPT !.pc = "next", !.todo = @ \ {op[p].key}]
  <2>1. /\ o \in Op /\ o.pc = "next" /\ o.phase = op[p].phase /\ o.keys = op[p].keys
        /\ o.todo = op[p].todo \ {op[p].key}
    BY <1>1 DEF Op, Pcs
  <2>2. Becomes(p, o) /\ op'[p] = o
    BY <1>5 DEF KeyIsTidy, JournalInv, SecretTypeOK, Becomes
  <2> HIDE DEF o
  <2>3. db.journal[op[p].key] = {}
    <3>1. db.setting[op[p].key] \notin db.journal[op[p].key]
      BY <1>2, <1>5 DEF KeyIsTidy, DeletesJournalled, JournalInv, StoresInv, OnePlace
    <3> QED
      BY <1>2, <1>5, <3>1 DEF KeyIsTidy, DeletesJournalled, Obsolete
  <2>4. DeletesJournalled(p)' /\ FreshInv(p)' /\ TidyInv(p)' /\ StageInv(p)'
    BY <1>2, <1>5, <2>1, <2>2, <2>3 DEF KeyIsTidy, DeletesJournalled, FreshInv, TidyInv, StageInv
  <2> QED
    BY <1>1, <1>3, <1>5, <2>1, <2>2, <2>4, WorkStep DEF KeyIsTidy
<1> QED
  BY <1>4, <1>5

\* A failed step: what was prepared is rolled back, or the operation ends.
LEMMA AbortStep ==
  ASSUME JournalInv, NEW p \in Procs, op[p].pc # "idle", Abort(p),
         UNCHANGED <<db, drawn, reading, staged>>, keystore' \subseteq Refs, StoresInv'
  PROVE  JournalInv'
<1>1. op[p] \in Op /\ FreshInv(p)
  BY DEF JournalInv, SecretTypeOK, WorkInv
<1>2. db' \in Rows /\ staged' \in [Procs -> Rows] /\ drawn' \subseteq Refs
  BY DEF JournalInv, SecretTypeOK
<1>3. CASE op[p].phase = "prepare"
  <2> DEFINE o == [op[p] EXCEPT !.pc = "next", !.phase = "undo",
                                !.todo = {k \in Keys : op[p].fresh[k] # Unset}]
  <2>1. /\ o \in Op /\ o.pc = "next" /\ o.phase = "undo" /\ o.fresh = op[p].fresh
        /\ o.todo = {k \in Keys : op[p].fresh[k] # Unset}
    BY <1>1 DEF Op, Pcs, Phases
  <2>2. Becomes(p, o) /\ op'[p] = o /\ guard' = guard
    BY <1>3 DEF Abort, JournalInv, SecretTypeOK, Becomes
  <2> HIDE DEF o
  <2>3. \A k \in o.todo : o.fresh[k] \in db.journal[k]
    BY <1>1, <1>3, <2>1 DEF FreshInv
  <2>4. DeletesJournalled(p)' /\ FreshInv(p)' /\ TidyInv(p)' /\ StageInv(p)'
    BY <2>1, <2>2, <2>3 DEF DeletesJournalled, FreshInv, TidyInv, StageInv
  <2> QED
    BY <1>2, <2>1, <2>2, <2>4, WorkStep
<1>4. CASE op[p].phase # "prepare"
  BY <1>2, <1>4, EndStep DEF Abort
<1> QED
  BY <1>3, <1>4

LEMMA DeletionsKeepJournalInv ==
  ASSUME JournalInv, NEW p \in Procs, DeleteOne(p) \/ UndoOne(p) \/ KeystoreFails(p)
  PROVE  JournalInv'
<1>1. op[p] \in Op /\ op[p].pc # "idle"
  BY DEF JournalInv, SecretTypeOK, DeleteOne, UndoOne, KeystoreFails
<1>2. DeletesJournalled(p) /\ FreshInv(p) /\ TidyInv(p) /\ StageInv(p)
  BY DEF JournalInv, WorkInv
<1>3. /\ db' = db /\ db \in Rows /\ staged' = staged /\ staged \in [Procs -> Rows]
      /\ drawn' = drawn /\ drawn \subseteq Refs /\ reading' = reading
  BY DEF DeleteOne, UndoOne, KeystoreFails, JournalInv, SecretTypeOK
<1>4. \A k, l \in Keys : k # l => db.journal[k] \cap db.journal[l] = {}
  BY DEF JournalInv, StoresInv, OnePlace
<1>5. \A k \in Keys : db.journal[k] \subseteq Refs
  BY <1>3 DEF Rows
<1>6. CASE DeleteOne(p)
  <2>1. PICK r \in Obsolete(p) : keystore' = keystore \ {r} /\ Becomes(p, [op[p] EXCEPT !.pc = "forget", !.ref = r])
    BY <1>6 DEF DeleteOne
  <2> DEFINE o == [op[p] EXCEPT !.pc = "forget", !.ref = r]
  <2>2. /\ op[p].pc = "clean" /\ op[p].phase \in {"prepare", "tidy"} /\ op[p].key \in Keys
        /\ op[p].key \in op[p].todo /\ op[p].pending = db.journal[op[p].key]
    BY <1>2, <1>6 DEF DeleteOne, DeletesJournalled
  <2>3. r \in db.journal[op[p].key] /\ r \in Refs
    BY <1>5, <2>2 DEF Obsolete
  <2>4. /\ o \in Op /\ o.pc = "forget" /\ o.ref = r /\ o.key = op[p].key /\ o.pending = op[p].pending
        /\ o.phase = op[p].phase /\ o.keys = op[p].keys /\ o.todo = op[p].todo /\ o.fresh = op[p].fresh
    BY <1>1, <2>3 DEF Op, Pcs
  <2>5. Becomes(p, o) /\ op'[p] = o /\ guard' = guard
    BY <1>6, <2>1 DEF DeleteOne, JournalInv, SecretTypeOK, Becomes
  <2> HIDE DEF o
  <2>6. StoresInv' /\ keystore' \subseteq Refs
    BY <1>3, <2>1, <2>2, <2>3, DeletionIsSafe
  <2>7. DeletesJournalled(p)' /\ TidyInv(p)' /\ StageInv(p)'
    BY <1>2, <1>3, <2>1, <2>2, <2>3, <2>4, <2>5 DEF DeletesJournalled, TidyInv, StageInv
  <2>8. FreshInv(p)'
    BY <1>2, <1>3, <1>4, <2>1, <2>2, <2>3, <2>4, <2>5 DEF FreshInv, Op
  <2> QED
    BY <1>1, <1>3, <2>4, <2>5, <2>6, <2>7, <2>8, WorkStep
<1>7. CASE UndoOne(p)
  <2>1. PICK k \in op[p].todo :
          \/ /\ keystore' = keystore \ {op[p].fresh[k]}
             /\ Becomes(p, [op[p] EXCEPT !.pc = "forget", !.key = k, !.todo = @ \ {k},
                                         !.ref = op[p].fresh[k]])
          \/ /\ keystore' \in {keystore, keystore \ {op[p].fresh[k]}}
             /\ Becomes(p, [op[p] EXCEPT !.todo = @ \ {k}])
    BY <1>7 DEF UndoOne
  <2>2. /\ op[p].pc = "next" /\ op[p].phase = "undo" /\ guard' = guard /\ k \in Keys
        /\ op[p].fresh[k] \in db.journal[k] /\ op[p].fresh[k] \in Refs
    BY <1>1, <1>2, <1>5, <1>7 DEF UndoOne, FreshInv, Op
  <2>3. StoresInv' /\ keystore' \subseteq Refs
    BY <1>3, <2>1, <2>2, DeletionIsSafe
  <2> DEFINE o1 == [op[p] EXCEPT !.pc = "forget", !.key = k, !.todo = @ \ {k}, !.ref = op[p].fresh[k]]
             o2 == [op[p] EXCEPT !.todo = @ \ {k}]
  <2>4. /\ o1 \in Op /\ o1.pc = "forget" /\ o1.key = k /\ o1.ref = op[p].fresh[k]
        /\ o1.todo = op[p].todo \ {k} /\ o1.phase = "undo" /\ o1.fresh = op[p].fresh
        /\ o2 \in Op /\ o2.pc = "next" /\ o2.todo = op[p].todo \ {k}
        /\ o2.phase = "undo" /\ o2.fresh = op[p].fresh
    BY <1>1, <2>2 DEF Op, Pcs
  <2>5. \/ Becomes(p, o1) /\ op'[p] = o1 /\ keystore' = keystore \ {op[p].fresh[k]}
        \/ Becomes(p, o2) /\ op'[p] = o2
    BY <2>1 DEF JournalInv, SecretTypeOK, Becomes
  <2> HIDE DEF o1, o2
  <2>6. DeletesJournalled(p)' /\ FreshInv(p)' /\ TidyInv(p)' /\ StageInv(p)'
    BY <1>2, <1>3, <2>2, <2>4, <2>5 DEF DeletesJournalled, FreshInv, TidyInv, StageInv
  <2> QED
    BY <1>1, <1>3, <2>2, <2>3, <2>4, <2>5, <2>6, WorkStep
<1>8. CASE KeystoreFails(p)
  <2>1. CASE op[p].pc = "store" /\ keystore' \in {keystore, keystore \cup {op[p].ref}}
    <3>1. op[p].key \in Keys /\ op[p].ref \in db.journal[op[p].key]
      BY <1>2, <2>1 DEF DeletesJournalled
    <3>2. StoresInv' /\ keystore' \subseteq Refs
      BY <1>3, <1>5, <2>1, <3>1
         DEF JournalInv, SecretTypeOK, StoresInv, NoOrphan, ReferencesAreLive, OnePlace, UsedAreDrawn
    <3> QED
      BY <1>1, <1>3, <1>8, <3>2, AbortStep DEF KeystoreFails
  <2>2. CASE op[p].pc = "clean" /\ \E r \in Obsolete(p) : keystore' \in {keystore, keystore \ {r}}
    <3>1. PICK r \in Obsolete(p) : keystore' \in {keystore, keystore \ {r}}
      BY <2>2
    <3>2. op[p].key \in Keys /\ r \in db.journal[op[p].key]
      BY <1>2, <2>2 DEF DeletesJournalled, Obsolete
    <3>3. StoresInv' /\ keystore' \subseteq Refs
      BY <1>3, <3>1, <3>2, DeletionIsSafe
    <3> QED
      BY <1>1, <1>3, <1>8, <3>3, AbortStep DEF KeystoreFails
  <2> QED
    BY <1>8, <2>1, <2>2 DEF KeystoreFails
<1> QED
  BY <1>6, <1>7, <1>8

\* Entering a drawn or deleted reference in, or taking it out of, the journal.
LEMMA JournallingKeepsJournalInv ==
  ASSUME JournalInv, NEW p \in Procs, Forget(p) \/ Intend(p) \/ StoreNative(p)
  PROVE  JournalInv'
<1>1. op[p] \in Op /\ op[p].pc # "idle"
  BY DEF JournalInv, SecretTypeOK, Forget, Intend, StoreNative
<1>2. DeletesJournalled(p) /\ FreshInv(p) /\ TidyInv(p) /\ StageInv(p)
  BY DEF JournalInv, WorkInv
<1>3. /\ db \in Rows /\ staged' = staged /\ staged \in [Procs -> Rows] /\ keystore \subseteq Refs
      /\ drawn \subseteq Refs /\ reading' = reading /\ guard' = guard
  BY DEF Forget, Intend, StoreNative, JournalInv, SecretTypeOK
<1>4. \A k, l \in Keys : k # l => db.journal[k] \cap db.journal[l] = {}
  BY DEF JournalInv, StoresInv, OnePlace
<1>5. /\ db.setting \in [Keys -> Values] /\ db.journal \in [Keys -> SUBSET Refs]
      /\ \A k \in Keys : db.journal[k] \subseteq Refs
  BY <1>3 DEF Rows
<1>6. op[p].key \in Keys
  BY <1>2 DEF Forget, Intend, StoreNative, DeletesJournalled
<1> DEFINE key == op[p].key
           ref == op[p].ref
<1>7. CASE Forget(p)
  <2> DEFINE o == [op[p] EXCEPT !.pending = @ \ {ref},
                                !.pc = IF op[p].phase = "undo" THEN "next" ELSE "clean"]
  <2>1. /\ op[p].pc = "forget" /\ ref \in db.journal[key] /\ ref \notin keystore
        /\ op[p].phase \in {"prepare", "tidy", "undo"}
        /\ op[p].phase # "undo" <=> key \in op[p].todo
        /\ op[p].phase # "undo" => op[p].pending = db.journal[key]
    BY <1>2, <1>7 DEF Forget, DeletesJournalled
  <2>2. /\ o \in Op /\ o.pending = op[p].pending \ {ref} /\ o.key = key /\ o.phase = op[p].phase
        /\ o.keys = op[p].keys /\ o.todo = op[p].todo /\ o.fresh = op[p].fresh
        /\ o.pc = IF op[p].phase = "undo" THEN "next" ELSE "clean"
    BY <1>1 DEF Op, Pcs
  <2>3. Becomes(p, o) /\ op'[p] = o
    BY <1>7 DEF Forget, JournalInv, SecretTypeOK, Becomes
  <2> HIDE DEF o
  <2>4. /\ db' \in Rows /\ db'.setting = db.setting /\ db'.journal[key] = db.journal[key] \ {ref}
        /\ \A k \in Keys : k # key => db'.journal[k] = db.journal[k]
        /\ keystore' = keystore /\ drawn' = drawn
    BY <1>3, <1>5, <1>6, <1>7 DEF Forget, Rows
  <2>5. \A k \in Keys : db'.journal[k] = db.journal[k] \ {ref}
    BY <1>4, <1>6, <2>1, <2>4
  <2>6. StoresInv'
    <3>1. NoOrphan'
      BY <2>1, <2>4, <2>5 DEF JournalInv, StoresInv, NoOrphan
    <3>2. ReferencesAreLive' /\ UsedAreDrawn'
      BY <2>4, <2>5 DEF JournalInv, StoresInv, ReferencesAreLive, UsedAreDrawn
    <3>3. OnePlace'
      BY <2>4, <2>5 DEF JournalInv, StoresInv, OnePlace
    <3> QED
      BY <3>1, <3>2, <3>3 DEF StoresInv
  <2>7. DeletesJournalled(p)' /\ TidyInv(p)' /\ StageInv(p)'
    <3>1. DeletesJournalled(p)'
      <4>1. CASE op[p].phase = "undo"
        BY <2>2, <2>3, <4>1 DEF DeletesJournalled
      <4>2. CASE op[p].phase # "undo"
        BY <1>6, <2>1, <2>2, <2>3, <2>4, <4>2 DEF DeletesJournalled
      <4> QED
        BY <4>1, <4>2
    <3>2. TidyInv(p)'
      BY <1>2, <2>2, <2>3, <2>5, <1>1 DEF TidyInv, Op
    <3>3. StageInv(p)'
      BY <2>2, <2>3 DEF StageInv
    <3> QED
      BY <3>1, <3>2, <3>3
  <2>8. FreshInv(p)'
    BY <1>2, <1>4, <1>6, <2>1, <2>2, <2>3, <2>4, <2>5 DEF FreshInv, Op
  <2> QED
    BY <1>1, <1>3, <2>2, <2>3, <2>4, <2>6, <2>7, <2>8, WorkStep
<1>8. CASE Intend(p)
  <2>1. PICK r \in Refs \ drawn :
          /\ drawn' = drawn \cup {r}
          /\ db' = [db EXCEPT !.journal[op[p].key] = @ \cup {r}]
          /\ Becomes(p, [op[p] EXCEPT !.pc = "store", !.ref = r])
    BY <1>8 DEF Intend
  <2> DEFINE o == [op[p] EXCEPT !.pc = "store", !.ref = r]
  <2>2. /\ op[p].pc = "clean" /\ op[p].phase = "prepare" /\ key \in op[p].todo /\ keystore' = keystore
    BY <1>2, <1>8 DEF Intend, DeletesJournalled
  <2>3. /\ o \in Op /\ o.pc = "store" /\ o.ref = r /\ o.key = key /\ o.phase = op[p].phase
        /\ o.keys = op[p].keys /\ o.todo = op[p].todo /\ o.fresh = op[p].fresh
    BY <1>1, <2>1 DEF Op, Pcs
  <2>4. Becomes(p, o) /\ op'[p] = o
    BY <2>1 DEF JournalInv, SecretTypeOK, Becomes
  <2> HIDE DEF o
  <2>5. /\ db' \in Rows /\ db'.setting = db.setting /\ db'.journal[key] = db.journal[key] \cup {r}
        /\ \A k \in Keys : k # key => db'.journal[k] = db.journal[k]
    BY <1>3, <1>5, <1>6, <2>1 DEF Rows
  <2>6. \A k \in Keys : db.setting[k] # r /\ r \notin db.journal[k]
    BY <2>1 DEF JournalInv, StoresInv, UsedAreDrawn
  <2>7. NoOrphan' /\ ReferencesAreLive' /\ UsedAreDrawn'
    BY <1>6, <2>1, <2>2, <2>5 DEF JournalInv, StoresInv, NoOrphan, ReferencesAreLive, UsedAreDrawn
  <2>8. OnePlace'
    BY <1>6, <2>5, <2>6 DEF JournalInv, StoresInv, OnePlace
  <2>9. DeletesJournalled(p)' /\ FreshInv(p)' /\ TidyInv(p)' /\ StageInv(p)'
    BY <1>2, <1>6, <2>2, <2>3, <2>4, <2>5 DEF DeletesJournalled, FreshInv, TidyInv, StageInv, Op
  <2> QED
    BY <1>1, <1>3, <2>1, <2>2, <2>3, <2>4, <2>5, <2>7, <2>8, <2>9, WorkStep DEF StoresInv
<1>9. CASE StoreNative(p)
  <2> DEFINE o == [op[p] EXCEPT !.pc = "next", !.todo = @ \ {key}, !.fresh[key] = ref]
  <2>1. /\ op[p].pc = "store" /\ op[p].phase = "prepare" /\ key \in op[p].todo
        /\ ref \in db.journal[key] /\ ref \in Refs
        /\ db' = db /\ drawn' = drawn /\ keystore' = keystore \cup {ref}
    BY <1>2, <1>5, <1>6, <1>9 DEF StoreNative, DeletesJournalled
  <2>2. /\ o \in Op /\ o.pc = "next" /\ o.phase = "prepare" /\ o.keys = op[p].keys
        /\ o.todo = op[p].todo \ {key} /\ o.fresh[key] = ref
        /\ \A k \in Keys : k # key => o.fresh[k] = op[p].fresh[k]
    BY <1>1, <1>6, <2>1 DEF Op, Pcs
  <2>3. Becomes(p, o) /\ op'[p] = o
    BY <1>9 DEF StoreNative, JournalInv, SecretTypeOK, Becomes
  <2> HIDE DEF o
  <2>4. StoresInv'
    BY <1>6, <2>1 DEF JournalInv, StoresInv, NoOrphan, ReferencesAreLive, OnePlace, UsedAreDrawn
  <2>5. FreshInv(p)'
    BY <1>1, <1>2, <2>1, <2>2, <2>3, SecretAssumption DEF FreshInv, Op
  <2>6. DeletesJournalled(p)' /\ TidyInv(p)' /\ StageInv(p)'
    BY <2>2, <2>3 DEF DeletesJournalled, TidyInv, StageInv
  <2> QED
    BY <1>1, <1>3, <2>1, <2>2, <2>3, <2>4, <2>5, <2>6, WorkStep
<1> QED
  BY <1>7, <1>8, <1>9

\* The commit moves the fresh references from the journals to the settings.
LEMMA CommitKeepsJournalInv ==
  ASSUME JournalInv, NEW p \in Procs, Commit(p)
  PROVE  JournalInv'
<1>1. op[p] \in Op /\ FreshInv(p) /\ DeletesJournalled(p) /\ StageInv(p)
  BY DEF JournalInv, SecretTypeOK, WorkInv
<1> DEFINE o == [op[p] EXCEPT !.phase = "tidy", !.todo = op[p].keys]
<1>2. /\ o \in Op /\ o.pc = "next" /\ o.phase = "tidy" /\ o.keys = op[p].keys /\ o.todo = op[p].keys
  BY <1>1 DEF Op, Phases, Commit
<1>3. Becomes(p, o) /\ op'[p] = o
  BY DEF Commit, JournalInv, SecretTypeOK, Becomes
<1> HIDE DEF o
<1>4. db' \in Rows /\ StoresInv'
  <2>1. op[p].keys \in SUBSET Keys /\ op[p].fresh \in [Keys -> Refs \cup {Unset}]
    BY <1>1 DEF Op
  <2>2. \A k \in op[p].keys : op[p].fresh[k] \in db.journal[k] \cap keystore
    BY <1>1 DEF Commit, FreshInv
  <2> QED
    BY <2>1, <2>2, RetiringIsSafe DEF Commit
<1>5. DeletesJournalled(p)' /\ FreshInv(p)' /\ TidyInv(p)' /\ StageInv(p)'
  BY <1>2, <1>3 DEF DeletesJournalled, FreshInv, TidyInv, StageInv
<1>6. /\ staged' \in [Procs -> Rows] /\ keystore' \subseteq Refs /\ drawn' \subseteq Refs
      /\ op[p].pc # "idle" /\ UNCHANGED <<guard, reading>>
  BY DEF Commit, JournalInv, SecretTypeOK
<1> QED
  BY <1>2, <1>3, <1>4, <1>5, <1>6, WorkStep

LEMMA DatabaseFailureKeepsJournalInv ==
  ASSUME JournalInv, NEW p \in Procs, DatabaseFails(p)
  PROVE  JournalInv'
<1>1. /\ op[p] \in Op /\ op[p].pc # "idle"
      /\ DeletesJournalled(p) /\ FreshInv(p) /\ TidyInv(p) /\ StageInv(p)
  BY DEF DatabaseFails, JournalInv, SecretTypeOK, WorkInv
<1>2. /\ UNCHANGED <<db, keystore, drawn, reading, staged>> /\ StoresInv'
      /\ db' \in Rows /\ staged' \in [Procs -> Rows] /\ keystore' \subseteq Refs /\ drawn' \subseteq Refs
  BY DEF DatabaseFails, JournalInv, SecretTypeOK, StoresInv, NoOrphan, ReferencesAreLive, OnePlace,
         UsedAreDrawn
<1>3. CASE Abort(p)
  BY <1>1, <1>2, <1>3, AbortStep
<1>4. CASE op[p].phase = "undo" /\ Becomes(p, [op[p] EXCEPT !.pc = "next"]) /\ UNCHANGED guard
  <2> DEFINE o == [op[p] EXCEPT !.pc = "next"]
  <2>1. o \in Op /\ o.pc = "next" /\ o.phase = "undo" /\ o.todo = op[p].todo /\ o.fresh = op[p].fresh
    BY <1>1, <1>4 DEF Op, Pcs
  <2>2. Becomes(p, o) /\ op'[p] = o
    BY <1>4 DEF JournalInv, SecretTypeOK, Becomes
  <2> HIDE DEF o
  <2>3. DeletesJournalled(p)' /\ FreshInv(p)' /\ TidyInv(p)' /\ StageInv(p)'
    BY <1>1, <1>2, <1>4, <2>1, <2>2 DEF DeletesJournalled, FreshInv, TidyInv, StageInv
  <2> QED
    BY <1>1, <1>2, <1>4, <2>1, <2>2, <2>3, WorkStep
<1> QED
  BY <1>3, <1>4 DEF DatabaseFails

LEMMA EndingsKeepJournalInv ==
  ASSUME JournalInv, NEW p \in Procs, Finish(p) \/ CopyBack(p) \/ Crash(p)
  PROVE  JournalInv'
<1>1. /\ db \in Rows /\ staged \in [Procs -> Rows] /\ keystore \subseteq Refs /\ drawn \subseteq Refs
      /\ op \in [Procs -> Op]
  BY DEF JournalInv, SecretTypeOK
<1>2. CASE Finish(p)
  <2>1. StoresInv'
    BY <1>2 DEF Finish, JournalInv, StoresInv, NoOrphan, ReferencesAreLive, OnePlace, UsedAreDrawn
  <2> QED
    BY <1>1, <1>2, <2>1, EndStep DEF Finish
<1>3. CASE CopyBack(p)
  <2>1. db' = db /\ keystore' = keystore /\ drawn' = drawn
    BY <1>3 DEF CopyBack, JournalInv, WorkInv, StageInv
  <2>2. StoresInv'
    BY <2>1 DEF JournalInv, StoresInv, NoOrphan, ReferencesAreLive, OnePlace, UsedAreDrawn
  <2>3. staged' \in [Procs -> Rows]
    BY <1>1, <1>3, IdleIsTyped DEF CopyBack
  <2> QED
    BY <1>1, <1>3, <2>1, <2>2, <2>3, EndStep DEF CopyBack
<1>4. CASE Crash(p)
  <2>1. db' = db /\ keystore' = keystore /\ drawn' = drawn
    BY <1>4 DEF Crash
  <2>2. StoresInv'
    BY <2>1 DEF JournalInv, StoresInv, NoOrphan, ReferencesAreLive, OnePlace, UsedAreDrawn
  <2>3. staged' \in [Procs -> Rows]
    BY <1>1, <1>4, IdleIsTyped DEF Crash
  <2>4. CASE op[p].pc # "idle"
    <3>1. Release(p) /\ reading' = reading
      BY <1>4, <2>4, AloneAtWork DEF Crash, Release, JournalInv, SecretTypeOK
    <3> QED
      BY <1>1, <2>1, <2>2, <2>3, <2>4, <3>1, EndStep
  <2>5. CASE op[p].pc = "idle"
    <3>1. op' = op
      BY <1>1, <1>4, <2>5 DEF Crash, Becomes, JournalInv, WorkInv, StageInv
    <3>2. guard = Nobody /\ guard' = Nobody
      BY <1>4, <2>5 DEF Crash, JournalInv, LockInv
    <3>3. /\ reading' \in [Procs -> Values \cup {Silent}]
          /\ \A q \in Procs : reading'[q] = reading[q] \/ reading'[q] = Silent
      BY <1>4 DEF Crash, JournalInv, SecretTypeOK
    <3>4. \A q \in Procs : op[q].pc = "idle"
      BY <3>2, SecretAssumption DEF JournalInv, LockInv
    <3>5. SecretTypeOK'
      BY <1>1, <2>1, <2>3, <3>1, <3>2, <3>3 DEF SecretTypeOK
    <3>6. LockInv' /\ ReadersFindIt'
      BY <2>1, <3>1, <3>2, <3>3, <3>4, SecretAssumption DEF JournalInv, LockInv, ReadersFindIt
    <3>7. WorkInv'
      BY <2>1, <3>1, <3>4
         DEF JournalInv, WorkInv, DeletesJournalled, FreshInv, TidyInv, StageInv
    <3> QED
      BY <2>2, <3>5, <3>6, <3>7 DEF JournalInv
  <2> QED
    BY <2>4, <2>5
<1> QED
  BY <1>2, <1>3, <1>4

----------------------------------------------------------------------------
(* Theorems.                                                                *)

\* JournalInv holds in every reachable state (update_provider_configuration,
\* clear_provider_credentials, restore_from and their failures).
THEOREM JournalInvariant == Spec => []JournalInv
<1>1. Init => JournalInv
  <2> SUFFICES ASSUME Init PROVE JournalInv
    OBVIOUS
  <2>1. db \in Rows /\ \A k \in Keys : db.setting[k] \notin Refs /\ db.journal[k] = {}
    BY SecretAssumption DEF Init, Rows, Values
  <2>2. SecretTypeOK
    BY <2>1, IdleIsTyped DEF Init, SecretTypeOK
  <2>3. LockInv /\ ReadersFindIt /\ WorkInv
    BY IdleIsTyped, SecretAssumption
       DEF Init, LockInv, ReadersFindIt, WorkInv, DeletesJournalled, FreshInv, TidyInv, StageInv
  <2>4. StoresInv
    BY <2>1 DEF Init, StoresInv, NoOrphan, ReferencesAreLive, OnePlace, UsedAreDrawn
  <2> QED
    BY <2>2, <2>3, <2>4 DEF JournalInv
<1>2. JournalInv /\ [Next]_vars => JournalInv'
  <2> SUFFICES ASSUME JournalInv, [Next]_vars PROVE JournalInv'
    OBVIOUS
  <2>1. CASE Next
    <3>1. PICK p \in Procs :
            \/ Read(p) \/ ReadEnds(p)
            \/ \E ks \in SUBSET Keys \ {{}} : BeginSave(p, ks) \/ Clear(p, ks)
            \/ Stage(p) \/ Proceeds(p) \/ Crash(p)
      BY <2>1 DEF Next
    <3> QED
      BY <3>1, ReadersKeepJournalInv, BeginningsKeepJournalInv, BookkeepingKeepsJournalInv,
         DeletionsKeepJournalInv, JournallingKeepsJournalInv, CommitKeepsJournalInv,
         DatabaseFailureKeepsJournalInv, EndingsKeepJournalInv DEF Proceeds
  <2>2. CASE UNCHANGED vars
    BY <2>2 DEF vars, JournalInv, SecretTypeOK, LockInv, StoresInv, NoOrphan, ReferencesAreLive,
                OnePlace, UsedAreDrawn, ReadersFindIt, WorkInv, DeletesJournalled, FreshInv,
                TidyInv, StageInv
  <2> QED
    BY <2>1, <2>2
<1> QED
  BY <1>1, <1>2, PTL DEF Spec

\* Type correctness of the two stores and of the operations in progress.
THEOREM SecretTypes == Spec => []SecretTypeOK
<1>1. JournalInv => SecretTypeOK
  BY DEF JournalInv
<1> QED
  BY <1>1, JournalInvariant, PTL

\* Whatever fails and whenever a process dies, no credential is lost in the key store
\* and no stored reference dangles.
THEOREM StoresAgree == Spec => []CredentialsAgree
<1>1. JournalInv => CredentialsAgree
  BY DEF JournalInv, StoresInv, CredentialsAgree
<1> QED
  BY <1>1, JournalInvariant, PTL

\* with_provider_settings and read_kick_token: a credential is not deleted between the
\* look at its reference and its use.
THEOREM ReadersAreServed == Spec => []ReadersFindIt
<1>1. JournalInv => ReadersFindIt
  BY DEF JournalInv
<1> QED
  BY <1>1, JournalInvariant, PTL

\* A save or a removal that succeeds has worked off the journals of its keys.
THEOREM SuccessLeavesNothing == Spec => []SuccessIsClean
<1>1. JournalInv => SuccessIsClean
  BY DEF JournalInv, WorkInv, TidyInv, SuccessIsClean
<1> QED
  BY <1>1, JournalInvariant, PTL

\* restore_from: no step of a restore, nor of anyone else while it runs, changes a
\* credential's row.
THEOREM RestoreChangesNoCredential == Spec => RestoreKeepsCredentials
<1>1. JournalInv /\ [Next]_vars => [\A p \in Procs : op[p].pc = "copy" => UNCHANGED db]_vars
  <2> SUFFICES ASSUME JournalInv, Next, NEW p \in Procs, op[p].pc = "copy"
               PROVE  db' = db
    BY DEF vars
  <2>1. staged[p] = db /\ guard = p /\ \A q \in Procs : q # p => op[q] = Idle
    BY AloneAtWork DEF JournalInv, WorkInv, StageInv
  <2>2. PICK q \in Procs :
          \/ Read(q) \/ ReadEnds(q)
          \/ \E ks \in SUBSET Keys \ {{}} : BeginSave(q, ks) \/ Clear(q, ks)
          \/ Stage(q) \/ Proceeds(q) \/ Crash(q)
    BY DEF Next
  <2>3. ~CanLock(q)
    BY <2>1, SecretAssumption DEF CanLock
  <2>4. CASE Proceeds(q)
    BY <2>1, <2>4, IdleIsTyped
       DEF Proceeds, NextKey, DeleteOne, Forget, Intend, StoreNative, Commit, KeyIsTidy, UndoOne,
           Finish, CopyBack, KeystoreFails, DatabaseFails
  <2> QED
    BY <2>2, <2>3, <2>4 DEF Read, ReadEnds, BeginSave, Clear, Stage, Crash
<1> QED
  BY <1>1, JournalInvariant, PTL DEF Spec, RestoreKeepsCredentials
=============================================================================
