--------------------------- MODULE SecretJournal ---------------------------
(***************************************************************************)
(* Provider credentials on Linux and macOS (app_core.rs, store.rs and      *)
(* security.rs).  A credential lives in the native key store under a fresh *)
(* reference; the settings table holds the reference, and beside it, for   *)
(* each key, a journal of references still to be deleted.  The two stores  *)
(* share no transaction: a save or a removal goes back and forth between   *)
(* them, and the process may fail or die after every step.                 *)
(*                                                                         *)
(* The owner of the runtime and observers (the CLI) do this concurrently.  *)
(* Writers and restores hold an exclusive lock on a file, readers of a     *)
(* credential a shared one; a writer that does not get it is refused.      *)
(* On Windows the value itself is encrypted and none of this is needed.    *)
(***************************************************************************)
CONSTANTS
  Keys,   \* the settings that hold credentials
  Procs,  \* processes that have the database open
  Refs,   \* bound: the references (UUIDs) ever drawn
  OldRows, \* what the backups hold of the credentials' rows
  Unset,  \* no credential (also: cleared)
  Plain,  \* a value that needs no key store: plaintext of an old version
  Nobody, \* not a process
  Silent  \* not reading

ASSUME SecretAssumption ==
  /\ Unset \notin Refs /\ Plain \notin Refs /\ Silent \notin Refs /\ Unset # Plain
  /\ Silent \notin {Unset, Plain}
  /\ Nobody \notin Procs /\ Unset \notin Keys
  /\ OldRows \subseteq [setting : [Keys -> Refs \cup {Unset, Plain}], journal : [Keys -> SUBSET Refs]]

VARIABLES
  db,       \* the rows of the settings table: [setting, journal], each per key
  keystore, \* the credentials in the native key store
  drawn,    \* references drawn so far
  guard,    \* who holds the lock file exclusively
  reading,  \* [Procs -> the value a reader with a shared lock looks up, or Silent]
  op,       \* [Procs -> the save, removal or restore in progress]
  staged    \* [Procs -> the staging database of a restore]

vars == <<db, keystore, drawn, guard, reading, op, staged>>

Values == Refs \cup {Unset, Plain}
Rows   == [setting : [Keys -> Values], journal : [Keys -> SUBSET Refs]]
Pcs    == {"idle", "next", "clean", "forget", "store", "copy"}
Phases == {"none", "prepare", "undo", "tidy"}
Op     == [pc : Pcs, phase : Phases, keys : SUBSET Keys, todo : SUBSET Keys,
           key : Keys \cup {Unset},
           ref : Refs \cup {Unset}, pending : SUBSET Refs, fresh : [Keys -> Refs \cup {Unset}]]

NoRows  == [setting |-> [k \in Keys |-> Unset], journal |-> [k \in Keys |-> {}]]
NoFresh == [k \in Keys |-> Unset]
Idle == [pc |-> "idle", phase |-> "none", keys |-> {}, todo |-> {}, key |-> Unset,
         ref |-> Unset, pending |-> {}, fresh |-> NoFresh]

\* Type invariant.
SecretTypeOK ==
  /\ db \in Rows /\ staged \in [Procs -> Rows]
  /\ keystore \subseteq Refs /\ drawn \subseteq Refs
  /\ guard \in Procs \cup {Nobody}
  /\ reading \in [Procs -> Values \cup {Silent}]
  /\ op \in [Procs -> Op]

Init ==
  /\ db \in [setting : [Keys -> {Unset, Plain}], journal : {[k \in Keys |-> {}]}]
  /\ staged = [p \in Procs |-> NoRows]
  /\ keystore = {} /\ drawn = {}
  /\ guard = Nobody
  /\ reading = [p \in Procs |-> Silent]
  /\ op = [p \in Procs |-> Idle]

----------------------------------------------------------------------------
(* Locks, rows.                                                            *)

\* The operation of p goes on as o.
Becomes(p, o) == op' = [op EXCEPT ![p] = o]

\* kick_secret_guard: the lock is taken at once or not at all.
CanLock(p) ==
  /\ op[p].pc = "idle" /\ guard = Nobody
  /\ \A q \in Procs : reading[q] = Silent

\* native_cleanup_reference: what a value refers to in the key store, if anything.
Native(value) == {value} \cap Refs

\* sync_settings_retiring_secrets: in one transaction the keys ks get their new
\* values, what they pointed to is journalled, and the new values are not.
RetiringRows(values, ks) ==
  [setting |-> [k \in Keys |-> IF k \in ks THEN values[k] ELSE db.setting[k]],
   journal |-> [k \in Keys |->
                  IF k \in ks THEN (db.journal[k] \cup Native(db.setting[k])) \ {values[k]}
                  ELSE db.journal[k]]]

\* The rows that a restore takes from the current database, not from the backup.
KeptSettings == Keys
KeptJournals == Keys

\* restore_source_preserving_credentials: the staging copy of a backup's rows.
StagedRows(old) ==
  [setting |-> [k \in Keys |-> IF k \in KeptSettings THEN db.setting[k] ELSE old.setting[k]],
   journal |-> [k \in Keys |-> IF k \in KeptJournals THEN db.journal[k] ELSE old.journal[k]]]

----------------------------------------------------------------------------
(* Readers: with_provider_settings and read_kick_token look the reference  *)
(* up under the shared lock and use it before they let go.                 *)

\* Mutant: the reader does not look at the lock.
ReadUnlocked(p) ==
  /\ reading[p] = Silent
  /\ \E k \in Keys : reading' = [reading EXCEPT ![p] = db.setting[k]]
  /\ UNCHANGED <<db, keystore, drawn, guard, op, staged>>

Read(p) ==
  /\ guard = Nobody /\ reading[p] = Silent
  /\ \E k \in Keys : reading' = [reading EXCEPT ![p] = db.setting[k]]
  /\ UNCHANGED <<db, keystore, drawn, guard, op, staged>>

ReadEnds(p) ==
  /\ reading[p] # Silent
  /\ reading' = [reading EXCEPT ![p] = Silent]
  /\ UNCHANGED <<db, keystore, drawn, guard, op, staged>>

----------------------------------------------------------------------------
(* Saving the credentials of the keys ks (save_provider_configuration):    *)
(* first each key is prepared, then all are committed, then tidied up.     *)

BeginSave(p, ks) ==
  /\ CanLock(p)
  /\ guard' = p
  /\ Becomes(p, [Idle EXCEPT !.pc = "next", !.phase = "prepare", !.keys = ks, !.todo = ks])
  /\ UNCHANGED <<db, keystore, drawn, reading, staged>>

\* cleanup_provider_secrets: the journal is read, ...
NextKey(p) ==
  /\ op[p].pc = "next" /\ op[p].phase \in {"prepare", "tidy"}
  /\ \E k \in op[p].todo :
       Becomes(p, [op[p] EXCEPT !.pc = "clean", !.key = k, !.pending = db.journal[k]])
  /\ UNCHANGED <<db, keystore, drawn, guard, reading, staged>>

\* The references of the loop that are still to be deleted: all but the current one.
Obsolete(p) == op[p].pending \ {db.setting[op[p].key]}

\* ... each credential it names is deleted ...
DeleteOne(p) ==
  /\ op[p].pc = "clean"
  /\ \E r \in Obsolete(p) :
       /\ keystore' = keystore \ {r}
       /\ Becomes(p, [op[p] EXCEPT !.pc = "forget", !.ref = r])
  /\ UNCHANGED <<db, drawn, guard, reading, staged>>

\* ... and finish_secret_cleanup takes it out of the journal.
Forget(p) ==
  LET o == op[p] IN
  /\ o.pc = "forget"
  /\ db' = [db EXCEPT !.journal[o.key] = @ \ {o.ref}]
  /\ Becomes(p, [o EXCEPT !.pending = @ \ {o.ref},
                          !.pc = IF o.phase = "undo" THEN "next" ELSE "clean"])
  /\ UNCHANGED <<keystore, drawn, guard, reading, staged>>

\* Mutant: the key store is asked before the intent is saved.
IntendNothing(p) ==
  /\ op[p].pc = "clean" /\ op[p].phase = "prepare" /\ Obsolete(p) = {}
  /\ \E r \in Refs \ drawn :
       /\ drawn' = drawn \cup {r}
       /\ Becomes(p, [op[p] EXCEPT !.pc = "store", !.ref = r])
  /\ UNCHANGED <<db, keystore, guard, reading, staged>>

\* protect_native_secret_with: a fresh reference is journalled before ...
Intend(p) ==
  /\ op[p].pc = "clean" /\ op[p].phase = "prepare" /\ Obsolete(p) = {}
  /\ \E r \in Refs \ drawn :
       /\ drawn' = drawn \cup {r}
       /\ db' = [db EXCEPT !.journal[op[p].key] = @ \cup {r}]
       /\ Becomes(p, [op[p] EXCEPT !.pc = "store", !.ref = r])
  /\ UNCHANGED <<keystore, guard, reading, staged>>

\* ... the credential is created under it.
StoreNative(p) ==
  LET o == op[p] IN
  /\ o.pc = "store"
  /\ keystore' = keystore \cup {o.ref}
  /\ Becomes(p, [o EXCEPT !.pc = "next", !.todo = @ \ {o.key}, !.fresh[o.key] = o.ref])
  /\ UNCHANGED <<db, drawn, guard, reading, staged>>

\* commit_provider_configuration
Commit(p) ==
  LET o == op[p] IN
  /\ o.pc = "next" /\ o.phase = "prepare" /\ o.todo = {}
  /\ db' = RetiringRows(o.fresh, o.keys)
  /\ Becomes(p, [o EXCEPT !.phase = "tidy", !.todo = o.keys])
  /\ UNCHANGED <<keystore, drawn, guard, reading, staged>>

\* Mutant: the tidying stops after the first key.
TidyFirst(p) ==
  /\ op[p].pc = "clean" /\ op[p].phase = "tidy" /\ Obsolete(p) = {}
  /\ Becomes(p, [op[p] EXCEPT !.pc = "next", !.todo = {}])
  /\ UNCHANGED <<db, keystore, drawn, guard, reading, staged>>

KeyIsTidy(p) ==
  /\ op[p].pc = "clean" /\ op[p].phase = "tidy" /\ Obsolete(p) = {}
  /\ Becomes(p, [op[p] EXCEPT !.pc = "next", !.todo = @ \ {op[p].key}])
  /\ UNCHANGED <<db, keystore, drawn, guard, reading, staged>>

\* clear_provider_credentials, clear_kick_token (any set of keys here): the settings
\* are cleared and their references journalled, then the journals are worked off.
Clear(p, ks) ==
  /\ CanLock(p)
  /\ guard' = p
  /\ db' = RetiringRows(NoFresh, ks)
  /\ Becomes(p, [Idle EXCEPT !.pc = "next", !.phase = "tidy", !.keys = ks, !.todo = ks])
  /\ UNCHANGED <<keystore, drawn, reading, staged>>

----------------------------------------------------------------------------
(* Failures, the end, a crash.                                             *)

Release(p) == guard' = Nobody /\ Becomes(p, Idle)

\* A step of an operation fails.  Before the commit the new credentials are rolled
\* back; after it the error is reported and the rest stays in the journal.
Abort(p) ==
  IF op[p].phase = "prepare"
  THEN /\ Becomes(p, [op[p] EXCEPT !.pc = "next", !.phase = "undo",
                                   !.todo = {k \in Keys : op[p].fresh[k] # Unset}])
       /\ UNCHANGED guard
  ELSE Release(p)

\* The key store reports an error; it may have done its work all the same.
KeystoreFails(p) ==
  /\ \/ op[p].pc = "store" /\ keystore' \in {keystore, keystore \cup {op[p].ref}}
     \/ op[p].pc = "clean" /\ \E r \in Obsolete(p) : keystore' \in {keystore, keystore \ {r}}
  /\ Abort(p)
  /\ UNCHANGED <<db, drawn, reading, staged>>

\* rollback_provider_configuration deletes the new credentials, one after the other;
\* one whose deletion reports an error stays journalled.
UndoOne(p) ==
  /\ op[p].pc = "next" /\ op[p].phase = "undo"
  /\ \E k \in op[p].todo :
       \/ /\ keystore' = keystore \ {op[p].fresh[k]}
          /\ Becomes(p, [op[p] EXCEPT !.pc = "forget", !.key = k, !.todo = @ \ {k},
                                      !.ref = op[p].fresh[k]])
       \/ /\ keystore' \in {keystore, keystore \ {op[p].fresh[k]}}
          /\ Becomes(p, [op[p] EXCEPT !.todo = @ \ {k}])
  /\ UNCHANGED <<db, drawn, guard, reading, staged>>

\* SQLite refuses a statement: nothing of it is stored.
DatabaseFails(p) ==
  LET o == op[p] IN
  /\ \/ /\ \/ o.pc \in {"forget", "clean"} /\ o.phase # "undo"
           \/ o.pc = "next" /\ o.phase = "prepare"
        /\ Abort(p)
     \/ /\ o.pc = "forget" /\ o.phase = "undo"
        /\ Becomes(p, [op[p] EXCEPT !.pc = "next"])
        /\ UNCHANGED guard
  /\ UNCHANGED <<db, keystore, drawn, reading, staged>>

Finish(p) ==
  /\ op[p].pc = "next" /\ op[p].phase \in {"tidy", "undo"} /\ op[p].todo = {}
  /\ Release(p)
  /\ UNCHANGED <<db, keystore, drawn, reading, staged>>

\* The process dies; the system drops its locks.
Crash(p) ==
  /\ op[p].pc # "idle" \/ reading[p] # Silent
  /\ Becomes(p, Idle)
  /\ reading' = [reading EXCEPT ![p] = Silent]
  /\ staged' = [staged EXCEPT ![p] = NoRows]
  /\ guard' = IF guard = p THEN Nobody ELSE guard
  /\ UNCHANGED <<db, keystore, drawn>>

----------------------------------------------------------------------------
(* Restore of a backup (restore_from).  The page copy into the database is  *)
(* one SQLite transaction.                                                  *)

\* Mutant: the staging copy is made before the lock is taken.
StageUnlocked(p) ==
  /\ op[p].pc = "idle"
  /\ \E old \in OldRows : staged' = [staged EXCEPT ![p] = StagedRows(old)]
  /\ Becomes(p, [Idle EXCEPT !.pc = "copy"])
  /\ UNCHANGED <<db, keystore, drawn, guard, reading>>

Stage(p) ==
  /\ CanLock(p)
  /\ guard' = p
  /\ \E old \in OldRows : staged' = [staged EXCEPT ![p] = StagedRows(old)]
  /\ Becomes(p, [Idle EXCEPT !.pc = "copy"])
  /\ UNCHANGED <<db, keystore, drawn, reading>>

\* The copy, or an error before its end: then the database is as it was.
CopyBack(p) ==
  /\ op[p].pc = "copy"
  /\ db' = staged[p] \/ UNCHANGED db
  /\ Release(p)
  /\ staged' = [staged EXCEPT ![p] = NoRows]
  /\ UNCHANGED <<keystore, drawn, reading>>

----------------------------------------------------------------------------
Proceeds(p) ==
  \/ NextKey(p) \/ DeleteOne(p) \/ Forget(p) \/ Intend(p) \/ StoreNative(p) \/ Commit(p)
  \/ KeyIsTidy(p) \/ UndoOne(p) \/ Finish(p) \/ CopyBack(p)
  \/ KeystoreFails(p) \/ DatabaseFails(p)

Next ==
  \E p \in Procs :
    \/ Read(p) \/ ReadEnds(p)
    \/ \E ks \in SUBSET Keys \ {{}} : BeginSave(p, ks) \/ Clear(p, ks)
    \/ Stage(p) \/ Proceeds(p) \/ Crash(p)

Spec == Init /\ [][Next]_vars

----------------------------------------------------------------------------
(* Properties.                                                             *)

\* No credential is lost in the key store: one that is there is referenced by its
\* setting or named in a journal, whatever failed and whenever the process died.
NoOrphan ==
  \A r \in keystore : \E k \in Keys : db.setting[k] = r \/ r \in db.journal[k]

\* A stored reference is never dangling: the program deletes a credential only after
\* nothing refers to it, and commits a reference only after it exists.
ReferencesAreLive == \A k \in Keys : db.setting[k] \in Refs => db.setting[k] \in keystore

\* What a reader is about to look up is still in the key store.
ReadersFindIt == \A p \in Procs : reading[p] \in Refs => reading[p] \in keystore

\* A save or a removal that succeeds leaves nothing to clean up for its keys.
SuccessIsClean ==
  \A p \in Procs :
    op[p].pc = "next" /\ op[p].phase = "tidy" /\ op[p].todo = {}
      => \A k \in op[p].keys : db.journal[k] = {}

\* A restore leaves the credentials and the record of pending cleanups as they are
\* (docs/OPERATIONS.md:226): an old backup neither revives nor drops one.
RestoreKeepsCredentials == [][\A p \in Procs : op[p].pc = "copy" => UNCHANGED db]_vars

\* The two stores agree on what credentials there are.
CredentialsAgree == SecretTypeOK /\ NoOrphan /\ ReferencesAreLive
=============================================================================
