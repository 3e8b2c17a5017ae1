---------------------------- MODULE Registration ----------------------------
(***************************************************************************)
(* `accounts add chatgpt` and `accounts remove`, for one provider identity.*)
(* A command writes three things that no transaction covers: the journal   *)
(* of pending registrations and the registry, which are tables, and the    *)
(* credentials of the account, a directory that is replaced by renaming.   *)
(* Each table statement and each directory operation is a step; it may     *)
(* fail, and the process may end, between any two of them.                 *)
(*                                                                         *)
(* The journal is keyed by identity and pool.  `accounts add` creates its  *)
(* row without a backend handle and without an account id and sets both    *)
(* only when it completes the row, so of the four arms of                  *)
(* reconcile_pending_add_registration an open row takes the last one.      *)
(*                                                                         *)
(* Staging directories and the raw handle of older versions are written    *)
(* and removed, and never read again: they are left out.  The identity is  *)
(* registered under the id that is requested for it.                       *)
(***************************************************************************)
EXTENDS Integers

CONSTANTS Procs,      \* the terminals commands are run in
          Pools,      \* pool ids
          None,       \* no pool, no account, no credentials, no login
          MaxLogins,  \* bound on the logins
          MaxErrors,  \* bound on the operations that fail
          MaxCrashes  \* bound on the processes that end in a command

ASSUME RegistrationAssumption ==
    /\ None \notin Pools
    /\ None \notin Nat
    /\ MaxLogins \in Nat /\ MaxErrors \in Nat /\ MaxCrashes \in Nat

VARIABLES journal,  \* pending_account_registration of the identity, by pool
          row,      \* the pool of the account's registry row, or None
          creds,    \* the login whose credentials are in final_home, or None
          backups,  \* the login whose credentials backup_home holds, by the
                    \* login of the registration that made it
          default,  \* account_startup_selection.default_pool_id
          cmd,      \* the command each process runs, and how it ended
          logins,   \* logins so far
          errors,   \* operations that failed so far
          crashes,  \* processes that ended so far
          promised  \* the login of the last add reported as a success, until
                    \* the operator removes the account

regVars == <<journal, row, creds, backups, default, cmd, logins, errors,
             crashes, promised>>

tableVars == <<journal, row, default>>
diskVars  == <<creds, backups>>
countVars == <<logins, errors, crashes, promised>>

Logins == 1 .. MaxLogins

AtRest == {"idle", "succeeded", "failed"}

PC == AtRest \cup
      {"login", "reconcile", "clearOpen", "recheck", "clearDone", "lookup",
       "scan", "create", "stage", "backup", "install", "upsert", "readBack",
       "dropBackup", "undo", "putBack", "finalize", "setDefault", "clear",
       "delRead", "delAuth", "delRow"}

\* "io" is an operation that failed; "blocked" is a rename that cannot be done
\* because of what is in final_home, or is not.
Errors == {"none", "noPool", "otherPool", "io", "blocked", "missing", "inactive",
           "notRemoved"}

Command == [op: {"add", "remove"}, pc: PC, pool: Pools \cup {None},
            asDefault: BOOLEAN, login: Logins \cup {None}, reused: BOOLEAN,
            hadAuth: BOOLEAN, error: Errors]

TypeOK ==
    /\ journal \in [Pools -> {"none", "open", "done"}]
    /\ row \in Pools \cup {None}
    /\ creds \in Logins \cup {None}
    /\ backups \in [Logins -> Logins \cup {None}]
    /\ default \in Pools \cup {None}
    /\ cmd \in [Procs -> Command]
    /\ logins \in 0 .. MaxLogins
    /\ errors \in 0 .. MaxErrors
    /\ crashes \in 0 .. MaxCrashes
    /\ promised \in Logins \cup {None}

NewCommand(op, pc, p, asDefault) ==
    [op |-> op, pc |-> pc, pool |-> p, asDefault |-> asDefault,
     login |-> None, reused |-> FALSE, hadAuth |-> FALSE, error |-> "none"]

Idle == NewCommand("add", "idle", None, FALSE)

RegInit ==
    /\ journal = [p \in Pools |-> "none"]
    /\ row = None
    /\ creds = None
    /\ backups = [l \in Logins |-> None]
    /\ default = None
    /\ cmd = [c \in Procs |-> Idle]
    /\ logins = 0
    /\ errors = 0
    /\ crashes = 0
    /\ promised = None

-----------------------------------------------------------------------------
(* Where a command goes next.                                              *)
At(c, pc) == cmd[c].pc = pc

Go(c, pc) == cmd' = [cmd EXCEPT ![c].pc = pc]

(* The error the command will end with, and the step it goes on with.      *)
Raise(c, error, pc) == cmd' = [cmd EXCEPT ![c].pc = pc, ![c].error = error]

SetJournal(c, state) == journal' = [journal EXCEPT ![cmd[c].pool] = state]

-----------------------------------------------------------------------------
(* accounts add, up to the journal row.                                    *)

(* The pool: the one named, else the persisted default, else the only pool *)
(* there is.  The first named pool becomes the default, if none is stored. *)
BeginAdd(c, named) ==
    /\ cmd[c].pc \in AtRest
    /\ logins < MaxLogins
    /\ LET pool == IF named # None THEN named
                   ELSE IF default # None THEN default ELSE row
       IN  cmd' = [cmd EXCEPT ![c] =
              IF pool = None
              THEN [NewCommand("add", "failed", None, FALSE)
                       EXCEPT !.error = "noPool"]
              ELSE NewCommand("add", "login", pool,
                              named # None /\ default = None)]
    /\ UNCHANGED <<tableVars, diskVars, countVars>>

Login(c) ==
    /\ At(c, "login")
    /\ logins < MaxLogins
    /\ logins' = logins + 1
    /\ cmd' = [cmd EXCEPT ![c].pc = "reconcile", ![c].login = logins + 1]
    /\ UNCHANGED <<tableVars, diskVars, errors, crashes, promised>>

Reconcile(c) ==
    /\ At(c, "reconcile")
    /\ Go(c, IF journal[cmd[c].pool] = "open" THEN "clearOpen" ELSE "recheck")
    /\ UNCHANGED <<tableVars, diskVars, countVars>>

Recheck(c) ==
    /\ At(c, "recheck")
    /\ Go(c, IF journal[cmd[c].pool] = "done" THEN "clearDone" ELSE "lookup")
    /\ UNCHANGED <<tableVars, diskVars, countVars>>

ClearPending(c) ==
    /\ cmd[c].pc \in {"clearOpen", "clearDone"}
    /\ SetJournal(c, "none")
    /\ Go(c, IF At(c, "clearOpen") THEN "recheck" ELSE "lookup")
    /\ UNCHANGED <<row, default, diskVars, countVars>>

(* existing_requested_account.                                             *)
Lookup(c) ==
    /\ At(c, "lookup")
    /\ cmd' = [cmd EXCEPT ![c].pc = "scan", ![c].reused = (row # None)]
    /\ UNCHANGED <<tableVars, diskVars, countVars>>

(* The memberships: an identity that is in another pool is not moved.      *)
Scan(c) ==
    /\ At(c, "scan")
    /\ IF row \notin {None, cmd[c].pool}
       THEN Raise(c, "otherPool", "failed")
       ELSE cmd' = [cmd EXCEPT ![c].pc = "create",
                               ![c].reused = @ \/ row # None]
    /\ UNCHANGED <<tableVars, diskVars, countVars>>

(* The upsert reopens nothing: a completed row stays as it is.             *)
Create(c) ==
    /\ At(c, "create")
    /\ SetJournal(c, IF journal[cmd[c].pool] = "done" THEN "done" ELSE "open")
    /\ Go(c, "stage")
    /\ UNCHANGED <<row, default, diskVars, countVars>>

-----------------------------------------------------------------------------
(* register_account: the credentials first, then the registry row.         *)

(* Mutant: only an account that is registered has credentials to back up.  *)
StageTrustsRegistry(c) ==
    /\ At(c, "stage")
    /\ cmd' = [cmd EXCEPT ![c].pc = IF cmd[c].reused THEN "backup" ELSE "install",
                          ![c].hadAuth = cmd[c].reused]
    /\ UNCHANGED <<tableVars, diskVars, countVars>>

(* Saves the staged credentials and looks whether there are others.        *)
Stage(c) ==
    /\ At(c, "stage")
    /\ cmd' = [cmd EXCEPT ![c].pc = IF creds # None THEN "backup" ELSE "install",
                          ![c].hadAuth = (creds # None)]
    /\ UNCHANGED <<tableVars, diskVars, countVars>>

(* Renames final_home, which another command may have taken away.          *)
Backup(c) ==
    /\ At(c, "backup")
    /\ IF creds # None
       THEN /\ backups' = [backups EXCEPT ![cmd[c].login] = creds]
            /\ creds' = None
            /\ Go(c, "install")
       ELSE /\ Raise(c, "blocked", "clear")
            /\ UNCHANGED diskVars
    /\ UNCHANGED <<tableVars, countVars>>

(* Renames the staged directory; a directory that is there is not replaced.*)
Install(c) ==
    /\ At(c, "install")
    /\ IF creds = None
       THEN creds' = cmd[c].login /\ Go(c, "upsert")
       ELSE UNCHANGED creds /\ Raise(c, "blocked", "undo")
    /\ UNCHANGED <<backups, tableVars, countVars>>

Upsert(c) ==
    /\ At(c, "upsert")
    /\ row' = cmd[c].pool
    /\ Go(c, "readBack")
    /\ UNCHANGED <<journal, default, diskVars, countVars>>

ReadBack(c) ==
    /\ At(c, "readBack")
    /\ IF row = None THEN Raise(c, "missing", "undo")
       ELSE Go(c, IF cmd[c].hadAuth THEN "dropBackup" ELSE "finalize")
    /\ UNCHANGED <<tableVars, diskVars, countVars>>

DropBackup(c) ==
    /\ At(c, "dropBackup")
    /\ backups' = [backups EXCEPT ![cmd[c].login] = None]
    /\ Go(c, "finalize")
    /\ UNCHANGED <<creds, tableVars, countVars>>

(* restore_pooled_registration_auth_namespace.                             *)
Undo(c) ==
    /\ At(c, "undo")
    /\ creds' = None
    /\ Go(c, IF cmd[c].hadAuth THEN "putBack" ELSE "clear")
    /\ UNCHANGED <<backups, tableVars, countVars>>

(* Mutant: the backup is removed rather than renamed.                      *)
PutBackNothing(c) ==
    /\ At(c, "putBack")
    /\ backups' = [backups EXCEPT ![cmd[c].login] = None]
    /\ Go(c, "clear")
    /\ UNCHANGED <<creds, tableVars, countVars>>

PutBack(c) ==
    /\ At(c, "putBack")
    /\ IF creds = None
       THEN /\ creds' = backups[cmd[c].login]
            /\ backups' = [backups EXCEPT ![cmd[c].login] = None]
       ELSE UNCHANGED diskVars
    /\ Go(c, "clear")
    /\ UNCHANGED <<tableVars, countVars>>

-----------------------------------------------------------------------------
(* The end of a registration.                                              *)

(* An account that was there before is kept, a new one is taken back.      *)
AfterFinalizeError(c) == IF cmd[c].reused THEN "clear" ELSE "delRead"

(* Mutant: the first pool that is named does not become the default.       *)
FinalizeForgetsDefault(c) ==
    /\ At(c, "finalize")
    /\ IF journal[cmd[c].pool] = "open"
       THEN /\ SetJournal(c, "done")
            /\ Go(c, "succeeded")
            /\ promised' = cmd[c].login
       ELSE /\ Raise(c, "inactive", AfterFinalizeError(c))
            /\ UNCHANGED <<journal, promised>>
    /\ UNCHANGED <<row, default, diskVars, logins, errors, crashes>>

Finalize(c) ==
    /\ At(c, "finalize")
    /\ IF journal[cmd[c].pool] = "open"
       THEN /\ SetJournal(c, "done")
            /\ Go(c, IF cmd[c].asDefault THEN "setDefault" ELSE "succeeded")
            /\ promised' = IF cmd[c].asDefault THEN promised ELSE cmd[c].login
       ELSE /\ Raise(c, "inactive", AfterFinalizeError(c))
            /\ UNCHANGED <<journal, promised>>
    /\ UNCHANGED <<row, default, diskVars, logins, errors, crashes>>

SetDefault(c) ==
    /\ At(c, "setDefault")
    /\ default' = cmd[c].pool
    /\ promised' = cmd[c].login
    /\ Go(c, "succeeded")
    /\ UNCHANGED <<journal, row, diskVars, logins, errors, crashes>>

(* The journal row of a registration that failed.                          *)
Clear(c) ==
    /\ At(c, "clear")
    /\ SetJournal(c, "none")
    /\ Go(c, "failed")
    /\ UNCHANGED <<row, default, diskVars, countVars>>

-----------------------------------------------------------------------------
(* delete_registered_account: for accounts remove and for an add that      *)
(* takes its account back.                                                 *)
BeginRemove(c) ==
    /\ cmd[c].pc \in AtRest
    /\ cmd' = [cmd EXCEPT ![c] = NewCommand("remove", "delRead", None, FALSE)]
    /\ UNCHANGED <<tableVars, diskVars, countVars>>

DeleteRead(c) ==
    /\ At(c, "delRead")
    /\ IF row = None THEN Raise(c, "notRemoved", "failed")
       ELSE Go(c, "delAuth")
    /\ UNCHANGED <<tableVars, diskVars, countVars>>

DeleteAuth(c) ==
    /\ At(c, "delAuth")
    /\ creds' = None
    /\ promised' = IF cmd[c].op = "remove" THEN None ELSE promised
    /\ Go(c, "delRow")
    /\ UNCHANGED <<backups, tableVars, logins, errors, crashes>>

DeleteRow(c) ==
    /\ At(c, "delRow")
    /\ row' = None
    /\ IF row = None THEN Raise(c, "notRemoved", "failed")
       ELSE Go(c, IF cmd[c].op = "add" THEN "clear" ELSE "succeeded")
    /\ UNCHANGED <<journal, default, diskVars, countVars>>

(* accounts pool assign, one transaction.                                  *)
Assign(c, p) ==
    /\ cmd[c].pc \in AtRest
    /\ row # None
    /\ row' = p
    /\ cmd' = [cmd EXCEPT ![c] = Idle]
    /\ UNCHANGED <<journal, default, diskVars, countVars>>

-----------------------------------------------------------------------------
(* Faults.                                                                 *)

(* Mutant: a registration that fails at its row leaves the credentials.    *)
AfterErrorNoUndo(c) ==
    CASE cmd[c].pc \in {"stage", "backup", "putBack", "install", "upsert",
                        "readBack"} -> "clear"
      [] At(c, "undo") -> IF cmd[c].hadAuth THEN "putBack" ELSE "clear"
      [] At(c, "dropBackup") -> "finalize"
      [] At(c, "finalize") -> AfterFinalizeError(c)
      [] OTHER -> "failed"

(* Where a command goes when the operation it is at fails.  A backup that  *)
(* cannot be removed is only reported; the parts of a rollback are all     *)
(* tried.                                                                  *)
AfterError(c) ==
    CASE cmd[c].pc \in {"stage", "backup", "putBack"} -> "clear"
      [] cmd[c].pc \in {"install", "upsert", "readBack"} -> "undo"
      [] At(c, "undo") -> IF cmd[c].hadAuth THEN "putBack" ELSE "clear"
      [] At(c, "dropBackup") -> "finalize"
      [] At(c, "finalize") -> AfterFinalizeError(c)
      [] OTHER -> "failed"

Error(c) ==
    /\ cmd[c].pc \notin AtRest
    /\ errors < MaxErrors
    /\ errors' = errors + 1
    /\ Raise(c, IF At(c, "dropBackup") THEN "none" ELSE "io", AfterError(c))
    /\ UNCHANGED <<tableVars, diskVars, logins, crashes, promised>>

Crash(c) ==
    /\ cmd[c].pc \notin AtRest
    /\ crashes < MaxCrashes
    /\ crashes' = crashes + 1
    /\ cmd' = [cmd EXCEPT ![c] = Idle]
    /\ UNCHANGED <<tableVars, diskVars, logins, errors, promised>>

RegStep(c) ==
    \/ Login(c) \/ Reconcile(c) \/ Recheck(c) \/ ClearPending(c)
    \/ Lookup(c) \/ Scan(c) \/ Create(c)
    \/ Stage(c) \/ Backup(c) \/ Install(c) \/ Upsert(c) \/ ReadBack(c)
    \/ DropBackup(c) \/ Undo(c) \/ PutBack(c)
    \/ Finalize(c) \/ SetDefault(c) \/ Clear(c)
    \/ DeleteRead(c) \/ DeleteAuth(c) \/ DeleteRow(c)

RegNext ==
    \E c \in Procs :
        \/ \E named \in Pools \cup {None} : BeginAdd(c, named)
        \/ BeginRemove(c)
        \/ \E p \in Pools : Assign(c, p)
        \/ RegStep(c)
        \/ Error(c)
        \/ Crash(c)

RegSpec == RegInit /\ [][RegNext]_regVars

-----------------------------------------------------------------------------
(* What a command promises when commands run one at a time.                *)

(* The account is usable: it is registered, and its credentials are in     *)
(* place or in a backup.                                                   *)
CredentialsExist == creds # None \/ \E l \in Logins : backups[l] # None

(* Once an add was reported as a success, the account stays registered     *)
(* until it is removed, and no later add that fails, is interrupted or     *)
(* cannot be rolled back destroys the last copy of its credentials         *)
(* (stage_pooled_registration_auth,                                        *)
(* restore_pooled_registration_auth_namespace, and reused_existing_account *)
(* for the compensation).                                                  *)
PromiseKept == promised # None => row # None /\ CredentialsExist

(* A reported success is complete, whatever crashes, errors and removals   *)
(* went before: the account is in the pool that was asked for, with the    *)
(* credentials of this login and not a restored copy, its journal row is   *)
(* closed, and the first pool that is named is the default.                *)
SuccessIsComplete ==
    \A c \in Procs :
        (cmd[c].op = "add" /\ At(c, "succeeded")) =>
            /\ row = cmd[c].pool
            /\ creds = cmd[c].login
            /\ journal[cmd[c].pool] = "done"
            /\ cmd[c].asDefault => default = cmd[c].pool

(* What an interrupted, failed or completed command left in the journal,   *)
(* the registry and the directory never blocks the next add: it fails only *)
(* for an operation of its own that failed, for want of a pool, or for an  *)
(* identity that is in another pool; no rename meets a directory that is   *)
(* in its way (stage_pooled_registration_auth) and no row is missing or    *)
(* closed when the add completes it.                                       *)
NothingBlocks ==
    \A c \in Procs : cmd[c].op = "add" =>
        cmd[c].error \notin {"blocked", "missing", "inactive", "notRemoved"}

(* Credentials without an account are known to the journal.               *)
OrphansOnRecord ==
    (creds # None /\ row = None /\ \A c \in Procs : cmd[c].pc \in AtRest)
        => \E p \in Pools : journal[p] = "open"

(* One fault, an operation that fails or a process that ends, leaves no    *)
(* credentials without an account that the journal does not know of: the   *)
(* rollback, the compensation and the journal row leave no gap between     *)
(* them (register_account, clear_pending_account_registration).            *)
FaultIsOnRecord == errors + crashes <= 1 => OrphansOnRecord
=============================================================================
