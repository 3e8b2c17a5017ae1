------------------------- MODULE RegistrationProofs -------------------------
(***************************************************************************)
(* What Registration promises when commands run one at a time, for any     *)
(* number of pools, logins, failing operations and crashes.                *)
(*                                                                         *)
(* A command is described by what it has established at each step: in the  *)
(* journal, in the directory and in the registry.  Only the command itself *)
(* can undo that, which is what fails with a second terminal.              *)
(***************************************************************************)
EXTENDS Registration, TLAPS

OneTerminal == \E c : Procs = {c}

HasBackup == \E l \in Logins : backups[l] # None

(* Which commands there are, and what they know of their pool and login.   *)
Shape(c) ==
    /\ cmd[c].op = "remove" => cmd[c].pc \in AtRest \cup {"delRead", "delAuth", "delRow"}
    /\ (cmd[c].op = "add" /\ cmd[c].pc \notin {"idle", "failed"})
          => cmd[c].pool \in Pools
    /\ (cmd[c].op = "add" /\ cmd[c].pc \notin {"idle", "failed", "login"})
          => cmd[c].login \in Logins

(* The journal row.                                                        *)
JournalAt(c) ==
    /\ cmd[c].pc = "clearDone" => journal[cmd[c].pool] = "done"
    /\ cmd[c].pc \in {"lookup", "scan", "create"} => journal[cmd[c].pool] # "done"
    /\ cmd[c].pc \in {"stage", "backup", "install", "upsert", "readBack",
                      "dropBackup", "finalize"}
          => journal[cmd[c].pool] = "open"
    /\ cmd[c].pc = "setDefault" => journal[cmd[c].pool] = "done"

(* The credentials and the registry row.                                   *)
AccountAt(c) ==
    /\ cmd[c].pc = "backup" => creds # None
    /\ cmd[c].pc = "install" => creds = None
    /\ cmd[c].pc \in {"upsert", "readBack", "dropBackup", "finalize",
                      "setDefault"} => creds = cmd[c].login
    /\ cmd[c].pc \in {"readBack", "dropBackup", "finalize", "setDefault"}
          => row = cmd[c].pool
    /\ (cmd[c].op = "add" /\ cmd[c].pc \in {"delRead", "delAuth", "delRow"})
          => row # None

(* What keeps the promise: an account that was there is not taken back,    *)
(* and a rollback finds a backup.                                          *)
PromiseAt(c) ==
    /\ (/\ cmd[c].op = "add" /\ ~cmd[c].reused
        /\ cmd[c].pc \in {"scan", "create", "stage", "backup", "install",
                          "upsert", "readBack", "dropBackup", "undo",
                          "putBack", "finalize"})
          => promised = None
    /\ (cmd[c].op = "add" /\ cmd[c].pc \in {"delRead", "delAuth", "delRow"})
          => promised = None
    /\ (cmd[c].op = "remove" /\ cmd[c].pc = "delRow") => promised = None
    /\ (promised # None /\ cmd[c].pc \in {"install", "upsert", "readBack",
                                          "undo", "putBack"}) => HasBackup

RegInv ==
    /\ TypeOK
    /\ PromiseKept
    /\ SuccessIsComplete
    /\ NothingBlocks
    /\ \A c \in Procs : Shape(c) /\ JournalAt(c) /\ AccountAt(c) /\ PromiseAt(c)

-----------------------------------------------------------------------------
(* How a step changes its command.                                         *)
IsCommand(c) == cmd \in [Procs -> Command] /\ c \in Procs

SameBut(c, pc, reused, hadAuth, error) ==
    /\ cmd' \in [Procs -> Command]
    /\ cmd'[c].pc = pc
    /\ cmd'[c].reused = reused
    /\ cmd'[c].hadAuth = hadAuth
    /\ cmd'[c].error = error
    /\ cmd'[c].op = cmd[c].op
    /\ cmd'[c].pool = cmd[c].pool
    /\ cmd'[c].asDefault = cmd[c].asDefault
    /\ cmd'[c].login = cmd[c].login

LEMMA GoEffect ==
    ASSUME NEW c, NEW pc \in PC, IsCommand(c), Go(c, pc)
    PROVE  SameBut(c, pc, cmd[c].reused, cmd[c].hadAuth, cmd[c].error)
<1> DEFINE m == [cmd[c] EXCEPT !.pc = pc]
<1>1. cmd[c] \in Command
    BY DEF IsCommand
<1>2. m \in Command
    BY <1>1 DEF Command
<1>3. cmd' = [cmd EXCEPT ![c] = m]
    BY DEF Go
<1>4. cmd' \in [Procs -> Command] /\ cmd'[c] = m
    <2> HIDE DEF m
    <2> QED
        BY <1>2, <1>3 DEF IsCommand
<1> QED
    BY <1>1, <1>4 DEF SameBut, Command

LEMMA RaiseEffect ==
    ASSUME NEW c, NEW pc \in PC, NEW error \in Errors, IsCommand(c),
           Raise(c, error, pc)
    PROVE  SameBut(c, pc, cmd[c].reused, cmd[c].hadAuth, error)
<1> DEFINE m == [cmd[c] EXCEPT !.pc = pc, !.error = error]
<1>1. cmd[c] \in Command
    BY DEF IsCommand
<1>2. m \in Command
    BY <1>1 DEF Command
<1>3. cmd' = [cmd EXCEPT ![c] = m]
    BY DEF Raise
<1>4. cmd' \in [Procs -> Command] /\ cmd'[c] = m
    <2> HIDE DEF m
    <2> QED
        BY <1>2, <1>3 DEF IsCommand
<1> QED
    BY <1>1, <1>4 DEF SameBut, Command

LEMMA ReusedEffect ==
    ASSUME NEW c, NEW pc \in PC, NEW reused \in BOOLEAN, IsCommand(c),
           cmd' = [cmd EXCEPT ![c].pc = pc, ![c].reused = reused]
    PROVE  SameBut(c, pc, reused, cmd[c].hadAuth, cmd[c].error)
<1> DEFINE m == [cmd[c] EXCEPT !.pc = pc, !.reused = reused]
<1>1. cmd[c] \in Command
    BY DEF IsCommand
<1>2. m \in Command
    BY <1>1 DEF Command
<1>3. cmd' = [cmd EXCEPT ![c] = m]
    OBVIOUS
<1>4. cmd' \in [Procs -> Command] /\ cmd'[c] = m
    <2> HIDE DEF m
    <2> QED
        BY <1>2, <1>3 DEF IsCommand
<1> QED
    BY <1>1, <1>4 DEF SameBut, Command

LEMMA HadAuthEffect ==
    ASSUME NEW c, NEW pc \in PC, NEW hadAuth \in BOOLEAN, IsCommand(c),
           cmd' = [cmd EXCEPT ![c].pc = pc, ![c].hadAuth = hadAuth]
    PROVE  SameBut(c, pc, cmd[c].reused, hadAuth, cmd[c].error)
<1> DEFINE m == [cmd[c] EXCEPT !.pc = pc, !.hadAuth = hadAuth]
<1>1. cmd[c] \in Command
    BY DEF IsCommand
<1>2. m \in Command
    BY <1>1 DEF Command
<1>3. cmd' = [cmd EXCEPT ![c] = m]
    OBVIOUS
<1>4. cmd' \in [Procs -> Command] /\ cmd'[c] = m
    <2> HIDE DEF m
    <2> QED
        BY <1>2, <1>3 DEF IsCommand
<1> QED
    BY <1>1, <1>4 DEF SameBut, Command

-----------------------------------------------------------------------------
(* With one terminal the invariant speaks of one command.                  *)
InvAt(c) ==
    /\ TypeOK
    /\ PromiseKept
    /\ (cmd[c].op = "add" /\ cmd[c].pc = "succeeded") =>
          /\ row = cmd[c].pool
          /\ creds = cmd[c].login
          /\ journal[cmd[c].pool] = "done"
          /\ cmd[c].asDefault => default = cmd[c].pool
    /\ cmd[c].op = "add" => cmd[c].error \notin {"blocked", "missing", "inactive", "notRemoved"}
    /\ Shape(c) /\ JournalAt(c) /\ AccountAt(c) /\ PromiseAt(c)

LEMMA InvAtOne ==
    ASSUME OneTerminal, NEW c \in Procs
    PROVE  (RegInv <=> InvAt(c)) /\ (RegInv' <=> InvAt(c)')
<1>1. \A d \in Procs : d = c
    BY DEF OneTerminal
<1>2. RegInv <=> InvAt(c)
    BY <1>1 DEF RegInv, InvAt, SuccessIsComplete, NothingBlocks, At
<1>3. RegInv' <=> InvAt(c)'
    BY <1>1 DEF RegInv, InvAt, SuccessIsComplete, NothingBlocks, At
<1> QED
    BY <1>2, <1>3

(* The steps up to the journal row.                                        *)
LEMMA JournalSteps ==
    ASSUME NEW c \in Procs, InvAt(c),
           \/ Reconcile(c) \/ Recheck(c) \/ ClearPending(c)
           \/ Lookup(c) \/ Scan(c) \/ Create(c)
    PROVE  InvAt(c)'
<1> USE DEF SameBut, InvAt, TypeOK, PromiseKept, CredentialsExist, Shape,
            JournalAt, AccountAt, PromiseAt, HasBackup, AtRest, At,
            tableVars, diskVars, countVars
<1>1. IsCommand(c)
    BY DEF IsCommand
<1>2. CASE Reconcile(c)
    <2>1. PICK pc \in {"clearOpen", "recheck"} : Go(c, pc)
        BY <1>2 DEF Reconcile
    <2>2. SameBut(c, pc, cmd[c].reused, cmd[c].hadAuth, cmd[c].error)
        BY <1>1, <2>1, GoEffect DEF PC
    <2> QED
        BY <1>2, <2>1, <2>2 DEF Reconcile, Go
<1>3. CASE Recheck(c)
    <2>1. PICK pc \in {"clearDone", "lookup"} : Go(c, pc)
        BY <1>3 DEF Recheck
    <2>2. SameBut(c, pc, cmd[c].reused, cmd[c].hadAuth, cmd[c].error)
        BY <1>1, <2>1, GoEffect DEF PC
    <2> QED
        BY <1>3, <2>1, <2>2 DEF Recheck, Go
<1>4. CASE ClearPending(c)
    <2> DEFINE pc == IF At(c, "clearOpen") THEN "recheck" ELSE "lookup"
    <2>1. SameBut(c, pc, cmd[c].reused, cmd[c].hadAuth, cmd[c].error)
        BY <1>1, <1>4, GoEffect DEF ClearPending, PC
    <2>2. cmd[c].op = "add" /\ cmd[c].pool \in Pools /\ cmd[c].login \in Logins
        BY <1>1, <1>4 DEF ClearPending, IsCommand, Command
    <2>3. /\ journal' \in [Pools -> {"none", "open", "done"}]
          /\ journal'[cmd[c].pool] = "none"
        BY <1>4, <2>2 DEF ClearPending, SetJournal
    <2> QED
        BY <1>4, <2>1, <2>2, <2>3 DEF ClearPending
<1>5. CASE Lookup(c)
    <2>1. SameBut(c, "scan", row # None, cmd[c].hadAuth, cmd[c].error)
        BY <1>1, <1>5, ReusedEffect DEF Lookup, PC
    <2>2. cmd[c].op = "add"
        BY <1>1, <1>5 DEF Lookup, IsCommand, Command
    <2> QED
        BY <1>5, <2>1, <2>2 DEF Lookup
<1>6. CASE Scan(c)
    <2>1. cmd[c].op = "add"
        BY <1>1, <1>6 DEF Scan, IsCommand, Command
    <2>2. CASE row \notin {None, cmd[c].pool}
        <3>1. SameBut(c, "failed", cmd[c].reused, cmd[c].hadAuth, "otherPool")
            BY <1>1, <1>6, <2>2, RaiseEffect DEF Scan, PC, Errors
        <3> QED
            BY <1>6, <2>1, <2>2, <3>1 DEF Scan
    <2>3. CASE row \in {None, cmd[c].pool}
        <3>1. SameBut(c, "create", cmd[c].reused \/ row # None,
                      cmd[c].hadAuth, cmd[c].error)
            BY <1>1, <1>6, <2>3, ReusedEffect DEF Scan, PC
        <3> QED
            BY <1>6, <2>1, <2>3, <3>1 DEF Scan
    <2> QED
        BY <1>6, <2>2, <2>3 DEF Scan
<1>7. CASE Create(c)
    <2>1. SameBut(c, "stage", cmd[c].reused, cmd[c].hadAuth, cmd[c].error)
        BY <1>1, <1>7, GoEffect DEF Create, PC
    <2>2. cmd[c].op = "add" /\ cmd[c].pool \in Pools /\ cmd[c].login \in Logins
        BY <1>1, <1>7 DEF Create, IsCommand, Command
    <2>3. /\ journal' \in [Pools -> {"none", "open", "done"}]
          /\ journal'[cmd[c].pool] = "open"
        BY <1>7, <2>2 DEF Create, SetJournal
    <2> QED
        BY <1>7, <2>1, <2>2, <2>3 DEF Create
<1> QED
    BY <1>2, <1>3, <1>4, <1>5, <1>6, <1>7

(* register_account.                                                       *)
LEMMA RegisterSteps ==
    ASSUME NEW c \in Procs, InvAt(c),
           \/ Stage(c) \/ Backup(c) \/ Install(c) \/ Upsert(c) \/ ReadBack(c)
           \/ DropBackup(c) \/ Undo(c) \/ PutBack(c)
    PROVE  InvAt(c)'
<1> USE DEF SameBut, InvAt, TypeOK, PromiseKept, CredentialsExist, Shape,
            JournalAt, AccountAt, PromiseAt, HasBackup, AtRest, At,
            tableVars, diskVars, countVars
<1>1. IsCommand(c)
    BY DEF IsCommand
<1>2. CASE Stage(c)
    <2> DEFINE pc == IF creds # None THEN "backup" ELSE "install"
               had == creds # None
    <2>1. SameBut(c, pc, cmd[c].reused, had, cmd[c].error)
        <3>1. pc \in PC /\ had \in BOOLEAN
            BY DEF PC
        <3>2. cmd' = [cmd EXCEPT ![c].pc = pc, ![c].hadAuth = had]
            BY <1>2 DEF Stage
        <3> HIDE DEF pc, had, SameBut
        <3> QED
            BY <1>1, <3>1, <3>2, HadAuthEffect
    <2>2. cmd[c].op = "add" /\ cmd[c].pool \in Pools /\ cmd[c].login \in Logins
        BY <1>1, <1>2 DEF Stage, IsCommand, Command
    <2> QED
        BY <1>2, <2>1, <2>2 DEF Stage
<1>3. CASE Backup(c)
    <2>1. cmd[c].op = "add" /\ cmd[c].pool \in Pools /\ cmd[c].login \in Logins
        BY <1>1, <1>3 DEF Backup, IsCommand, Command
    <2>2. creds # None
        BY <1>3 DEF Backup
    <2>3. SameBut(c, "install", cmd[c].reused, cmd[c].hadAuth, cmd[c].error)
        BY <1>1, <1>3, <2>2, GoEffect DEF Backup, PC
    <2>4. backups' \in [Logins -> Logins \cup {None}]
          /\ backups'[cmd[c].login] # None
        BY <1>3, <2>1, <2>2 DEF Backup
    <2> QED
        BY <1>3, <2>1, <2>2, <2>3, <2>4 DEF Backup
<1>4. CASE Install(c)
    <2>1. cmd[c].op = "add" /\ cmd[c].pool \in Pools /\ cmd[c].login \in Logins
        BY <1>1, <1>4 DEF Install, IsCommand, Command
    <2>2. creds = None
        BY <1>4 DEF Install
    <2>3. SameBut(c, "upsert", cmd[c].reused, cmd[c].hadAuth, cmd[c].error)
        BY <1>1, <1>4, <2>2, GoEffect DEF Install, PC
    <2>4. None \notin Logins
        BY RegistrationAssumption DEF Logins
    <2> QED
        BY <1>4, <2>1, <2>2, <2>3, <2>4 DEF Install
<1>5. CASE Upsert(c)
    <2>1. cmd[c].op = "add" /\ cmd[c].pool \in Pools /\ cmd[c].login \in Logins
        BY <1>1, <1>5 DEF Upsert, IsCommand, Command
    <2>2. SameBut(c, "readBack", cmd[c].reused, cmd[c].hadAuth, cmd[c].error)
        BY <1>1, <1>5, GoEffect DEF Upsert, PC
    <2>3. cmd[c].pool # None
        BY <2>1, RegistrationAssumption
    <2> QED
        BY <1>5, <2>1, <2>2, <2>3 DEF Upsert
<1>6. CASE ReadBack(c)
    <2>1. cmd[c].op = "add" /\ cmd[c].pool \in Pools /\ cmd[c].login \in Logins
        BY <1>1, <1>6 DEF ReadBack, IsCommand, Command
    <2>2. row # None
        BY <1>6, <2>1, RegistrationAssumption DEF ReadBack
    <2>3. SameBut(c, IF cmd[c].hadAuth THEN "dropBackup" ELSE "finalize",
                  cmd[c].reused, cmd[c].hadAuth, cmd[c].error)
        BY <1>1, <1>6, <2>2, GoEffect DEF ReadBack, PC
    <2> QED
        BY <1>6, <2>1, <2>2, <2>3 DEF ReadBack
<1>7. CASE DropBackup(c)
    <2>1. cmd[c].op = "add" /\ cmd[c].pool \in Pools /\ cmd[c].login \in Logins
        BY <1>1, <1>7 DEF DropBackup, IsCommand, Command
    <2>2. SameBut(c, "finalize", cmd[c].reused, cmd[c].hadAuth, cmd[c].error)
        BY <1>1, <1>7, GoEffect DEF DropBackup, PC
    <2>3. backups' \in [Logins -> Logins \cup {None}]
        BY <1>7, <2>1 DEF DropBackup
    <2>4. creds # None
        BY <1>7, <2>1, RegistrationAssumption DEF DropBackup, Logins
    <2> QED
        BY <1>7, <2>1, <2>2, <2>3, <2>4 DEF DropBackup
<1>8. CASE Undo(c)
    <2>1. cmd[c].op = "add" /\ cmd[c].pool \in Pools /\ cmd[c].login \in Logins
        BY <1>1, <1>8 DEF Undo, IsCommand, Command
    <2>2. SameBut(c, IF cmd[c].hadAuth THEN "putBack" ELSE "clear", cmd[c].reused, cmd[c].hadAuth, cmd[c].error)
        BY <1>1, <1>8, GoEffect DEF Undo, PC
    <2> QED
        BY <1>8, <2>1, <2>2 DEF Undo
<1>9. CASE PutBack(c)
    <2>1. cmd[c].op = "add" /\ cmd[c].pool \in Pools /\ cmd[c].login \in Logins
        BY <1>1, <1>9 DEF PutBack, IsCommand, Command
    <2>2. SameBut(c, "clear", cmd[c].reused, cmd[c].hadAuth, cmd[c].error)
        BY <1>1, <1>9, GoEffect DEF PutBack, PC
    <2>3. /\ creds' \in Logins \cup {None}
          /\ backups' \in [Logins -> Logins \cup {None}]
        BY <1>9, <2>1 DEF PutBack
    <2>4. HasBackup => creds' # None \/ HasBackup'
        BY <1>9, <2>1 DEF PutBack
    <2> QED
        BY <1>9, <2>1, <2>2, <2>3, <2>4 DEF PutBack
<1> QED
    BY <1>2, <1>3, <1>4, <1>5, <1>6, <1>7, <1>8, <1>9

(* The end of a registration, and delete_registered_account.               *)
LEMMA EndSteps ==
    ASSUME NEW c \in Procs, InvAt(c),
           \/ Finalize(c) \/ SetDefault(c) \/ Clear(c)
           \/ DeleteRead(c) \/ DeleteAuth(c) \/ DeleteRow(c)
    PROVE  InvAt(c)'
<1> USE DEF SameBut, InvAt, TypeOK, PromiseKept, CredentialsExist, Shape,
            JournalAt, AccountAt, PromiseAt, HasBackup, AtRest, At,
            tableVars, diskVars, countVars
<1>1. IsCommand(c)
    BY DEF IsCommand
<1>2. CASE Finalize(c)
    <2>1. cmd[c].op = "add" /\ cmd[c].pool \in Pools /\ cmd[c].login \in Logins
        BY <1>1, <1>2 DEF Finalize, IsCommand, Command
    <2>2. /\ journal[cmd[c].pool] = "open"
          /\ row = cmd[c].pool /\ cmd[c].pool # None
          /\ creds = cmd[c].login /\ cmd[c].login # None
        BY <1>2, <2>1, RegistrationAssumption DEF Finalize, Logins
    <2>3. SameBut(c, IF cmd[c].asDefault THEN "setDefault" ELSE "succeeded",
                  cmd[c].reused, cmd[c].hadAuth, cmd[c].error)
        BY <1>1, <1>2, <2>2, GoEffect DEF Finalize, PC
    <2>4. /\ journal' \in [Pools -> {"none", "open", "done"}]
          /\ journal'[cmd[c].pool] = "done"
        BY <1>2, <2>1, <2>2 DEF Finalize, SetJournal
    <2> QED
        BY <1>2, <2>1, <2>2, <2>3, <2>4 DEF Finalize
<1>3. CASE SetDefault(c)
    <2>1. cmd[c].op = "add" /\ cmd[c].pool \in Pools /\ cmd[c].login \in Logins
        BY <1>1, <1>3 DEF SetDefault, IsCommand, Command
    <2>2. SameBut(c, "succeeded", cmd[c].reused, cmd[c].hadAuth, cmd[c].error)
        BY <1>1, <1>3, GoEffect DEF SetDefault, PC
    <2>3. /\ row = cmd[c].pool /\ cmd[c].pool # None
          /\ creds = cmd[c].login /\ cmd[c].login # None
        BY <1>3, <2>1, RegistrationAssumption DEF SetDefault, Logins
    <2> QED
        BY <1>3, <2>1, <2>2, <2>3 DEF SetDefault
<1>4. CASE Clear(c)
    <2>1. cmd[c].op = "add" /\ cmd[c].pool \in Pools /\ cmd[c].login \in Logins
        BY <1>1, <1>4 DEF Clear, IsCommand, Command
    <2>2. SameBut(c, "failed", cmd[c].reused, cmd[c].hadAuth, cmd[c].error)
        BY <1>1, <1>4, GoEffect DEF Clear, PC
    <2>3. journal' \in [Pools -> {"none", "open", "done"}]
        BY <1>4, <2>1 DEF Clear, SetJournal
    <2> QED
        BY <1>4, <2>1, <2>2, <2>3 DEF Clear
<1>5. CASE DeleteRead(c)
    <2>1. CASE row = None
        <3>1. SameBut(c, "failed", cmd[c].reused, cmd[c].hadAuth, "notRemoved")
            BY <1>1, <1>5, <2>1, RaiseEffect DEF DeleteRead, PC, Errors
        <3> QED
            BY <1>5, <2>1, <3>1 DEF DeleteRead
    <2>2. CASE row # None
        <3>1. SameBut(c, "delAuth", cmd[c].reused, cmd[c].hadAuth, cmd[c].error)
            BY <1>1, <1>5, <2>2, GoEffect DEF DeleteRead, PC
        <3> QED
            BY <1>5, <2>2, <3>1 DEF DeleteRead
    <2> QED
        BY <1>5, <2>1, <2>2 DEF DeleteRead
<1>6. CASE DeleteAuth(c)
    <2>1. SameBut(c, "delRow", cmd[c].reused, cmd[c].hadAuth, cmd[c].error)
        BY <1>1, <1>6, GoEffect DEF DeleteAuth, PC
    <2>2. cmd[c].op \in {"add", "remove"}
        BY <1>1 DEF IsCommand, Command
    <2>3. CASE cmd[c].op = "remove"
        BY <1>6, <2>1, <2>3 DEF DeleteAuth
    <2>4. CASE cmd[c].op = "add"
        <3>1. promised = None
            BY <1>6, <2>4 DEF DeleteAuth
        <3> QED
            BY <1>6, <2>1, <2>4, <3>1 DEF DeleteAuth
    <2> QED
        BY <2>2, <2>3, <2>4
<1>7. CASE DeleteRow(c)
    <2>1. promised = None
        BY <1>1, <1>7 DEF DeleteRow, IsCommand, Command
    <2>2. CASE row = None
        <3>1. SameBut(c, "failed", cmd[c].reused, cmd[c].hadAuth, "notRemoved")
            BY <1>1, <1>7, <2>2, RaiseEffect DEF DeleteRow, PC, Errors
        <3> QED
            BY <1>7, <2>1, <2>2, <3>1 DEF DeleteRow
    <2>3. CASE row # None
        <3>1. SameBut(c, IF cmd[c].op = "add" THEN "clear" ELSE "succeeded",
                      cmd[c].reused, cmd[c].hadAuth, cmd[c].error)
            BY <1>1, <1>7, <2>3, GoEffect DEF DeleteRow, PC
        <3> QED
            BY <1>7, <2>1, <2>3, <3>1 DEF DeleteRow
    <2> QED
        BY <1>7, <2>2, <2>3 DEF DeleteRow
<1> QED
    BY <1>2, <1>3, <1>4, <1>5, <1>6, <1>7

(* A command that is not under way, or has only its pool, has established  *)
(* nothing.                                                                *)
LEMMA BeforeAnyStep ==
    ASSUME NEW c \in Procs, TypeOK', PromiseKept', cmd'[c].op = "add",
           cmd'[c].pc \in {"idle", "failed", "login"},
           cmd'[c].pc = "login" => cmd'[c].pool \in Pools,
           cmd'[c].error \notin {"blocked", "missing", "inactive", "notRemoved"}
    PROVE  InvAt(c)'
<1>1. Shape(c)'
    BY DEF Shape, AtRest
<1>2. JournalAt(c)'
    BY DEF JournalAt
<1>3. AccountAt(c)'
    BY DEF AccountAt
<1>4. PromiseAt(c)'
    BY DEF PromiseAt
<1> QED
    BY <1>1, <1>2, <1>3, <1>4 DEF InvAt

(* Commands begin, fail and are interrupted.                               *)
LEMMA OtherSteps ==
    ASSUME NEW c \in Procs, InvAt(c),
           \/ \E named \in Pools \cup {None} : BeginAdd(c, named)
           \/ Login(c)
           \/ BeginRemove(c)
           \/ \E p \in Pools : Assign(c, p)
           \/ Error(c)
           \/ Crash(c)
    PROVE  InvAt(c)'
<1> USE DEF SameBut, InvAt, TypeOK, PromiseKept, CredentialsExist, Shape,
            JournalAt, AccountAt, PromiseAt, HasBackup, AtRest, At,
            tableVars, diskVars, countVars
<1>1. IsCommand(c)
    BY DEF IsCommand
<1>2. ASSUME NEW m \in Command, cmd' = [cmd EXCEPT ![c] = m]
      PROVE  cmd' \in [Procs -> Command] /\ cmd'[c] = m
    BY <1>1, <1>2 DEF IsCommand
<1>3. ASSUME NEW op \in {"add", "remove"}, NEW pc \in PC,
             NEW p \in Pools \cup {None}, NEW asDefault \in BOOLEAN
      PROVE  NewCommand(op, pc, p, asDefault) \in Command
    BY <1>3 DEF NewCommand, Command, Errors
<1>4. Idle \in Command
    BY <1>3 DEF Idle, PC
<1>5. ASSUME NEW named \in Pools \cup {None}, BeginAdd(c, named)
      PROVE  InvAt(c)'
    <2> DEFINE pool == IF named # None THEN named
                       ELSE IF default # None THEN default ELSE row
               asDefault == named # None /\ default = None
               none == [NewCommand("add", "failed", None, FALSE)
                           EXCEPT !.error = "noPool"]
               add == NewCommand("add", "login", pool, asDefault)
    <2>1. pool \in Pools \cup {None} /\ asDefault \in BOOLEAN
        OBVIOUS
    <2>2. cmd' = [cmd EXCEPT ![c] = IF pool = None THEN none ELSE add]
        BY <1>5 DEF BeginAdd
    <2>3. CASE pool = None
        <3>1. NewCommand("add", "failed", None, FALSE) \in Command
            BY <1>3 DEF PC
        <3>2. none \in Command /\ none.op = "add" /\ none.pc = "failed"
              /\ none.error = "noPool"
            BY <3>1 DEF NewCommand, Command, Errors
        <3>3. cmd' \in [Procs -> Command] /\ cmd'[c] = none
            BY <1>2, <2>2, <2>3, <3>2
        <3> HIDE DEF none, pool, add, asDefault
        <3> QED
            BY <1>5, <3>2, <3>3 DEF BeginAdd
    <2>4. CASE pool # None
        <3>1. add \in Command
            BY <1>3, <2>1 DEF PC
        <3>2. /\ add.op = "add" /\ add.pc = "login" /\ add.error = "none"
              /\ add.pool = pool
            BY DEF NewCommand
        <3>3. cmd' \in [Procs -> Command] /\ cmd'[c] = add
            BY <1>2, <2>2, <2>4, <3>1
        <3> HIDE DEF none, pool, add, asDefault
        <3>4. TypeOK' /\ PromiseKept'
            BY <1>5, <3>3 DEF BeginAdd
        <3>5. pool \in Pools
            BY <2>1, <2>4
        <3> HIDE DEF InvAt, TypeOK, PromiseKept
        <3> QED
            BY <3>2, <3>3, <3>4, <3>5, BeforeAnyStep
    <2> QED
        BY <2>3, <2>4
<1>6. CASE Login(c)
    <2> DEFINE m == [cmd[c] EXCEPT !.pc = "reconcile", !.login = logins + 1]
    <2>1. cmd[c] \in Command /\ cmd[c].op = "add" /\ cmd[c].pool \in Pools
        BY <1>1, <1>6 DEF Login, IsCommand, Command
    <2>2. logins' \in 0 .. MaxLogins /\ logins + 1 \in Logins
        BY <1>6, RegistrationAssumption DEF Login, Logins
    <2>3. m \in Command
        BY <2>1, <2>2 DEF Command, PC
    <2>4. /\ m.op = "add" /\ m.pc = "reconcile" /\ m.pool = cmd[c].pool
          /\ m.login = logins + 1 /\ m.error = cmd[c].error
        BY <2>1 DEF Command
    <2>5. cmd' = [cmd EXCEPT ![c] = m]
        BY <1>6 DEF Login
    <2> HIDE DEF m
    <2>6. cmd' \in [Procs -> Command] /\ cmd'[c] = m
        BY <1>2, <2>3, <2>5
    <2> QED
        BY <1>6, <2>1, <2>2, <2>4, <2>6 DEF Login
<1>7. CASE BeginRemove(c)
    <2> DEFINE m == NewCommand("remove", "delRead", None, FALSE)
    <2>1. m \in Command
        BY <1>3 DEF PC
    <2>2. cmd' \in [Procs -> Command] /\ cmd'[c] = m
        BY <1>2, <1>7, <2>1 DEF BeginRemove
    <2>3. m.op = "remove" /\ m.pc = "delRead"
        BY DEF NewCommand
    <2> HIDE DEF m
    <2> QED
        BY <1>7, <2>2, <2>3 DEF BeginRemove
<1>8. Idle.op = "add" /\ Idle.pc = "idle" /\ Idle.error = "none"
    BY DEF Idle, NewCommand
<1>9. ASSUME NEW p \in Pools, Assign(c, p)
      PROVE  InvAt(c)'
    <2>1. cmd' \in [Procs -> Command] /\ cmd'[c] = Idle
        BY <1>2, <1>4, <1>9 DEF Assign
    <2>2. p # None
        BY RegistrationAssumption
    <2>3. TypeOK'
        BY <1>9, <2>1 DEF Assign
    <2>4. PromiseKept'
        BY <1>9, <2>2 DEF Assign
    <2> HIDE DEF InvAt, TypeOK, PromiseKept
    <2> QED
        BY <1>8, <2>1, <2>3, <2>4, BeforeAnyStep
<1>10. CASE Crash(c)
    <2>1. cmd' \in [Procs -> Command] /\ cmd'[c] = Idle
        BY <1>2, <1>4, <1>10 DEF Crash
    <2>2. crashes' \in 0 .. MaxCrashes
        BY <1>10, RegistrationAssumption DEF Crash
    <2>3. TypeOK'
        BY <1>10, <2>1, <2>2 DEF Crash
    <2>4. PromiseKept'
        BY <1>10 DEF Crash
    <2> HIDE DEF InvAt, TypeOK, PromiseKept
    <2> QED
        BY <1>8, <2>1, <2>3, <2>4, BeforeAnyStep
<1>11. CASE Error(c)
    <2> DEFINE pc == AfterError(c)
               error == IF At(c, "dropBackup") THEN "none" ELSE "io"
    <2>1. pc \in PC /\ error \in {"none", "io"}
        BY DEF AfterError, AfterFinalizeError, PC
    <2>2. SameBut(c, pc, cmd[c].reused, cmd[c].hadAuth, error)
        <3>1. Raise(c, error, pc) /\ error \in Errors
            BY <1>11, <2>1 DEF Error, Errors
        <3> HIDE DEF pc, error, SameBut
        <3> QED
            BY <1>1, <2>1, <3>1, RaiseEffect
    <2>3. errors' \in 0 .. MaxErrors
        BY <1>11, RegistrationAssumption DEF Error
    <2>4. cmd[c].op \in {"add", "remove"}
        BY <1>1 DEF IsCommand, Command
    <2>5. CASE cmd[c].pc \in {"stage", "backup", "putBack"}
        BY <1>11, <2>1, <2>2, <2>3, <2>4, <2>5 DEF Error, AfterError
    <2>6. CASE cmd[c].pc \in {"install", "upsert", "readBack"}
        BY <1>11, <2>1, <2>2, <2>3, <2>4, <2>6 DEF Error, AfterError
    <2>7. CASE cmd[c].pc \in {"undo", "dropBackup"}
        <3>1. CASE cmd[c].pc = "undo"
            BY <1>11, <2>1, <2>2, <2>3, <2>4, <3>1 DEF Error, AfterError
        <3>2. CASE cmd[c].pc = "dropBackup"
            <4>1. pc = "finalize"
                BY <3>2 DEF AfterError
            <4>2. /\ cmd[c].op = "add" /\ cmd[c].pool \in Pools
                  /\ cmd[c].login \in Logins
                BY <2>4, <3>2
            <4>3. /\ journal[cmd[c].pool] = "open"
                  /\ row = cmd[c].pool /\ creds = cmd[c].login
                  /\ ~cmd[c].reused => promised = None
                BY <3>2, <4>2
            <4> HIDE DEF pc
            <4>4. error = "none"
                BY <3>2
            <4> HIDE DEF error
            <4>5. TypeOK'
                BY <1>11, <2>2, <2>3 DEF Error
            <4>6. PromiseKept'
                BY <1>11 DEF Error
            <4> QED
                BY <1>11, <2>2, <4>1, <4>2, <4>3, <4>4, <4>5, <4>6 DEF Error
        <3> QED
            BY <2>7, <3>1, <3>2
    <2>8. CASE cmd[c].pc = "finalize"
        <3>1. row # None
            BY <2>4, <2>8, RegistrationAssumption
        <3> QED
            BY <1>11, <2>1, <2>2, <2>3, <2>4, <2>8, <3>1
               DEF Error, AfterError, AfterFinalizeError
    <2>9. CASE cmd[c].pc \notin {"stage", "backup", "putBack", "install", "upsert",
                                "readBack", "undo", "dropBackup", "finalize"}
        <3>1. pc = "failed"
            BY <2>9 DEF AfterError
        <3>2. TypeOK' /\ PromiseKept'
            BY <1>11, <2>2, <2>3 DEF Error
        <3> HIDE DEF pc
        <3> QED
            BY <2>1, <2>2, <2>4, <3>1, <3>2
    <2> QED
        BY <2>5, <2>6, <2>7, <2>8, <2>9
<1> QED
    BY <1>5, <1>6, <1>7, <1>9, <1>10, <1>11

-----------------------------------------------------------------------------
(* The invariant.                                                          *)
LEMMA RegInvInit == RegInit => RegInv
<1> SUFFICES ASSUME RegInit
             PROVE  RegInv
    OBVIOUS
<1>1. Idle \in Command
    BY DEF Idle, NewCommand, Command, PC, AtRest, Errors
<1>2. \A c \in Procs : cmd[c] = Idle
    BY DEF RegInit
<1>3. Idle.op = "add" /\ Idle.pc = "idle" /\ Idle.error = "none"
    BY DEF Idle, NewCommand
<1>4. TypeOK
    BY <1>1, RegistrationAssumption DEF RegInit, TypeOK
<1>5. PromiseKept
    BY DEF RegInit, PromiseKept
<1>6. SuccessIsComplete /\ NothingBlocks
    BY <1>2, <1>3 DEF SuccessIsComplete, NothingBlocks, At
<1>7. ASSUME NEW c \in Procs
      PROVE  Shape(c) /\ JournalAt(c) /\ AccountAt(c) /\ PromiseAt(c)
    <2>1. cmd[c].op = "add" /\ cmd[c].pc = "idle"
        BY <1>2, <1>3
    <2>2. Shape(c) /\ JournalAt(c)
        BY <2>1 DEF Shape, JournalAt
    <2> QED
        BY <2>1, <2>2 DEF AccountAt, PromiseAt
<1> QED
    BY <1>4, <1>5, <1>6, <1>7 DEF RegInv

LEMMA RegInvStep ==
    ASSUME OneTerminal, RegInv, [RegNext]_regVars
    PROVE  RegInv'
<1>1. CASE RegNext
    <2>1. PICK c \in Procs :
              \/ \E named \in Pools \cup {None} : BeginAdd(c, named)
              \/ BeginRemove(c)
              \/ \E p \in Pools : Assign(c, p)
              \/ RegStep(c)
              \/ Error(c)
              \/ Crash(c)
        BY <1>1 DEF RegNext
    <2>2. InvAt(c)
        BY InvAtOne
    <2>3. InvAt(c)'
        BY <2>1, <2>2, JournalSteps, RegisterSteps, EndSteps, OtherSteps
           DEF RegStep
    <2> QED
        BY <2>3, InvAtOne
<1>2. CASE UNCHANGED regVars
    BY <1>2 DEF regVars, RegInv, TypeOK, PromiseKept, CredentialsExist,
        SuccessIsComplete, NothingBlocks, At, Shape, JournalAt, AccountAt,
        PromiseAt, HasBackup
<1> QED
    BY <1>1, <1>2

(* In one terminal, whatever fails or is interrupted, a command finds the  *)
(* journal, the directory and the registry as its steps so far left them.  *)
THEOREM RegistrationInvariant ==
    ASSUME OneTerminal
    PROVE  RegSpec => []RegInv
<1>1. RegInv /\ [RegNext]_regVars => RegInv'
    BY RegInvStep
<1> QED
    BY <1>1, RegInvInit, PTL DEF RegSpec

(* An add that was reported as a success is not undone by a later add that *)
(* fails, is interrupted or rolls back.                                    *)
THEOREM RegistrationPromise ==
    ASSUME OneTerminal
    PROVE  RegSpec => []PromiseKept
<1>1. RegInv => PromiseKept
    BY DEF RegInv
<1> QED
    BY <1>1, RegistrationInvariant, PTL

(* A reported success has the account, the credentials of this login, the  *)
(* journal row and the default in place.                                   *)
THEOREM RegistrationComplete ==
    ASSUME OneTerminal
    PROVE  RegSpec => []SuccessIsComplete
<1>1. RegInv => SuccessIsComplete
    BY DEF RegInv
<1> QED
    BY <1>1, RegistrationInvariant, PTL

(* No remains of an earlier command make an add fail.                      *)
THEOREM RegistrationNothingBlocks ==
    ASSUME OneTerminal
    PROVE  RegSpec => []NothingBlocks
<1>1. RegInv => NothingBlocks
    BY DEF RegInv
<1> QED
    BY <1>1, RegistrationInvariant, PTL

-----------------------------------------------------------------------------
(* One fault.                                                              *)
Faults == errors + crashes

Orphan == creds # None /\ row = None

OnRecord == \E p \in Pools : journal[p] = "open"

(* Credentials without an account: after one fault they are on record or a *)
(* command is about to put them there; without one they are those of a     *)
(* command that is about to write the account.  The rest says which steps  *)
(* a command reaches only after a fault.                                   *)
FaultAt(c) ==
    /\ (Faults <= 1 /\ Orphan) =>
          \/ OnRecord
          \/ Faults = 1 /\ cmd[c].pc \in {"recheck", "clearDone", "lookup",
                                          "scan", "create"}
    /\ (Faults = 0 /\ Orphan) => cmd[c].pc = "upsert"
    /\ (cmd[c].pc \in {"install", "upsert"} /\ cmd[c].hadAuth /\ row = None)
          => Faults >= 1
    /\ cmd[c].pc \in {"undo", "putBack"} => Faults >= 1
    /\ (cmd[c].pc \in {"undo", "putBack"} /\ cmd[c].hadAuth /\ row = None)
          => Faults >= 2
    /\ (cmd[c].pc = "clear" /\ Orphan) => Faults >= 2
    /\ cmd[c].pc = "putBack" => cmd[c].hadAuth
    /\ cmd[c].pc = "delRow" => creds = None

FaultInv == \A c \in Procs : FaultAt(c)

(* The steps up to the journal row keep an orphan in reach of it.           *)
LEMMA JournalFaults ==
    ASSUME NEW c \in Procs, InvAt(c), FaultAt(c),
           \/ Reconcile(c) \/ Recheck(c) \/ ClearPending(c)
           \/ Lookup(c) \/ Scan(c) \/ Create(c)
    PROVE  FaultAt(c)'
<1>0. /\ IsCommand(c) /\ cmd[c] \in Command
      /\ Shape(c) /\ JournalAt(c) /\ AccountAt(c)
      /\ journal \in [Pools -> {"none", "open", "done"}]
      /\ Faults \in Nat
    BY RegistrationAssumption DEF InvAt, TypeOK, IsCommand, Faults
<1>1. cmd[c].op \in {"add", "remove"} /\ cmd[c].hadAuth \in BOOLEAN
    BY <1>0 DEF Command
<1>2. CASE Reconcile(c)
    <2>1. SameBut(c, IF journal[cmd[c].pool] = "open" THEN "clearOpen" ELSE "recheck",
                  cmd[c].reused, cmd[c].hadAuth, cmd[c].error)
        BY <1>2, <1>0, GoEffect DEF Reconcile, PC, AtRest, At
    <2> QED
        BY <1>2, <1>0, <1>1, <2>1
           DEF Reconcile, FaultAt, Faults, Orphan, OnRecord, SameBut, At,
               tableVars, diskVars, countVars
<1>3. CASE Recheck(c)
    <2>1. SameBut(c, IF journal[cmd[c].pool] = "done" THEN "clearDone" ELSE "lookup",
                  cmd[c].reused, cmd[c].hadAuth, cmd[c].error)
        BY <1>3, <1>0, GoEffect DEF Recheck, PC, AtRest, At
    <2> QED
        BY <1>3, <1>0, <1>1, <2>1
           DEF Recheck, FaultAt, Faults, Orphan, OnRecord, SameBut, At,
               tableVars, diskVars, countVars
<1>4. CASE ClearPending(c)
    <2>1. At(c, "clearDone") => OnRecord = OnRecord'
        BY <1>4, <1>0, <1>1 DEF ClearPending, SetJournal, OnRecord, Shape,
            JournalAt, At, AtRest
    <2>2. SameBut(c, IF At(c, "clearOpen") THEN "recheck" ELSE "lookup",
                  cmd[c].reused, cmd[c].hadAuth, cmd[c].error)
        BY <1>4, <1>0, <2>1, GoEffect DEF ClearPending, PC, AtRest, At
    <2> QED
        BY <1>4, <1>0, <1>1, <2>1, <2>2
           DEF ClearPending, FaultAt, Faults, Orphan, OnRecord, SameBut, At,
               tableVars, diskVars, countVars
<1>5. CASE Lookup(c)
    <2>1. SameBut(c, "scan", row # None, cmd[c].hadAuth, cmd[c].error)
        BY <1>5, <1>0, ReusedEffect DEF Lookup, PC
    <2> QED
        BY <1>5, <1>0, <1>1, <2>1
           DEF Lookup, FaultAt, Faults, Orphan, OnRecord, SameBut, At,
               tableVars, diskVars, countVars
<1>6. CASE Scan(c)
    <2>1. CASE row \notin {None, cmd[c].pool}
        <3>1. SameBut(c, "failed", cmd[c].reused, cmd[c].hadAuth, "otherPool")
            BY <1>6, <1>0, <2>1, RaiseEffect DEF Scan, PC, AtRest, Errors
        <3> QED
            BY <1>6, <1>0, <1>1, <2>1, <3>1
               DEF Scan, FaultAt, Faults, Orphan, OnRecord, SameBut, At,
                   tableVars, diskVars, countVars
    <2>2. CASE row \in {None, cmd[c].pool}
        <3>1. SameBut(c, "create", cmd[c].reused \/ row # None,
                      cmd[c].hadAuth, cmd[c].error)
            BY <1>6, <1>0, <1>1, <2>2, ReusedEffect DEF Scan, PC, Command
        <3> QED
            BY <1>6, <1>0, <1>1, <2>2, <3>1
               DEF Scan, FaultAt, Faults, Orphan, OnRecord, SameBut, At,
                   tableVars, diskVars, countVars
    <2> QED
        BY <2>1, <2>2
<1>7. CASE Create(c)
    <2>1. OnRecord'
        <3>1. cmd[c].pool \in Pools /\ journal[cmd[c].pool] # "done"
            BY <1>7, <1>0, <1>1 DEF Create, Shape, JournalAt, At, AtRest
        <3> QED
            BY <1>7, <1>0, <3>1 DEF Create, SetJournal, OnRecord
    <2>2. SameBut(c, "stage",
                  cmd[c].reused, cmd[c].hadAuth, cmd[c].error)
        BY <1>7, <1>0, <2>1, GoEffect DEF Create, PC, AtRest, At
    <2> QED
        BY <1>7, <1>0, <1>1, <2>1, <2>2
           DEF Create, FaultAt, Faults, Orphan, OnRecord, SameBut, At,
               tableVars, diskVars, countVars
<1> QED
    BY <1>2, <1>3, <1>4, <1>5, <1>6, <1>7

(* register_account rolls back what it leaves without an account.          *)
LEMMA RegisterFaults ==
    ASSUME NEW c \in Procs, InvAt(c), FaultAt(c),
           \/ Stage(c) \/ Backup(c) \/ Install(c) \/ Upsert(c) \/ ReadBack(c)
           \/ DropBackup(c) \/ Undo(c) \/ PutBack(c)
    PROVE  FaultAt(c)'
<1>0. /\ IsCommand(c) /\ cmd[c] \in Command
      /\ Shape(c) /\ JournalAt(c) /\ AccountAt(c)
      /\ journal \in [Pools -> {"none", "open", "done"}]
      /\ Faults \in Nat
    BY RegistrationAssumption DEF InvAt, TypeOK, IsCommand, Faults
<1>1. cmd[c].op \in {"add", "remove"} /\ cmd[c].hadAuth \in BOOLEAN
    BY <1>0 DEF Command
<1>2. CASE Stage(c)
    <2> DEFINE pc == IF creds # None THEN "backup" ELSE "install"
               had == creds # None
    <2>1. SameBut(c, pc, cmd[c].reused, had, cmd[c].error)
        <3>1. pc \in PC /\ had \in BOOLEAN
            BY DEF PC
        <3>2. cmd' = [cmd EXCEPT ![c].pc = pc, ![c].hadAuth = had]
            BY <1>2 DEF Stage
        <3> HIDE DEF pc, had
        <3> QED
            BY <1>0, <3>1, <3>2, HadAuthEffect
    <2>2. cmd'[c].pc \in {"backup", "install"} /\ cmd[c].pc = "stage"
        BY <1>2, <2>1 DEF Stage, SameBut, At
    <2>3. cmd'[c].pc = "install" => ~cmd'[c].hadAuth
        BY <2>1 DEF SameBut
    <2>4. Faults' = Faults /\ Orphan' = Orphan /\ OnRecord' = OnRecord
        BY <1>2 DEF Stage, Faults, Orphan, OnRecord, tableVars, diskVars, countVars
    <2> QED
        BY <2>2, <2>3, <2>4 DEF FaultAt
<1>3. CASE Backup(c)
    <2>1. creds # None
        BY <1>3, <1>0 DEF Backup, AccountAt, At
    <2>2. SameBut(c, "install",
                  cmd[c].reused, cmd[c].hadAuth, cmd[c].error)
        BY <1>3, <1>0, <2>1, GoEffect DEF Backup, PC, AtRest, At
    <2> QED
        BY <1>3, <1>0, <1>1, <2>1, <2>2
           DEF Backup, FaultAt, Faults, Orphan, OnRecord, SameBut, At,
               tableVars, diskVars, countVars
<1>4. CASE Install(c)
    <2>1. creds = None /\ OnRecord
        BY <1>4, <1>0, <1>1 DEF Install, Shape, JournalAt, AccountAt, OnRecord, At, AtRest
    <2>2. SameBut(c, "upsert",
                  cmd[c].reused, cmd[c].hadAuth, cmd[c].error)
        BY <1>4, <1>0, <2>1, GoEffect DEF Install, PC, AtRest, At
    <2> QED
        BY <1>4, <1>0, <1>1, <2>1, <2>2
           DEF Install, FaultAt, Faults, Orphan, OnRecord, SameBut, At,
               tableVars, diskVars, countVars
<1>5. CASE Upsert(c)
    <2>1. row' # None
        BY <1>5, <1>0, <1>1, RegistrationAssumption DEF Upsert, Shape, At, AtRest
    <2>2. SameBut(c, "readBack",
                  cmd[c].reused, cmd[c].hadAuth, cmd[c].error)
        BY <1>5, <1>0, <2>1, GoEffect DEF Upsert, PC, AtRest, At
    <2> QED
        BY <1>5, <1>0, <1>1, <2>1, <2>2
           DEF Upsert, FaultAt, Faults, Orphan, OnRecord, SameBut, At,
               tableVars, diskVars, countVars
<1>6. CASE ReadBack(c)
    <2>1. row # None
        BY <1>6, <1>0, <1>1, RegistrationAssumption
           DEF ReadBack, Shape, AccountAt, At, AtRest
    <2>2. SameBut(c, IF cmd[c].hadAuth THEN "dropBackup" ELSE "finalize",
                  cmd[c].reused, cmd[c].hadAuth, cmd[c].error)
        BY <1>6, <1>0, <2>1, GoEffect DEF ReadBack, PC, AtRest, At
    <2> QED
        BY <1>6, <1>0, <1>1, <2>1, <2>2
           DEF ReadBack, FaultAt, Faults, Orphan, OnRecord, SameBut, At,
               tableVars, diskVars, countVars
<1>7. CASE DropBackup(c)
    <2>1. row # None
        BY <1>7, <1>0, <1>1, RegistrationAssumption
           DEF DropBackup, Shape, AccountAt, At, AtRest
    <2>2. SameBut(c, "finalize",
                  cmd[c].reused, cmd[c].hadAuth, cmd[c].error)
        BY <1>7, <1>0, <2>1, GoEffect DEF DropBackup, PC, AtRest, At
    <2> QED
        BY <1>7, <1>0, <1>1, <2>1, <2>2
           DEF DropBackup, FaultAt, Faults, Orphan, OnRecord, SameBut, At,
               tableVars, diskVars, countVars
<1>8. CASE Undo(c)
    <2>1. SameBut(c, IF cmd[c].hadAuth THEN "putBack" ELSE "clear",
                  cmd[c].reused, cmd[c].hadAuth, cmd[c].error)
        BY <1>8, <1>0, GoEffect DEF Undo, PC, AtRest, At
    <2> QED
        BY <1>8, <1>0, <1>1, <2>1
           DEF Undo, FaultAt, Faults, Orphan, OnRecord, SameBut, At,
               tableVars, diskVars, countVars
<1>9. CASE PutBack(c)
    <2>1. SameBut(c, "clear",
                  cmd[c].reused, cmd[c].hadAuth, cmd[c].error)
        BY <1>9, <1>0, GoEffect DEF PutBack, PC, AtRest, At
    <2> QED
        BY <1>9, <1>0, <1>1, <2>1
           DEF PutBack, FaultAt, Faults, Orphan, OnRecord, SameBut, At,
               tableVars, diskVars, countVars
<1> QED
    BY <1>2, <1>3, <1>4, <1>5, <1>6, <1>7, <1>8, <1>9

(* The end of a registration, and delete_registered_account.               *)
LEMMA EndFaults ==
    ASSUME NEW c \in Procs, InvAt(c), FaultAt(c),
           \/ Finalize(c) \/ SetDefault(c) \/ Clear(c)
           \/ DeleteRead(c) \/ DeleteAuth(c) \/ DeleteRow(c)
    PROVE  FaultAt(c)'
<1>0. /\ IsCommand(c) /\ cmd[c] \in Command
      /\ Shape(c) /\ JournalAt(c) /\ AccountAt(c)
      /\ journal \in [Pools -> {"none", "open", "done"}]
      /\ Faults \in Nat
    BY RegistrationAssumption DEF InvAt, TypeOK, IsCommand, Faults
<1>1. cmd[c].op \in {"add", "remove"} /\ cmd[c].hadAuth \in BOOLEAN
    BY <1>0 DEF Command
<1>2. CASE Finalize(c)
    <2>1. journal[cmd[c].pool] = "open" /\ row # None
        BY <1>2, <1>0, <1>1, RegistrationAssumption
           DEF Finalize, Shape, JournalAt, AccountAt, At, AtRest
    <2>2. SameBut(c, IF cmd[c].asDefault THEN "setDefault" ELSE "succeeded",
                  cmd[c].reused, cmd[c].hadAuth, cmd[c].error)
        BY <1>2, <1>0, <2>1, GoEffect DEF Finalize, PC, AtRest, At
    <2> QED
        BY <1>2, <1>0, <1>1, <2>1, <2>2
           DEF Finalize, FaultAt, Faults, Orphan, OnRecord, SameBut, At,
               tableVars, diskVars, countVars
<1>3. CASE SetDefault(c)
    <2>1. row # None
        BY <1>3, <1>0, <1>1, RegistrationAssumption
           DEF SetDefault, Shape, AccountAt, At, AtRest
    <2>2. SameBut(c, "succeeded",
                  cmd[c].reused, cmd[c].hadAuth, cmd[c].error)
        BY <1>3, <1>0, <2>1, GoEffect DEF SetDefault, PC, AtRest, At
    <2> QED
        BY <1>3, <1>0, <1>1, <2>1, <2>2
           DEF SetDefault, FaultAt, Faults, Orphan, OnRecord, SameBut, At,
               tableVars, diskVars, countVars
<1>4. CASE Clear(c)
    <2>1. SameBut(c, "failed",
                  cmd[c].reused, cmd[c].hadAuth, cmd[c].error)
        BY <1>4, <1>0, GoEffect DEF Clear, PC, AtRest, At
    <2> QED
        BY <1>4, <1>0, <1>1, <2>1
           DEF Clear, FaultAt, Faults, Orphan, OnRecord, SameBut, At,
               tableVars, diskVars, countVars
<1>5. CASE DeleteRead(c)
    <2>1. CASE row = None
        <3>1. SameBut(c, "failed", cmd[c].reused, cmd[c].hadAuth, "notRemoved")
            BY <1>5, <1>0, <2>1, RaiseEffect DEF DeleteRead, PC, AtRest, Errors
        <3> QED
            BY <1>5, <1>0, <1>1, <2>1, <3>1
               DEF DeleteRead, FaultAt, Faults, Orphan, OnRecord, SameBut, At,
                   tableVars, diskVars, countVars
    <2>2. CASE row # None
        <3>1. SameBut(c, "delAuth", cmd[c].reused, cmd[c].hadAuth, cmd[c].error)
            BY <1>5, <1>0, <2>2, GoEffect DEF DeleteRead, PC
        <3> QED
            BY <1>5, <1>0, <1>1, <2>2, <3>1
               DEF DeleteRead, FaultAt, Faults, Orphan, OnRecord, SameBut, At,
                   tableVars, diskVars, countVars
    <2> QED
        BY <2>1, <2>2
<1>6. CASE DeleteAuth(c)
    <2>1. SameBut(c, "delRow",
                  cmd[c].reused, cmd[c].hadAuth, cmd[c].error)
        BY <1>6, <1>0, GoEffect DEF DeleteAuth, PC, AtRest, At
    <2> QED
        BY <1>6, <1>0, <1>1, <2>1
           DEF DeleteAuth, FaultAt, Faults, Orphan, OnRecord, SameBut, At,
               tableVars, diskVars, countVars
<1>7. CASE DeleteRow(c)
    <2>1. creds' = None
        BY <1>7 DEF DeleteRow, FaultAt, At, diskVars
    <2>2. CASE row = None
        <3>1. SameBut(c, "failed", cmd[c].reused, cmd[c].hadAuth, "notRemoved")
            BY <1>7, <1>0, <2>2, RaiseEffect DEF DeleteRow, PC, AtRest, Errors
        <3> QED
            BY <2>1, <3>1 DEF FaultAt, Orphan, SameBut
    <2>3. CASE row # None
        <3>1. SameBut(c, IF cmd[c].op = "add" THEN "clear" ELSE "succeeded",
                      cmd[c].reused, cmd[c].hadAuth, cmd[c].error)
            BY <1>7, <1>0, <2>3, GoEffect DEF DeleteRow, PC, AtRest
        <3> QED
            BY <2>1, <3>1 DEF FaultAt, Orphan, SameBut
    <2> QED
        BY <2>2, <2>3
<1> QED
    BY <1>2, <1>3, <1>4, <1>5, <1>6, <1>7

(* Commands begin, fail and are interrupted.                               *)
LEMMA OtherFaults ==
    ASSUME NEW c \in Procs, InvAt(c), FaultAt(c),
           \/ \E named \in Pools \cup {None} : BeginAdd(c, named)
           \/ Login(c)
           \/ BeginRemove(c)
           \/ \E p \in Pools : Assign(c, p)
           \/ Error(c)
           \/ Crash(c)
    PROVE  FaultAt(c)'
<1>0. /\ IsCommand(c) /\ cmd[c] \in Command
      /\ Shape(c) /\ JournalAt(c) /\ AccountAt(c)
      /\ journal \in [Pools -> {"none", "open", "done"}]
      /\ Faults \in Nat
    BY RegistrationAssumption DEF InvAt, TypeOK, IsCommand, Faults
<1>1. cmd[c].op \in {"add", "remove"} /\ cmd[c].hadAuth \in BOOLEAN
    BY <1>0 DEF Command
<1>2. CASE \E named \in Pools \cup {None} : BeginAdd(c, named)
    <2>1. cmd'[c].pc \in {"failed", "login"}
        BY <1>2, <1>0 DEF BeginAdd, NewCommand, IsCommand
    <2> QED
        BY <1>2, <1>0, <2>1
           DEF BeginAdd, FaultAt, Faults, Orphan, OnRecord, AtRest,
               tableVars, diskVars, countVars
<1>3. CASE Login(c)
    <2>1. cmd'[c].pc = "reconcile"
        BY <1>3, <1>0 DEF Login, IsCommand, Command
    <2> QED
        BY <1>3, <1>0, <2>1
           DEF Login, FaultAt, Faults, Orphan, OnRecord, At, tableVars, diskVars
<1>4. CASE BeginRemove(c)
    <2>1. cmd'[c].pc = "delRead"
        BY <1>4, <1>0 DEF BeginRemove, NewCommand, IsCommand
    <2> QED
        BY <1>4, <1>0, <2>1
           DEF BeginRemove, FaultAt, Faults, Orphan, OnRecord, AtRest,
               tableVars, diskVars, countVars
<1>5. CASE \E p \in Pools : Assign(c, p)
    <2>1. cmd'[c].pc = "idle"
        BY <1>5, <1>0 DEF Assign, Idle, NewCommand, IsCommand
    <2>2. row' # None
        BY <1>5, RegistrationAssumption DEF Assign
    <2> QED
        BY <2>1, <2>2 DEF FaultAt, Orphan
<1>6. CASE Crash(c)
    <2>1. cmd'[c].pc = "idle"
        BY <1>6, <1>0 DEF Crash, Idle, NewCommand, IsCommand
    <2>2. Faults' = Faults + 1
        BY <1>6, RegistrationAssumption DEF Crash, Faults, InvAt, TypeOK
    <2>3. Orphan' = Orphan /\ OnRecord' = OnRecord
        BY <1>6 DEF Crash, Orphan, OnRecord, tableVars, diskVars
    <2>4. (Faults = 0 /\ Orphan) => OnRecord
        BY <1>0 DEF FaultAt
    <2> QED
        BY <1>0, <2>1, <2>2, <2>3, <2>4 DEF FaultAt
<1>7. CASE Error(c)
    <2> DEFINE pc == AfterError(c)
               error == IF At(c, "dropBackup") THEN "none" ELSE "io"
    <2>1. pc \in PC
        BY DEF AfterError, AfterFinalizeError, PC, AtRest
    <2>2. SameBut(c, pc, cmd[c].reused, cmd[c].hadAuth, error)
        <3>1. Raise(c, error, pc) /\ error \in Errors
            BY <1>7 DEF Error, Errors
        <3> HIDE DEF pc, error
        <3> QED
            BY <1>0, <2>1, <3>1, RaiseEffect
    <2> HIDE DEF error
    <2>3. Faults' = Faults + 1
        BY <1>7, RegistrationAssumption DEF Error, Faults, InvAt, TypeOK
    <2>4. Orphan' = Orphan /\ OnRecord' = OnRecord /\ row' = row /\ creds' = creds
        BY <1>7 DEF Error, Orphan, OnRecord, tableVars, diskVars
    <2>5. (Faults = 0 /\ Orphan) => OnRecord
        BY <1>0 DEF FaultAt
    <2>6. pc = "putBack" => cmd[c].hadAuth
        BY DEF AfterError, AfterFinalizeError
    <2>7. pc \notin {"install", "upsert", "delRow"}
        BY DEF AfterError, AfterFinalizeError
    <2>8. (pc \in {"undo", "putBack"} /\ cmd[c].hadAuth /\ row = None)
             => Faults >= 1
        <3>1. pc \in {"undo", "putBack"} =>
                 cmd[c].pc \in {"install", "upsert", "readBack", "undo"}
            BY DEF AfterError, AfterFinalizeError, At
        <3>2. cmd[c].pc = "readBack" => row # None
            BY <1>0, <1>1, RegistrationAssumption DEF Shape, AccountAt, AtRest
        <3> HIDE DEF pc
        <3> QED
            BY <3>1, <3>2 DEF FaultAt
    <2>9. (pc = "clear" /\ Orphan) => Faults >= 1
        BY <1>0, RegistrationAssumption
           DEF AfterError, AfterFinalizeError, FaultAt, AccountAt, Shape, At, AtRest
    <2> HIDE DEF pc
    <2> QED
        BY <1>0, <2>2, <2>3, <2>4, <2>5, <2>6, <2>7, <2>8, <2>9
           DEF FaultAt, SameBut
<1> QED
    BY <1>2, <1>3, <1>4, <1>5, <1>6, <1>7

LEMMA FaultInvStep ==
    ASSUME OneTerminal, RegInv, FaultInv, [RegNext]_regVars
    PROVE  FaultInv'
<1>1. CASE RegNext
    <2>1. PICK c \in Procs :
              \/ \E named \in Pools \cup {None} : BeginAdd(c, named)
              \/ BeginRemove(c)
              \/ \E p \in Pools : Assign(c, p)
              \/ RegStep(c)
              \/ Error(c)
              \/ Crash(c)
        BY <1>1 DEF RegNext
    <2>2. InvAt(c) /\ FaultAt(c)
        BY InvAtOne DEF FaultInv
    <2>3. FaultAt(c)'
        BY <2>1, <2>2, JournalFaults, RegisterFaults, EndFaults, OtherFaults
           DEF RegStep
    <2>4. \A d \in Procs : d = c
        BY DEF OneTerminal
    <2> QED
        BY <2>3, <2>4 DEF FaultInv
<1>2. CASE UNCHANGED regVars
    BY <1>2 DEF regVars, FaultInv, FaultAt, Faults, Orphan, OnRecord
<1> QED
    BY <1>1, <1>2

(* After one failed operation or one interrupted command, credentials      *)
(* without an account have an open journal row once the command has ended. *)
THEOREM RegistrationOneFault ==
    ASSUME OneTerminal
    PROVE  RegSpec => []FaultIsOnRecord
<1>1. RegInit => FaultInv
    <2> SUFFICES ASSUME RegInit, NEW c \in Procs
                 PROVE  FaultAt(c)
        BY DEF FaultInv
    <2>1. ~Orphan /\ creds = None
        BY DEF RegInit, Orphan
    <2>2. cmd[c].pc = "idle"
        BY DEF RegInit, Idle, NewCommand
    <2> QED
        BY <2>1, <2>2 DEF FaultAt
<1>2. FaultInv => FaultIsOnRecord
    <2>1. PICK c : Procs = {c}
        BY DEF OneTerminal
    <2> SUFFICES ASSUME FaultAt(c), Faults <= 1, Orphan, cmd[c].pc \in AtRest
                 PROVE  OnRecord
        BY <2>1 DEF FaultIsOnRecord, OrphansOnRecord, FaultInv, Faults, Orphan,
            OnRecord
    <2> QED
        BY DEF FaultAt, AtRest
<1> QED
    BY <1>1, <1>2, FaultInvStep, RegistrationInvariant, PTL DEF RegSpec
=============================================================================
