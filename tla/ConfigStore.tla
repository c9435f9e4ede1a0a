------------------------------ MODULE ConfigStore ------------------------------
(***************************************************************************)
(* The configuration of config/config.go: one value in memory under        *)
(* cfgLock, saved as a whole to a primary file through a temporary file    *)
(* and a rename, with the previous contents copied to a backup.            *)
(*                                                                         *)
(* Of the configuration the model keeps the fields of one account that     *)
(* different goroutines write.  A file is its contents and what a power    *)
(* loss may leave of it: what was not synced may be there, or not.         *)
(***************************************************************************)
EXTENDS Naturals

CONSTANTS
  Goroutines,  \* administrators, requests and background workers
  Main,        \* the goroutine that loads the configuration at the start
  None,        \* no goroutine, no configuration, no account record
  Absent,      \* a file that does not exist
  Corrupt,     \* contents that are not a configuration
  MaxEdits,    \* bound: setters called
  MaxCrashes,  \* bound: kills and power losses
  MaxDamage,   \* bound: times something else corrupts the primary
  Mixes        \* what happens: each behaviour has one of these sets

Config == [on : BOOLEAN, weight : 0 .. MaxEdits, cred : 0 .. MaxEdits,
           used : 0 .. MaxEdits, legacy : BOOLEAN]

ASSUME GoroutinesAssumption == None \notin Goroutines \cup {Main} /\ Main \notin Goroutines
ASSUME ContentsAssumption   ==
  /\ {Absent, Corrupt, None} \cap Config = {}
  /\ Absent # Corrupt /\ Absent # None /\ Corrupt # None
ASSUME BoundsAssumption     == MaxEdits \in Nat /\ MaxCrashes \in Nat /\ MaxDamage \in Nat
ASSUME MixesAssumption      ==
  Mixes \subseteq SUBSET {"ban", "edit", "refresh", "stats", "fail"}

VARIABLES
  phase,     \* "down", "loading" (Load) or "up"
  cfg,       \* the configuration in memory
  holder,    \* who holds cfgLock for writing
  before,    \* the configuration before the setter under way
  rollback,  \* that setter restores it when the save fails
  step,      \* where the save under way stands
  primary,   \* the configuration file
  bak,       \* its .bak
  temp,      \* the temporary file of the save under way
  copy,      \* the account records goroutines have read
  bounds,    \* setters, crashes and damages so far
  mix        \* what happens in this behaviour

memory == <<cfg, before, rollback>>
files  == <<primary, bak, temp>>
vars   == <<phase, memory, holder, step, files, copy, bounds, mix>>

Saving == {"write", "sync", "backup", "copy", "rename", "dirsync"}

File(c)   == [data |-> c, maybe |-> {c}]
Put(f, c) == [data |-> c, maybe |-> f.maybe \cup {c}]
Default   == [on |-> TRUE, weight |-> 0, cred |-> 0, used |-> 0, legacy |-> FALSE]

Count(what) == bounds' = [bounds EXCEPT ![what] = @ + 1]

(***************************************************************************)
(* Save and atomicWriteFile                                                *)
(***************************************************************************)
\* Mutant of Finish: Load returns its error with cfgLock held.
FinishLocked(ok) ==
  /\ step' = "none"
  /\ IF holder = Main
       THEN /\ IF ok THEN UNCHANGED <<phase, cfg>>
                     ELSE phase' = "down" /\ cfg' = None
            /\ UNCHANGED holder
       ELSE /\ holder' = None
            /\ cfg' = IF ~ok /\ rollback THEN before ELSE cfg
            /\ UNCHANGED phase
  /\ UNCHANGED <<before, rollback>>

\* The save ends: the setter returns, or Load goes on with its migrations.
Finish(ok) ==
  /\ step' = "none"
  /\ IF holder = Main
       THEN /\ IF ok THEN UNCHANGED <<phase, holder, cfg>>
                     ELSE phase' = "down" /\ holder' = None /\ cfg' = None
       ELSE /\ holder' = None
            /\ cfg' = IF ~ok /\ rollback THEN before ELSE cfg
            /\ UNCHANGED phase
  /\ UNCHANGED <<before, rollback>>

\* CreateTemp, Write: in the page cache only.
WriteTemp ==
  /\ step = "write"
  /\ temp' = [data |-> cfg, maybe |-> {Corrupt, cfg}]
  /\ step' = "sync"
  /\ UNCHANGED <<phase, memory, holder, primary, bak, copy, bounds, mix>>

\* Mutant of SyncTemp: the file is closed without Sync.
SyncTempSkipped ==
  /\ step = "sync"
  /\ step' = "backup"
  /\ UNCHANGED <<phase, memory, holder, files, copy, bounds, mix>>

\* Sync, Close, Chmod.
SyncTemp ==
  /\ step = "sync"
  /\ temp' = File(temp.data)
  /\ step' = "backup"
  /\ UNCHANGED <<phase, memory, holder, primary, bak, copy, bounds, mix>>

\* os.WriteFile truncates the backup, when there is a primary to copy.
TruncateBackup ==
  /\ step = "backup"
  /\ IF primary.data = Absent
       THEN bak' = bak /\ step' = "rename"
       ELSE bak' = Put(bak, Corrupt) /\ step' = "copy"
  /\ UNCHANGED <<phase, memory, holder, primary, temp, copy, bounds, mix>>

\* It then writes what the primary holds, whatever that is; its error is
\* ignored, and nothing syncs it.
CopyBackup(ok) ==
  /\ step = "copy"
  /\ ok \/ "fail" \in mix
  /\ bak' = IF ok THEN Put(bak, primary.data) ELSE bak
  /\ step' = "rename"
  /\ UNCHANGED <<phase, memory, holder, primary, temp, copy, bounds, mix>>

Rename ==
  /\ step = "rename"
  /\ primary' = [data |-> temp.data, maybe |-> primary.maybe \cup temp.maybe]
  /\ temp' = File(Absent)
  /\ step' = "dirsync"
  /\ UNCHANGED <<phase, memory, holder, bak, copy, bounds, mix>>

\* Sync of the directory (best effort in the code; here it works).
SyncDir ==
  /\ step = "dirsync"
  /\ primary' = File(primary.data)
  /\ Finish(TRUE)
  /\ UNCHANGED <<bak, temp, copy, bounds, mix>>

\* Mutant of SaveFails: no setter restores what it changed.
SaveFailsKeeps ==
  /\ "fail" \in mix
  /\ step \in {"write", "sync", "rename"}
  /\ temp' = File(Absent)
  /\ step' = "none"
  /\ holder' = None
  /\ phase' = IF holder = Main THEN "down" ELSE phase
  /\ cfg' = IF holder = Main THEN None ELSE cfg
  /\ UNCHANGED <<before, rollback, primary, bak, copy, bounds, mix>>

\* An error of a step before the rename, or of the rename: the temporary file
\* is removed and the caller gets the error.
SaveFails ==
  /\ "fail" \in mix
  /\ step \in {"write", "sync", "rename"}
  /\ temp' = File(Absent)
  /\ Finish(FALSE)
  /\ UNCHANGED <<primary, bak, copy, bounds, mix>>

(***************************************************************************)
(* Load                                                                    *)
(***************************************************************************)
Read(c, next) ==
  /\ phase = "down"
  /\ phase' = "loading" /\ holder' = Main
  /\ cfg' = c
  /\ step' = next
  /\ UNCHANGED <<before, rollback, files, copy, bounds, mix>>

LoadPrimary == primary.data \in Config /\ Read(primary.data, "none")

\* A fresh install writes the defaults.
LoadMissing == primary.data = Absent /\ Read(Default, "write")

\* A corrupt primary is replaced by the backup.  With a corrupt backup too,
\* Load refuses to start.
LoadBackup ==
  primary.data = Corrupt /\ bak.data \in Config /\ Read(bak.data, "write")

\* The migrations of older fields, each saved; then the process serves.
Migrate ==
  /\ phase = "loading" /\ step = "none"
  /\ IF cfg.legacy
       THEN cfg' = [cfg EXCEPT !.legacy = FALSE] /\ step' = "write"
            /\ UNCHANGED <<phase, holder>>
       ELSE phase' = "up" /\ holder' = None
            /\ UNCHANGED <<cfg, step>>
  /\ UNCHANGED <<before, rollback, files, copy, bounds, mix>>

(***************************************************************************)
(* Setters: under cfgLock from the change to the end of the save           *)
(***************************************************************************)
Set(p, what, new, restores) ==
  /\ what \in mix
  /\ phase = "up" /\ holder = None
  /\ bounds.edits < MaxEdits
  /\ Count("edits")
  /\ holder' = p
  /\ cfg' = new /\ before' = cfg /\ rollback' = restores
  /\ step' = "write"
  /\ UNCHANGED <<phase, files, mix>>

SetAccountBanStatus(p) ==
  Set(p, "ban", [cfg EXCEPT !.on = FALSE], TRUE) /\ UNCHANGED copy

UpdateAccountCredentialState(p) ==
  Set(p, "refresh", [cfg EXCEPT !.cred = @ + 1], TRUE) /\ UNCHANGED copy

\* UpdateAccountStats, UpdateAccountInfo, UpdateAccountOverageStatus: what they
\* changed stays in memory when the save fails.
UpdateAccountStats(p) ==
  Set(p, "stats", [cfg EXCEPT !.used = @ + 1], FALSE) /\ UNCHANGED copy

\* apiUpdateAccount, first half: GetAccounts.
GetAccounts(p) ==
  /\ "edit" \in mix
  /\ phase = "up" /\ holder = None
  /\ copy' = [copy EXCEPT ![p] = cfg]
  /\ UNCHANGED <<phase, memory, holder, step, files, bounds, mix>>

\* Mutant of UpdateAccount: the record is written as the handler read it.
UpdateAccountWhole(p) ==
  /\ copy[p] # None
  /\ Set(p, "edit", [copy[p] EXCEPT !.weight = (@ + 1) % (MaxEdits + 1)], TRUE)
  /\ copy' = [copy EXCEPT ![p] = None]

\* Second half: change the fields passed (the weight) in the record read, and
\* write it; config.UpdateAccount keeps the credential that is there now.
UpdateAccount(p) ==
  /\ copy[p] # None
  /\ Set(p, "edit", [copy[p] EXCEPT !.weight = (@ + 1) % (MaxEdits + 1),
                                    !.cred = cfg.cred], TRUE)
  /\ copy' = [copy EXCEPT ![p] = None]

(***************************************************************************)
(* The machine (external)                                                  *)
(***************************************************************************)
Down ==
  /\ bounds.crashes < MaxCrashes
  /\ Count("crashes")
  /\ phase # "down"
  /\ phase' = "down" /\ holder' = None /\ step' = "none"
  /\ cfg' = None /\ before' = None /\ rollback' = FALSE
  /\ temp' = File(Absent)
  /\ copy' = [p \in Goroutines |-> None]
  /\ UNCHANGED mix

\* The process dies; the kernel still writes what the process wrote.
Kill ==
  /\ Down
  /\ primary' = File(primary.data) /\ bak' = File(bak.data)

PowerLoss ==
  /\ Down
  /\ \E c \in primary.maybe : primary' = File(c)
  /\ \E c \in bak.maybe : bak' = File(c)

\* The primary is damaged by something else, or edited by hand into nonsense,
\* while no load or save is under way.
Damage ==
  /\ holder = None
  /\ bounds.damage < MaxDamage
  /\ Count("damage")
  /\ primary.data \in Config
  /\ primary' = File(Corrupt)
  /\ UNCHANGED <<phase, memory, holder, step, bak, temp, copy, mix>>

(***************************************************************************)
(* The specification                                                       *)
(***************************************************************************)
Init ==
  /\ phase = "down" /\ holder = None /\ step = "none"
  /\ cfg = None /\ before = None /\ rollback = FALSE
  /\ \E c \in {Absent, Default, [Default EXCEPT !.legacy = TRUE]} : primary = File(c)
  /\ bak = File(Absent) /\ temp = File(Absent)
  /\ copy = [p \in Goroutines |-> None]
  /\ bounds = [edits |-> 0, crashes |-> 0, damage |-> 0]
  /\ mix \in Mixes

Save ==
  \/ WriteTemp \/ SyncTemp \/ TruncateBackup \/ Rename \/ SyncDir \/ SaveFails
  \/ \E ok \in BOOLEAN : CopyBackup(ok)

Load == LoadPrimary \/ LoadMissing \/ LoadBackup \/ Migrate

Setters ==
  \E p \in Goroutines :
    \/ SetAccountBanStatus(p) \/ UpdateAccountCredentialState(p)
    \/ UpdateAccountStats(p) \/ GetAccounts(p) \/ UpdateAccount(p)

Machine == Kill \/ PowerLoss \/ Damage

Next == Save \/ Load \/ Setters \/ Machine

Spec == Init /\ [][Next]_vars

(***************************************************************************)
(* Properties                                                              *)
(***************************************************************************)
Contents == Config \cup {Absent, Corrupt}
Files    == [data : Contents, maybe : SUBSET Contents]

TypeOK ==
  /\ phase \in {"down", "loading", "up"}
  /\ cfg \in Config \cup {None} /\ (cfg = None <=> phase = "down")
  /\ before \in Config \cup {None} /\ rollback \in BOOLEAN
  /\ holder \in Goroutines \cup {Main, None}
  /\ (holder = Main <=> phase = "loading")
  /\ step \in Saving \cup {"none"}
  /\ \A f \in {primary, bak, temp} :
       f.data \in Contents /\ f.maybe \subseteq Contents /\ f.data \in f.maybe
  /\ \A p \in Goroutines : copy[p] \in Config \cup {None}

\* Whatever step of a save the process or the machine dies at, the primary is a
\* complete configuration again: the temporary file is synced before it takes
\* the primary's name.
RestartFindsComplete ==
  bounds.damage = 0 => primary.maybe \subseteq Config \cup {Absent}

\* What the readers of the running process see.
Visible == IF phase # "up" THEN None ELSE IF holder = None THEN cfg ELSE before

AsValue(c) == IF c \in Config THEN c ELSE None

\* The configuration implements the durable store: what a setter changed is on
\* disk before anyone reads it, a failed setter changes nothing, and a restart
\* finds what was read last or a configuration stored since.
Durable == INSTANCE DurableStore WITH
  Values   <- Config,
  stored   <- AsValue(primary.data),
  possible <- {AsValue(c) : c \in primary.maybe},
  view     <- Visible

ImplementsDurableStore == Durable!Spec

\* An edit of an account leaves the credential alone, however old the record is
\* that the handler writes back (config.UpdateAccount).
EditKeepsCredential ==
  [][\A p \in Goroutines : UpdateAccount(p) => cfg'.cred = cfg.cred]_vars

(***************************************************************************)
(* What the comments say, and the code does not do                         *)
(***************************************************************************)
\* config.go: a corrupt primary falls back to the last-known-good backup rather
\* than stranding every account, so the only good copy is not destroyed before
\* there is another one.
LastGoodCopyKept ==
  [][Save /\ primary.data = Corrupt /\ bak.data \in Config =>
       primary'.data \in Config \/ bak'.data \in Config]_vars
==============================================================================
