--------------------------- MODULE ConfigStoreProofs ---------------------------
(***************************************************************************)
(* Theorems about ConfigStore, for any goroutines, edits, crashes and      *)
(* damages: its types, what a restart finds, and that it implements the    *)
(* durable store.                                                          *)
(***************************************************************************)
EXTENDS ConfigStore, TLAPS

(***************************************************************************)
(* Types.  A field counts at most the setters called so far, in memory and *)
(* in every file and copy, and that is why it stays within the bound.      *)
(***************************************************************************)
Reached == {c \in Config : c.cred <= bounds.edits /\ c.used <= bounds.edits}
Kept    == Reached \cup {Absent, Corrupt}

Holds(f, contents) == f \in [data : contents, maybe : SUBSET contents] /\ f.data \in f.maybe

Memory ==
  /\ phase \in {"down", "loading", "up"}
  /\ cfg \in Reached \cup {None} /\ (cfg = None <=> phase = "down")
  /\ before \in Reached \cup {None} /\ rollback \in BOOLEAN
  /\ copy \in [Goroutines -> Reached \cup {None}]
  /\ bounds \in [edits : 0 .. MaxEdits, crashes : Nat, damage : Nat]

Control ==
  /\ holder \in Goroutines \cup {Main, None}
  /\ holder = Main <=> phase = "loading"
  /\ holder \in Goroutines => phase = "up" /\ before # None
  /\ step \in Saving \cup {"none"}
  /\ holder = None => step = "none"
  /\ holder \in Goroutines => step # "none"

Filed == Holds(primary, Kept) /\ Holds(bak, Kept) /\ Holds(temp, Kept)

Shape == Memory /\ Control /\ Filed

\* The files the steps of a save and of a crash leave.
LEMMA FilesHold ==
  ASSUME NEW contents, NEW c \in contents
  PROVE  /\ Holds(File(c), contents)
         /\ \A f : Holds(f, contents) => Holds(Put(f, c), contents)
         /\ \A f, more : Holds(f, contents) /\ contents \subseteq more => Holds(f, more)
<1>1. Holds(File(c), contents)
  BY DEF Holds, File
<1>2. ASSUME NEW f, Holds(f, contents) PROVE Holds(Put(f, c), contents)
  BY <1>2 DEF Holds, Put
<1>3. ASSUME NEW f, NEW more, Holds(f, contents), contents \subseteq more PROVE Holds(f, more)
  BY <1>3 DEF Holds
<1>4. QED
  BY <1>1, <1>2, <1>3

\* What was reached stays reached as setters are counted.
LEMMA ReachedGrows ==
  ASSUME bounds \in [edits : 0 .. MaxEdits, crashes : Nat, damage : Nat],
         bounds'.edits \in Nat, bounds.edits <= bounds'.edits
  PROVE  Reached \subseteq Reached' /\ Kept \subseteq Kept'
<1>1. ASSUME NEW c \in Reached PROVE c \in Reached'
  <2>1. c \in Config /\ c.cred <= bounds.edits /\ c.used <= bounds.edits
    BY DEF Reached
  <2>2. c.cred \in Nat /\ c.used \in Nat
    BY <2>1, BoundsAssumption DEF Config
  <2>3. c.cred <= bounds'.edits /\ c.used <= bounds'.edits
    BY <2>1, <2>2
  <2>4. QED
    BY <2>1, <2>3 DEF Reached
<1>2. QED
  BY <1>1 DEF Kept

LEMMA ShapeInit == Init => Shape
<1> SUFFICES ASSUME Init PROVE Shape
  OBVIOUS
<1>1. Default \in Reached /\ [Default EXCEPT !.legacy = TRUE] \in Reached
  <2>1. 0 \in 0 .. MaxEdits /\ bounds.edits = 0
    BY BoundsAssumption DEF Init
  <2>2. Default \in Config /\ Default.cred = 0 /\ Default.used = 0
    BY <2>1 DEF Default, Config
  <2>3. [Default EXCEPT !.legacy = TRUE] \in Config
    BY <2>2 DEF Config
  <2>4. /\ [Default EXCEPT !.legacy = TRUE].cred = 0
        /\ [Default EXCEPT !.legacy = TRUE].used = 0
    BY <2>2 DEF Config
  <2>5. \A c \in Config : c.cred = 0 /\ c.used = 0 => c \in Reached
    BY <2>1 DEF Reached
  <2>6. QED
    BY <2>2, <2>3, <2>4, <2>5
<1>2. Memory
  <2>1. bounds \in [edits : 0 .. MaxEdits, crashes : Nat, damage : Nat]
    BY BoundsAssumption DEF Init
  <2>2. copy \in [Goroutines -> Reached \cup {None}]
    BY DEF Init
  <2>3. rollback \in BOOLEAN
    BY DEF Init
  <2>4. QED
    BY <2>1, <2>2, <2>3 DEF Init, Memory
<1>3. Control
  BY GoroutinesAssumption DEF Init, Control, Saving
<1>4. Filed
  <2>1. \A c \in Kept : Holds(File(c), Kept)
    BY FilesHold
  <2>2. PICK c \in {Absent, Default, [Default EXCEPT !.legacy = TRUE]} : primary = File(c)
    BY DEF Init
  <2>3. c \in Kept /\ Absent \in Kept
    BY <1>1, <2>2 DEF Kept
  <2>4. QED
    BY <2>1, <2>2, <2>3 DEF Init, Filed
<1>5. QED
  BY <1>2, <1>3, <1>4 DEF Shape

\* A change of one field of what was reached, for a setter that is counted.
LEMMA SetterReaches ==
  ASSUME Memory, bounds.edits < MaxEdits, bounds' = [bounds EXCEPT !.edits = @ + 1],
         NEW c \in Reached, NEW d \in Reached
  PROVE  /\ [c EXCEPT !.on = FALSE] \in Reached'
         /\ [c EXCEPT !.cred = @ + 1] \in Reached'
         /\ [c EXCEPT !.used = @ + 1] \in Reached'
         /\ [c EXCEPT !.weight = (@ + 1) % (MaxEdits + 1), !.cred = d.cred] \in Reached'
<1>1. /\ c \in Config /\ c.cred <= bounds.edits /\ c.used <= bounds.edits
      /\ d \in Config /\ d.cred <= bounds.edits
  BY DEF Reached
<1>2. /\ bounds.edits \in Nat /\ MaxEdits \in Nat
      /\ bounds'.edits = bounds.edits + 1 /\ bounds.edits + 1 <= MaxEdits
  BY BoundsAssumption DEF Memory
<1>3. /\ c = [on |-> c.on, weight |-> c.weight, cred |-> c.cred, used |-> c.used,
              legacy |-> c.legacy]
      /\ c.on \in BOOLEAN /\ c.legacy \in BOOLEAN /\ c.weight \in 0 .. MaxEdits
      /\ c.cred \in 0 .. MaxEdits /\ c.used \in 0 .. MaxEdits /\ d.cred \in 0 .. MaxEdits
  BY <1>1 DEF Config
<1>4. [c EXCEPT !.on = FALSE] \in Reached'
  <2>1. [c EXCEPT !.on = FALSE] \in Config
    BY <1>1 DEF Config
  <2>2. [c EXCEPT !.on = FALSE].cred = c.cred /\ [c EXCEPT !.on = FALSE].used = c.used
    BY <1>1 DEF Config
  <2>3. QED
    BY <1>1, <1>2, <1>3, <2>1, <2>2 DEF Reached
<1>5. [c EXCEPT !.cred = @ + 1] \in Reached'
  <2>1. [c EXCEPT !.cred = @ + 1] = [on |-> c.on, weight |-> c.weight, cred |-> c.cred + 1,
                                     used |-> c.used, legacy |-> c.legacy]
    BY <1>3
  <2>2. c.cred + 1 \in 0 .. MaxEdits
    BY <1>1, <1>2, <1>3
  <2>3. QED
    BY <1>1, <1>2, <1>3, <2>1, <2>2 DEF Reached, Config
<1>6. [c EXCEPT !.used = @ + 1] \in Reached'
  <2>1. [c EXCEPT !.used = @ + 1] = [on |-> c.on, weight |-> c.weight, cred |-> c.cred,
                                     used |-> c.used + 1, legacy |-> c.legacy]
    BY <1>3
  <2>2. c.used + 1 \in 0 .. MaxEdits
    BY <1>1, <1>2, <1>3
  <2>3. QED
    BY <1>1, <1>2, <1>3, <2>1, <2>2 DEF Reached, Config
<1>7. [c EXCEPT !.weight = (@ + 1) % (MaxEdits + 1), !.cred = d.cred] \in Reached'
  <2>1. (c.weight + 1) % (MaxEdits + 1) \in 0 .. MaxEdits
    <3>1. c.weight + 1 \in Nat /\ MaxEdits + 1 \in Nat /\ MaxEdits + 1 > 0
      BY <1>2, <1>3
    <3>2. \A m, n \in Nat : n > 0 => m % n \in 0 .. n - 1
      OBVIOUS
    <3>3. QED
      BY <1>2, <3>1, <3>2
  <2> DEFINE w == (c.weight + 1) % (MaxEdits + 1)
             e == [c EXCEPT !.weight = w, !.cred = d.cred]
  <2>2. w \in 0 .. MaxEdits
    BY <2>1
  <2> HIDE DEF w
  <2>3. e \in Config
    BY <1>1, <1>3, <2>2 DEF Config
  <2>4. e.cred = d.cred /\ e.used = c.used
    BY <1>1, <1>3 DEF Config
  <2>5. \A x \in Config : x.cred <= bounds'.edits /\ x.used <= bounds'.edits => x \in Reached'
    BY DEF Reached
  <2>6. e.cred <= bounds'.edits /\ e.used <= bounds'.edits
    BY <1>1, <1>2, <1>3, <2>4
  <2> HIDE DEF e
  <2>7. e \in Reached'
    BY <2>3, <2>5, <2>6
  <2>8. QED
    BY <2>7 DEF e, w
<1>8. QED
  BY <1>4, <1>5, <1>6, <1>7

\* The step that ends a save, well or not.
LEMMA FinishKeepsShape ==
  ASSUME Memory, Control, NEW ok \in BOOLEAN, Finish(ok), step # "none",
         UNCHANGED <<copy, bounds>>
  PROVE  Memory' /\ Control'
<1>1. Reached' = Reached
  BY DEF Reached
<1>2. holder \in Goroutines \cup {Main}
  BY DEF Control
<1>3. CASE holder = Main
  BY <1>1, <1>3, GoroutinesAssumption DEF Memory, Control, Finish
<1>4. CASE holder \in Goroutines
  <2>1. holder # Main /\ before \in Reached /\ cfg \in Reached
    BY <1>4, GoroutinesAssumption DEF Memory, Control
  <2>2. /\ step' = "none" /\ holder' = None /\ cfg' \in Reached
        /\ UNCHANGED <<phase, before, rollback>>
    BY <2>1 DEF Finish
  <2>3. Control'
    BY <1>4, <2>2, GoroutinesAssumption DEF Control
  <2>4. None \notin Reached
    BY ContentsAssumption DEF Reached
  <2>5. Memory'
    BY <1>1, <1>4, <2>2, <2>4 DEF Memory, Control
  <2>6. QED
    BY <2>3, <2>5
<1>5. QED
  BY <1>2, <1>3, <1>4

\* A setter that starts.
LEMMA SetKeepsShape ==
  ASSUME Shape, NEW p \in Goroutines, NEW what, NEW new \in Reached', NEW restores \in BOOLEAN,
         Set(p, what, new, restores), copy' \in [Goroutines -> Reached \cup {None}]
  PROVE  Shape'
<1>1. /\ bounds \in [edits : 0 .. MaxEdits, crashes : Nat, damage : Nat]
      /\ bounds.edits < MaxEdits /\ bounds' = [bounds EXCEPT !.edits = @ + 1]
  BY DEF Shape, Memory, Set, Count
<1>2. /\ bounds' \in [edits : 0 .. MaxEdits, crashes : Nat, damage : Nat]
      /\ bounds'.edits = bounds.edits + 1
  BY <1>1, BoundsAssumption
<1>3. Reached \subseteq Reached' /\ Kept \subseteq Kept'
  BY <1>1, <1>2, ReachedGrows
<1>4. None \notin Reached /\ None \notin Reached'
  BY ContentsAssumption DEF Reached
<1>5. /\ holder' = p /\ step' = "write" /\ cfg' = new /\ before' = cfg /\ rollback' = restores
      /\ phase = "up" /\ phase' = "up" /\ UNCHANGED files
  BY DEF Set
<1>6. cfg \in Reached
  BY <1>5 DEF Shape, Memory
<1>7. Control'
  BY <1>4, <1>5, <1>6, GoroutinesAssumption DEF Control, Saving
<1>8. Memory'
  <2>1. copy' \in [Goroutines -> Reached' \cup {None}]
    BY <1>3
  <2>2. QED
    BY <1>2, <1>3, <1>4, <1>5, <1>6, <2>1 DEF Memory
<1>9. Filed'
  <2>1. Absent \in Kept /\ Holds(primary, Kept) /\ Holds(bak, Kept) /\ Holds(temp, Kept)
    BY DEF Shape, Filed, Kept
  <2>2. QED
    BY <1>3, <1>5, <2>1, FilesHold DEF Filed, files
<1>10. QED
  BY <1>7, <1>8, <1>9 DEF Shape

LEMMA SaveKeepsShape == Shape /\ Save => Shape'
<1> SUFFICES ASSUME Shape, Save PROVE Shape'
  OBVIOUS
<1>1. /\ Memory /\ Control /\ Filed
      /\ Holds(primary, Kept) /\ Holds(bak, Kept) /\ Holds(temp, Kept)
      /\ Absent \in Kept /\ Corrupt \in Kept
  BY DEF Shape, Filed, Kept
<1>2. bounds' = bounds /\ copy' = copy /\ step # "none"
  BY DEF Save, WriteTemp, SyncTemp, TruncateBackup, CopyBackup, Rename, SyncDir, SaveFails
<1>3. Reached' = Reached /\ Kept' = Kept
  BY <1>2 DEF Reached, Kept
<1>4. holder # None /\ cfg \in Reached /\ cfg \in Kept
  <2>1. holder \in Goroutines \cup {Main}
    BY <1>1, <1>2 DEF Control
  <2>2. phase # "down"
    BY <1>1, <2>1 DEF Control
  <2>3. QED
    BY <1>1, <2>1, <2>2, GoroutinesAssumption DEF Memory, Kept
<1>5. \A f, c : Holds(f, Kept) /\ c \in Kept => Holds(Put(f, c), Kept) /\ Holds(File(c), Kept)
  BY FilesHold
<1>6. primary.data \in Kept /\ temp.data \in Kept
  BY <1>1 DEF Holds
<1>7. ASSUME UNCHANGED <<phase, memory, holder, copy, bounds>>, step' \in Saving PROVE Memory' /\ Control'
  BY <1>1, <1>3, <1>4, <1>7 DEF Memory, Control, memory, Saving
<1>8. CASE WriteTemp
  <2>1. Memory' /\ Control'
    BY <1>7, <1>8 DEF WriteTemp, Saving
  <2>2. Holds([data |-> cfg, maybe |-> {Corrupt, cfg}], Kept)
    BY <1>1, <1>4 DEF Holds
  <2>3. QED
    BY <1>1, <1>3, <1>8, <2>1, <2>2 DEF WriteTemp, Shape, Filed
<1>9. CASE SyncTemp
  <2>1. Memory' /\ Control'
    BY <1>7, <1>9 DEF SyncTemp, Saving
  <2>2. QED
    BY <1>1, <1>3, <1>5, <1>6, <1>9, <2>1 DEF SyncTemp, Shape, Filed
<1>10. CASE TruncateBackup
  <2>1. Memory' /\ Control'
    BY <1>7, <1>10 DEF TruncateBackup, Saving
  <2>2. QED
    BY <1>1, <1>3, <1>5, <1>10, <2>1 DEF TruncateBackup, Shape, Filed
<1>11. ASSUME NEW ok \in BOOLEAN, CopyBackup(ok) PROVE Shape'
  <2>1. Memory' /\ Control'
    BY <1>7, <1>11 DEF CopyBackup, Saving
  <2>2. QED
    BY <1>1, <1>3, <1>5, <1>6, <1>11, <2>1 DEF CopyBackup, Shape, Filed
<1>12. CASE Rename
  <2>1. Memory' /\ Control'
    BY <1>7, <1>12 DEF Rename, Saving
  <2>2. Holds([data |-> temp.data, maybe |-> primary.maybe \cup temp.maybe], Kept)
    BY <1>1 DEF Holds
  <2>3. QED
    BY <1>1, <1>3, <1>5, <1>12, <2>1, <2>2 DEF Rename, Shape, Filed
<1>13. CASE SyncDir
  <2>1. Memory' /\ Control'
    BY <1>1, <1>2, <1>13, FinishKeepsShape DEF SyncDir
  <2>2. QED
    BY <1>1, <1>3, <1>5, <1>6, <1>13, <2>1 DEF SyncDir, Shape, Filed
<1>14. CASE SaveFails
  <2>1. Memory' /\ Control'
    BY <1>1, <1>2, <1>14, FinishKeepsShape DEF SaveFails
  <2>2. QED
    BY <1>1, <1>3, <1>5, <1>14, <2>1 DEF SaveFails, Shape, Filed
<1>15. QED
  BY <1>8, <1>9, <1>10, <1>11, <1>12, <1>13, <1>14 DEF Save

LEMMA LoadKeepsShape == Shape /\ Load => Shape'
<1> SUFFICES ASSUME Shape, Load PROVE Shape'
  OBVIOUS
<1>1. /\ Memory /\ Control /\ Filed
      /\ Holds(primary, Kept) /\ Holds(bak, Kept)
  BY DEF Shape, Filed
<1>2. UNCHANGED <<before, rollback, files, copy, bounds, mix>>
  BY DEF Load, LoadPrimary, LoadMissing, LoadBackup, Read, Migrate
<1>3. Reached' = Reached /\ Kept' = Kept /\ None \notin Reached
  BY <1>2, ContentsAssumption DEF Reached, Kept
<1>4. Filed'
  BY <1>1, <1>2, <1>3 DEF Filed, files
<1>5. ASSUME NEW c \in Reached, NEW next \in {"none", "write"}, Read(c, next) PROVE Shape'
  <2>1. Memory'
    BY <1>1, <1>2, <1>3, <1>5 DEF Memory, Read
  <2>2. Control'
    BY <1>1, <1>2, <1>5, GoroutinesAssumption DEF Control, Read, Saving
  <2>3. QED
    BY <1>4, <2>1, <2>2 DEF Shape
<1>6. Default \in Reached
  <2>1. 0 \in 0 .. MaxEdits /\ bounds.edits \in Nat
    BY <1>1, BoundsAssumption DEF Memory
  <2>2. Default \in Config /\ Default.cred = 0 /\ Default.used = 0
    BY <2>1 DEF Default, Config
  <2>3. QED
    BY <2>1, <2>2 DEF Reached
<1>7. \A f : Holds(f, Kept) /\ f.data \in Config => f.data \in Reached
  BY ContentsAssumption DEF Holds, Kept
<1>8. CASE LoadPrimary
  BY <1>1, <1>5, <1>7, <1>8 DEF LoadPrimary
<1>9. CASE LoadMissing
  BY <1>5, <1>6, <1>9 DEF LoadMissing
<1>10. CASE LoadBackup
  BY <1>1, <1>5, <1>7, <1>10 DEF LoadBackup
<1>11. CASE Migrate
  <2>1. phase = "loading" /\ holder = Main /\ step = "none" /\ cfg \in Reached
    BY <1>1, <1>11 DEF Migrate, Memory, Control
  <2>2. CASE cfg.legacy
    <3>1. [cfg EXCEPT !.legacy = FALSE] \in Reached
      <4>1. cfg \in Config /\ cfg.cred <= bounds.edits /\ cfg.used <= bounds.edits
        BY <2>1 DEF Reached
      <4>2. [cfg EXCEPT !.legacy = FALSE] \in Config
        BY <4>1 DEF Config
      <4>3. /\ [cfg EXCEPT !.legacy = FALSE].cred = cfg.cred
            /\ [cfg EXCEPT !.legacy = FALSE].used = cfg.used
        BY <4>1 DEF Config
      <4>4. QED
        BY <4>1, <4>2, <4>3 DEF Reached
    <3>2. /\ cfg' = [cfg EXCEPT !.legacy = FALSE] /\ step' = "write"
          /\ UNCHANGED <<phase, holder>>
      BY <1>11, <2>2 DEF Migrate
    <3>3. Memory'
      BY <1>1, <1>2, <1>3, <2>1, <3>1, <3>2 DEF Memory
    <3>4. Control'
      BY <1>1, <1>2, <2>1, <3>2, GoroutinesAssumption DEF Control, Saving
    <3>5. QED
      BY <1>4, <3>3, <3>4 DEF Shape
  <2>3. CASE ~cfg.legacy
    <3>1. phase' = "up" /\ holder' = None /\ UNCHANGED <<cfg, step>>
      BY <1>11, <2>3 DEF Migrate
    <3>2. Memory'
      BY <1>1, <1>2, <1>3, <2>1, <3>1 DEF Memory
    <3>3. Control'
      BY <1>1, <1>2, <2>1, <3>1, GoroutinesAssumption DEF Control, Saving
    <3>4. QED
      BY <1>4, <3>2, <3>3 DEF Shape
  <2>4. QED
    BY <2>2, <2>3
<1>12. QED
  BY <1>8, <1>9, <1>10, <1>11 DEF Load

LEMMA SettersKeepShape == Shape /\ Setters => Shape'
<1> SUFFICES ASSUME Shape, NEW p \in Goroutines,
                    \/ SetAccountBanStatus(p) \/ UpdateAccountCredentialState(p)
                    \/ UpdateAccountStats(p) \/ GetAccounts(p) \/ UpdateAccount(p)
             PROVE  Shape'
  BY DEF Setters
<1>1. Memory /\ Control /\ Filed /\ copy \in [Goroutines -> Reached \cup {None}]
  BY DEF Shape, Memory
<1>2. None \notin Reached
  BY ContentsAssumption DEF Reached
<1>3. ASSUME phase = "up" PROVE cfg \in Reached
  BY <1>1, <1>3 DEF Memory
<1>4. CASE SetAccountBanStatus(p)
  <2>1. Set(p, "ban", [cfg EXCEPT !.on = FALSE], TRUE) /\ copy' = copy
    BY <1>4 DEF SetAccountBanStatus
  <2>2. [cfg EXCEPT !.on = FALSE] \in Reached'
    BY <1>1, <1>3, <2>1, SetterReaches DEF Set, Count
  <2>3. QED
    BY <1>1, <2>1, <2>2, SetKeepsShape
<1>5. CASE UpdateAccountCredentialState(p)
  <2>1. Set(p, "refresh", [cfg EXCEPT !.cred = @ + 1], TRUE) /\ copy' = copy
    BY <1>5 DEF UpdateAccountCredentialState
  <2>2. [cfg EXCEPT !.cred = @ + 1] \in Reached'
    BY <1>1, <1>3, <2>1, SetterReaches DEF Set, Count
  <2>3. QED
    BY <1>1, <2>1, <2>2, SetKeepsShape
<1>6. CASE UpdateAccountStats(p)
  <2>1. Set(p, "stats", [cfg EXCEPT !.used = @ + 1], FALSE) /\ copy' = copy
    BY <1>6 DEF UpdateAccountStats
  <2>2. [cfg EXCEPT !.used = @ + 1] \in Reached'
    BY <1>1, <1>3, <2>1, SetterReaches DEF Set, Count
  <2>3. QED
    BY <1>1, <2>1, <2>2, SetKeepsShape
<1>7. CASE UpdateAccount(p)
  <2> DEFINE new == [copy[p] EXCEPT !.weight = (@ + 1) % (MaxEdits + 1), !.cred = cfg.cred]
  <2>1. Set(p, "edit", new, TRUE) /\ copy' = [copy EXCEPT ![p] = None]
    BY <1>7 DEF UpdateAccount
  <2>2. copy[p] \in Reached
    BY <1>1, <1>7 DEF UpdateAccount
  <2>3. new \in Reached'
    BY <1>1, <1>3, <2>1, <2>2, SetterReaches DEF Set, Count
  <2>4. copy' \in [Goroutines -> Reached \cup {None}]
    BY <1>1, <2>1
  <2>5. QED
    BY <1>1, <2>1, <2>3, <2>4, SetKeepsShape
<1>8. CASE GetAccounts(p)
  <2>1. /\ phase = "up" /\ copy' = [copy EXCEPT ![p] = cfg]
        /\ UNCHANGED <<phase, cfg, before, rollback, holder, step, primary, bak, temp, bounds>>
    BY <1>8 DEF GetAccounts, memory, files
  <2>2. Reached' = Reached /\ Kept' = Kept
    BY <2>1 DEF Reached, Kept
  <2>3. copy' \in [Goroutines -> Reached \cup {None}]
    BY <1>1, <1>3, <2>1
  <2>4. Memory'
    BY <1>1, <2>1, <2>2, <2>3 DEF Memory
  <2>5. QED
    BY <1>1, <2>1, <2>2, <2>4 DEF Shape, Control, Filed
<1>9. QED
  BY <1>4, <1>5, <1>6, <1>7, <1>8

LEMMA MachineKeepsShape == Shape /\ Machine => Shape'
<1> SUFFICES ASSUME Shape, Machine PROVE Shape'
  OBVIOUS
<1>1. /\ Memory /\ Control /\ Filed
      /\ Holds(primary, Kept) /\ Holds(bak, Kept) /\ Holds(temp, Kept)
      /\ Absent \in Kept /\ Corrupt \in Kept
  BY DEF Shape, Filed, Kept
<1>2. /\ bounds' \in [edits : 0 .. MaxEdits, crashes : Nat, damage : Nat]
      /\ bounds'.edits = bounds.edits
  BY <1>1 DEF Machine, Kill, PowerLoss, Down, Damage, Count, Memory
<1>3. Reached' = Reached /\ Kept' = Kept
  BY <1>2 DEF Reached, Kept
<1>4. \A c : c \in Kept => Holds(File(c), Kept)
  BY FilesHold
<1>5. CASE Kill \/ PowerLoss
  <2>1. /\ phase' = "down" /\ holder' = None /\ step' = "none"
        /\ cfg' = None /\ before' = None /\ rollback' = FALSE
        /\ temp' = File(Absent) /\ copy' = [p \in Goroutines |-> None]
    BY <1>5 DEF Kill, PowerLoss, Down
  <2>2. Memory'
    BY <1>2, <2>1 DEF Memory
  <2>3. Control'
    BY <2>1, GoroutinesAssumption DEF Control
  <2>4. PICK c \in primary.maybe, d \in bak.maybe : primary' = File(c) /\ bak' = File(d)
    BY <1>1, <1>5 DEF Kill, PowerLoss, Holds
  <2>5. c \in Kept /\ d \in Kept
    BY <1>1, <2>4 DEF Holds
  <2>6. QED
    BY <1>1, <1>3, <1>4, <2>1, <2>2, <2>3, <2>4, <2>5 DEF Shape, Filed
<1>6. CASE Damage
  <2>1. /\ primary' = File(Corrupt)
        /\ UNCHANGED <<phase, cfg, before, rollback, holder, step, bak, temp, copy>>
    BY <1>6 DEF Damage, memory
  <2>2. Memory' /\ Control'
    BY <1>1, <1>2, <1>3, <2>1 DEF Memory, Control
  <2>3. QED
    BY <1>1, <1>3, <1>4, <2>1, <2>2 DEF Shape, Filed
<1>7. QED
  BY <1>5, <1>6 DEF Machine

LEMMA ShapeNext == Shape /\ [Next]_vars => Shape'
<1> SUFFICES ASSUME Shape, [Next]_vars PROVE Shape'
  OBVIOUS
<1>1. CASE UNCHANGED vars
  BY <1>1 DEF vars, memory, files, Shape, Memory, Control, Filed, Reached, Kept
<1>2. QED
  BY <1>1, SaveKeepsShape, LoadKeepsShape, SettersKeepShape, MachineKeepsShape DEF Next

\* Every variable keeps its type, whatever is edited, saved, loaded or lost: in
\* particular no step leaves memory without a configuration while the process
\* serves, and none leaves the lock with a Load that has ended.
THEOREM TypeCorrect == Spec => []TypeOK
<1>1. Shape => TypeOK
  <2> SUFFICES ASSUME Shape PROVE TypeOK
    OBVIOUS
  <2>1. Reached \subseteq Config /\ Kept \subseteq Contents
    BY DEF Reached, Kept, Contents
  <2>2. \A f : Holds(f, Kept) => f.data \in Contents /\ f.maybe \subseteq Contents /\ f.data \in f.maybe
    BY <2>1 DEF Holds
  <2>3. QED
    BY <2>1, <2>2 DEF Shape, Memory, Control, Filed, TypeOK
<1>2. QED
  BY <1>1, ShapeInit, ShapeNext, PTL DEF Spec
(***************************************************************************)
(* What is on disk.  Only between the rename and the sync of the directory *)
(* is it open what a power loss leaves of the primary; what is renamed     *)
(* was synced before, and is the configuration in memory.                  *)
(***************************************************************************)
Stored ==
  /\ step # "dirsync" => primary = File(primary.data)
  /\ step = "dirsync" => primary.data = cfg
  /\ phase = "loading" /\ step = "none" => primary.data = cfg
  /\ step = "sync" => temp.data = cfg
  /\ step \in {"backup", "copy", "rename"} => temp = File(cfg)

LEMMA StoredInit == Init => Stored
BY DEF Init, Stored, File

LEMMA StoredNext == Shape /\ Stored /\ [Next]_vars => Stored'
<1> SUFFICES ASSUME Shape, Stored, [Next]_vars PROVE Stored'
  OBVIOUS
<1>1. Control
  BY DEF Shape
<1>2. CASE Save
  <2>1. CASE WriteTemp
    BY <2>1 DEF WriteTemp, Stored, memory
  <2>2. CASE SyncTemp
    BY <2>2 DEF SyncTemp, Stored, memory, File
  <2>3. CASE TruncateBackup
    BY <2>3 DEF TruncateBackup, Stored, memory
  <2>4. ASSUME NEW ok \in BOOLEAN, CopyBackup(ok) PROVE Stored'
    BY <2>4 DEF CopyBackup, Stored, memory
  <2>5. CASE Rename
    BY <2>5 DEF Rename, Stored, memory, File
  <2>6. CASE SyncDir
    <3>1. primary' = File(primary.data) /\ step' = "none" /\ step = "dirsync"
      BY <2>6 DEF SyncDir, Finish
    <3>2. primary'.data = primary.data
      BY <3>1 DEF File
    <3>3. phase' = "loading" => cfg' = cfg
      BY <1>1, <2>6, GoroutinesAssumption DEF SyncDir, Finish, Control
    <3>4. QED
      BY <3>1, <3>2, <3>3 DEF Stored
  <2>7. CASE SaveFails
    <3>1. primary' = primary /\ step' = "none" /\ step # "dirsync" /\ phase' # "loading"
      BY <1>1, <2>7, GoroutinesAssumption DEF SaveFails, Finish, Control
    <3>2. QED
      BY <3>1 DEF Stored
  <2>8. QED
    BY <1>2, <2>1, <2>2, <2>3, <2>4, <2>5, <2>6, <2>7 DEF Save
<1>3. CASE Load
  <2>1. CASE LoadPrimary \/ LoadMissing \/ LoadBackup
    BY <1>1, <2>1, GoroutinesAssumption DEF LoadPrimary, LoadMissing, LoadBackup, Read, Stored, files, Control
  <2>2. CASE Migrate
    BY <2>2 DEF Migrate, Stored, files
  <2>3. QED
    BY <1>3, <2>1, <2>2 DEF Load
<1>4. CASE Setters
  <2>1. PICK p \in Goroutines :
          \/ GetAccounts(p)
          \/ \E what, new, restores : Set(p, what, new, restores)
    BY <1>4 DEF Setters, SetAccountBanStatus, UpdateAccountCredentialState,
                UpdateAccountStats, UpdateAccount
  <2>2. CASE GetAccounts(p)
    BY <2>2 DEF GetAccounts, Stored, memory, files
  <2>3. ASSUME NEW what, NEW new, NEW restores, Set(p, what, new, restores) PROVE Stored'
    <3>1. step = "none" /\ step' = "write" /\ primary' = primary
      BY <1>1, <2>3 DEF Set, Control, files
    <3>2. QED
      BY <3>1 DEF Stored
  <2>4. QED
    BY <2>1, <2>2, <2>3
<1>5. CASE Machine
  <2>1. CASE Kill \/ PowerLoss
    <3>1. step' = "none" /\ phase' = "down" /\ \E c : primary' = File(c)
      BY <2>1 DEF Kill, PowerLoss, Down
    <3>2. QED
      BY <3>1 DEF Stored, File
  <2>2. CASE Damage
    BY <1>1, <2>2, GoroutinesAssumption DEF Damage, Stored, memory, File, Control
  <2>3. QED
    BY <1>5, <2>1, <2>2 DEF Machine
<1>6. CASE UNCHANGED vars
  BY <1>6 DEF vars, memory, files, Stored
<1>7. QED
  BY <1>2, <1>3, <1>4, <1>5, <1>6 DEF Next

\* Unless something else damages the primary, it is a complete configuration
\* again after every kill and every power loss, whatever step of a save they meet.
THEOREM CompleteAfterRestart == Spec => []RestartFindsComplete
<1>1. Init => RestartFindsComplete
  <2>1. ASSUME Init PROVE primary.maybe \subseteq Config \cup {Absent}
    <3>1. Default \in Config
      BY BoundsAssumption DEF Default, Config
    <3>2. [Default EXCEPT !.legacy = TRUE] \in Config
      BY <3>1 DEF Config
    <3>3. PICK c \in {Absent, Default, [Default EXCEPT !.legacy = TRUE]} : primary = File(c)
      BY <2>1 DEF Init
    <3>4. primary.maybe = {c}
      BY <3>3 DEF File
    <3>5. QED
      BY <3>1, <3>2, <3>3, <3>4
  <2>2. QED
    BY <2>1 DEF RestartFindsComplete
<1>2. Shape /\ Stored /\ RestartFindsComplete /\ [Next]_vars => RestartFindsComplete'
  <2> SUFFICES ASSUME Shape, Stored, RestartFindsComplete, [Next]_vars, bounds'.damage = 0
               PROVE  primary'.maybe \subseteq Config \cup {Absent}
    BY DEF RestartFindsComplete
  <2>1. bounds \in [edits : 0 .. MaxEdits, crashes : Nat, damage : Nat] /\ primary.data \in primary.maybe
    BY DEF Shape, Memory, Filed, Holds
  <2>2. bounds.damage = 0 /\ ~Damage
    <3>1. \/ bounds' = bounds
          \/ bounds' = [bounds EXCEPT !.edits = @ + 1]
          \/ bounds' = [bounds EXCEPT !.crashes = @ + 1]
          \/ Damage
      BY DEF Next, Save, WriteTemp, SyncTemp, TruncateBackup, CopyBackup, Rename, SyncDir, SaveFails,
           Load, LoadPrimary, LoadMissing, LoadBackup, Read, Migrate, Setters, SetAccountBanStatus,
           UpdateAccountCredentialState, UpdateAccountStats, GetAccounts, UpdateAccount, Set, Count,
           Machine, Kill, PowerLoss, Down, vars
    <3>2. ~Damage
      BY <2>1 DEF Damage, Count
    <3>3. QED
      BY <2>1, <3>1, <3>2
  <2>3. primary.maybe \subseteq Config \cup {Absent}
    BY <2>2 DEF RestartFindsComplete
  <2>4. CASE primary' = primary
    BY <2>3, <2>4
  <2>5. CASE \E c \in primary.maybe : primary' = File(c)
    BY <2>3, <2>5 DEF File
  <2>6. CASE Rename
    <3>1. cfg \in Config
      BY <2>6, GoroutinesAssumption DEF Rename, Shape, Control, Memory, Reached
    <3>2. primary'.maybe = primary.maybe \cup {cfg}
      BY <2>6 DEF Rename, Stored, File
    <3>3. QED
      BY <2>3, <3>1, <3>2
  <2>7. primary' = primary \/ (\E c \in primary.maybe : primary' = File(c)) \/ Rename
    BY <2>1, <2>2 DEF Next, Save, WriteTemp, SyncTemp, TruncateBackup, CopyBackup, SyncDir, SaveFails,
         Load, LoadPrimary, LoadMissing, LoadBackup, Read, Migrate, Setters, SetAccountBanStatus,
         UpdateAccountCredentialState, UpdateAccountStats, GetAccounts, UpdateAccount, Set,
         Machine, Kill, PowerLoss, Down, vars, files
  <2>8. QED
    BY <2>4, <2>5, <2>6, <2>7
<1>3. QED
  BY <1>1, <1>2, ShapeInit, ShapeNext, StoredInit, StoredNext, PTL DEF Spec
(***************************************************************************)
(* The configuration implements the durable store                          *)
(***************************************************************************)
\* A setter that leaves memory as it is when its save fails is one of those
\* that change statistics.
Restoring ==
  /\ mix \in Mixes
  /\ holder \in Goroutines /\ ~rollback => "stats" \in mix

LEMMA RestoringInit == Init => Restoring
BY GoroutinesAssumption DEF Init, Restoring

LEMMA RestoringNext == Shape /\ Restoring /\ [Next]_vars => Restoring'
<1> SUFFICES ASSUME Shape, Restoring, [Next]_vars PROVE Restoring'
  OBVIOUS
<1>1. CASE Setters
  BY <1>1 DEF Setters, SetAccountBanStatus, UpdateAccountCredentialState, UpdateAccountStats,
              GetAccounts, UpdateAccount, Set, Restoring, memory
<1>2. CASE ~Setters
  <2>1. mix' = mix
    BY <1>2 DEF Next, vars, Save, WriteTemp, SyncTemp, TruncateBackup, CopyBackup, Rename, SyncDir,
                SaveFails, Load, LoadPrimary, LoadMissing, LoadBackup, Read, Migrate, Machine, Kill,
                PowerLoss, Down, Damage
  <2>2. holder' \in {holder, None, Main} /\ (holder' = holder /\ holder \in Goroutines => rollback' = rollback)
    BY <1>2, GoroutinesAssumption
       DEF Next, vars, memory, Save, WriteTemp, SyncTemp, TruncateBackup, CopyBackup, Rename, SyncDir,
           SaveFails, Finish, Load, LoadPrimary, LoadMissing, LoadBackup, Read, Migrate, Machine, Kill,
           PowerLoss, Down, Damage
  <2>3. QED
    BY <2>1, <2>2, GoroutinesAssumption DEF Restoring
<1>3. QED
  BY <1>1, <1>2

\* A step that leaves the primary and what readers see alone is none of the store's.
LEMMA Stutters ==
  ASSUME primary' = primary, Visible' = Visible
  PROVE  UNCHANGED Durable!vars
BY DEF Durable!vars, AsValue

LEMMA SaveMaps ==
  ASSUME Shape, Stored, Restoring, Save,
         \A m \in Mixes : ~({"stats", "fail"} \subseteq m)
  PROVE  [Durable!Next]_Durable!vars
<1>1. Control /\ Memory
  BY DEF Shape
<1>2. step # "none" /\ holder \in Goroutines \cup {Main}
  BY <1>1 DEF Save, WriteTemp, SyncTemp, TruncateBackup, CopyBackup, Rename, SyncDir, SaveFails, Control
<1>3. cfg \in Config
  BY <1>1, <1>2, GoroutinesAssumption DEF Control, Memory, Reached
<1>4. CASE WriteTemp \/ SyncTemp \/ TruncateBackup \/ \E ok \in BOOLEAN : CopyBackup(ok)
  <2>1. UNCHANGED <<primary, phase, holder, cfg, before>>
    BY <1>4 DEF WriteTemp, SyncTemp, TruncateBackup, CopyBackup, memory
  <2>2. Visible' = Visible
    BY <2>1 DEF Visible
  <2>3. QED
    BY <2>1, <2>2, Stutters
<1>5. CASE Rename
  <2>1. /\ primary' = [data |-> cfg, maybe |-> primary.maybe \cup {cfg}]
        /\ UNCHANGED <<phase, holder, cfg, before>>
    BY <1>5 DEF Rename, Stored, File, memory
  <2>2. Visible' = Visible
    BY <2>1 DEF Visible
  <2>3. AsValue(primary.data)' = cfg
    BY <1>3, <2>1 DEF AsValue
  <2>4. {AsValue(c) : c \in primary.maybe}' = {AsValue(c) : c \in primary.maybe} \cup {cfg}
    BY <1>3, <2>1 DEF AsValue
  <2>5. Durable!Store(cfg)
    BY <2>2, <2>3, <2>4 DEF Durable!Store
  <2>6. QED
    BY <1>3, <2>5 DEF Durable!Next
<1>6. CASE SyncDir
  <2>1. primary' = File(cfg) /\ primary.data = cfg
    BY <1>6 DEF SyncDir, Stored
  <2>2. /\ AsValue(primary.data) = cfg /\ AsValue(primary.data)' = cfg
        /\ {AsValue(c) : c \in primary.maybe}' = {cfg}
    BY <1>3, <2>1 DEF AsValue, File
  <2>3. CASE holder = Main
    <3>1. Visible' = Visible
      BY <1>1, <1>6, <2>3 DEF SyncDir, Finish, Visible, Control
    <3>2. Durable!Sync
      BY <2>2, <3>1 DEF Durable!Sync
    <3>3. QED
      BY <3>2 DEF Durable!Next
  <2>4. CASE holder \in Goroutines
    <3>1. Visible' = cfg
      BY <1>1, <1>6, <2>4, GoroutinesAssumption DEF SyncDir, Finish, Visible, Control
    <3>2. Durable!Show
      BY <1>3, <2>2, <3>1 DEF Durable!Show
    <3>3. QED
      BY <3>2 DEF Durable!Next
  <2>5. QED
    BY <1>2, <2>3, <2>4
<1>7. CASE SaveFails
  <2>1. primary' = primary /\ "fail" \in mix /\ Finish(FALSE)
    BY <1>7 DEF SaveFails
  <2>2. CASE holder = Main
    <3>1. phase = "loading" /\ phase' = "down"
      BY <1>1, <2>1, <2>2 DEF Finish, Control
    <3>2. Visible' = Visible
      BY <3>1 DEF Visible
    <3>3. QED
      BY <2>1, <3>2, Stutters
  <2>3. CASE holder \in Goroutines
    <3>1. rollback
      BY <2>1, <2>3 DEF Restoring
    <3>2. holder # Main /\ holder # None /\ phase = "up"
      BY <1>1, <2>3, GoroutinesAssumption DEF Control
    <3>3. phase' = phase /\ holder' = None /\ cfg' = before
      BY <2>1, <3>1, <3>2 DEF Finish
    <3>4. Visible' = Visible
      BY <3>2, <3>3 DEF Visible
    <3>5. QED
      BY <2>1, <3>4, Stutters
  <2>4. QED
    BY <1>2, <2>2, <2>3
<1>8. QED
  BY <1>4, <1>5, <1>6, <1>7 DEF Save

LEMMA OthersMap ==
  ASSUME Shape, Stored, Load \/ Setters \/ Machine
  PROVE  [Durable!Next]_Durable!vars
<1>1. Control /\ Memory
  BY DEF Shape
<1>2. CASE LoadPrimary \/ LoadMissing \/ LoadBackup
  <2>1. primary' = primary /\ phase = "down" /\ phase' = "loading"
    BY <1>2 DEF LoadPrimary, LoadMissing, LoadBackup, Read, files
  <2>2. QED
    BY <2>1, Stutters DEF Visible
<1>3. CASE Migrate
  <2>1. primary' = primary /\ phase = "loading" /\ step = "none" /\ cfg \in Config
    BY <1>1, <1>3 DEF Migrate, files, Memory, Reached
  <2>2. CASE cfg.legacy
    <3>1. phase' = phase
      BY <1>3, <2>2 DEF Migrate
    <3>2. QED
      BY <2>1, <3>1, Stutters DEF Visible
  <2>3. CASE ~cfg.legacy
    <3>1. phase' = "up" /\ holder' = None /\ cfg' = cfg
      BY <1>3, <2>3 DEF Migrate
    <3>2. Visible' = cfg
      BY <3>1 DEF Visible
    <3>3. primary = File(cfg)
      BY <2>1 DEF Stored
    <3>4. /\ AsValue(primary.data) = cfg /\ AsValue(primary.data)' = cfg
          /\ {AsValue(c) : c \in primary.maybe}' = {cfg}
      BY <2>1, <3>3 DEF AsValue, File
    <3>5. Durable!Show
      BY <2>1, <3>2, <3>4 DEF Durable!Show
    <3>6. QED
      BY <3>5 DEF Durable!Next
  <2>4. QED
    BY <2>2, <2>3
<1>4. CASE Setters
  <2>1. PICK p \in Goroutines :
          GetAccounts(p) \/ \E what, new, restores : Set(p, what, new, restores)
    BY <1>4 DEF Setters, SetAccountBanStatus, UpdateAccountCredentialState,
                UpdateAccountStats, UpdateAccount
  <2>2. primary' = primary
    BY <2>1 DEF GetAccounts, Set, files
  <2>3. CASE GetAccounts(p)
    BY <2>2, <2>3, Stutters DEF GetAccounts, Visible, memory
  <2>4. CASE \E what, new, restores : Set(p, what, new, restores)
    <3>1. phase = "up" /\ phase' = "up" /\ holder = None /\ holder' = p /\ before' = cfg
      BY <2>4 DEF Set
    <3>2. Visible' = Visible
      BY <3>1, GoroutinesAssumption DEF Visible
    <3>3. QED
      BY <2>2, <3>2, Stutters
  <2>5. QED
    BY <2>1, <2>3, <2>4
<1>5. CASE Kill \/ PowerLoss
  <2>1. Visible' = None
    BY <1>5 DEF Kill, PowerLoss, Down, Visible
  <2>2. PICK c \in primary.maybe : primary' = File(c)
    BY <1>5 DEF Kill, PowerLoss, Shape, Filed, Holds
  <2>3. /\ AsValue(primary.data)' = AsValue(c)
        /\ {AsValue(d) : d \in primary.maybe}' = {AsValue(c)}
        /\ AsValue(c) \in {AsValue(d) : d \in primary.maybe}
    BY <2>2 DEF AsValue, File
  <2>4. Durable!Stop
    BY <2>1, <2>3 DEF Durable!Stop
  <2>5. QED
    BY <2>4 DEF Durable!Next
<1>6. CASE Damage
  <2>1. primary' = File(Corrupt) /\ Visible' = Visible
    BY <1>6 DEF Damage, Visible, memory
  <2>2. AsValue(primary.data)' = None /\ {AsValue(d) : d \in primary.maybe}' = {None}
    BY <2>1, ContentsAssumption DEF AsValue, File
  <2>3. Durable!Damage
    BY <2>1, <2>2 DEF Durable!Damage
  <2>4. QED
    BY <2>3 DEF Durable!Next
<1>7. QED
  BY <1>2, <1>3, <1>4, <1>5, <1>6 DEF Load, Machine

\* Readers of the configuration see a value that is on disk, they see it after it
\* is, and a restart finds what they saw or something stored since: through
\* failed saves, kills and power losses, as long as setters that do not restore
\* memory (the statistics) do not meet a save that fails.
THEOREM ConfigurationIsDurable ==
  ASSUME \A m \in Mixes : ~({"stats", "fail"} \subseteq m)
  PROVE  Spec => ImplementsDurableStore
<1>1. Init => Durable!Init
  <2> SUFFICES ASSUME Init PROVE Durable!Init
    OBVIOUS
  <2>1. PICK c \in {Absent, Default, [Default EXCEPT !.legacy = TRUE]} : primary = File(c)
    BY DEF Init
  <2>2. /\ AsValue(primary.data) = AsValue(c) /\ AsValue(c) \in Config \cup {None}
        /\ {AsValue(d) : d \in primary.maybe} = {AsValue(c)}
    BY <2>1 DEF AsValue, File
  <2>3. Visible = None
    BY DEF Init, Visible
  <2>4. QED
    BY <2>2, <2>3 DEF Durable!Init
<1>2. Shape /\ Stored /\ Restoring /\ [Next]_vars => [Durable!Next]_Durable!vars
  <2> SUFFICES ASSUME Shape, Stored, Restoring, [Next]_vars PROVE [Durable!Next]_Durable!vars
    OBVIOUS
  <2>1. CASE UNCHANGED vars
    BY <2>1, Stutters DEF vars, files, memory, Visible
  <2>2. QED
    BY <2>1, SaveMaps, OthersMap DEF Next
<1>3. QED
  BY <1>1, <1>2, ShapeInit, ShapeNext, StoredInit, StoredNext, RestoringInit, RestoringNext, PTL
     DEF Spec, ImplementsDurableStore, Durable!Spec

\* However old the record is that an edit writes back, the credential saved
\* meanwhile is not taken back by it.
THEOREM EditsKeepTheCredential == Spec => EditKeepsCredential
<1>1. Shape /\ [Next]_vars =>
        [\A p \in Goroutines : UpdateAccount(p) => cfg'.cred = cfg.cred]_vars
  <2> SUFFICES ASSUME Shape, NEW p \in Goroutines, UpdateAccount(p)
               PROVE  cfg'.cred = cfg.cred
    OBVIOUS
  <2>1. copy[p] \in Config
    BY DEF UpdateAccount, Shape, Memory, Reached
  <2>2. cfg' = [copy[p] EXCEPT !.weight = (@ + 1) % (MaxEdits + 1), !.cred = cfg.cred]
    BY DEF UpdateAccount, Set
  <2>3. QED
    BY <2>1, <2>2 DEF Config
<1>2. QED
  BY <1>1, ShapeInit, ShapeNext, PTL DEF Spec, EditKeepsCredential
================================================================================
