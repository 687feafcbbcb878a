---------------------------- MODULE PresetStore ----------------------------
(***************************************************************************)
(* The models (presets): the directory and blobs in NVS (preset_store.cpp),*)
(* the handlers that create, save, apply, revert, delete and select them   *)
(* (sketch.cpp), and boot.                                                 *)
(*                                                                         *)
(* Every NVS write is a step of its own, after which the power may fail or *)
(* the next write may be refused.  A configuration is represented by the   *)
(* one field whose stored form differs from its run-time form, the PWM     *)
(* failsafe mode of an output: exportCurrentConfig packs it into two bits  *)
(* and applyPersistedConfig unpacks them.  Names are sanitized already;    *)
(* the directory compares them without regard to case (Fold), the handlers *)
(* compare them exactly.  The runtime copy under the key "cfg" is left out:*)
(* it is written by every apply and save and read by nothing.              *)
(***************************************************************************)
EXTENDS Integers, Sequences, FiniteSets

CONSTANTS
    Names,          \* model names a request may carry
    Fold,           \* a name in lower case, for equalsIgnoreCase
    Builtins,       \* car, excavator, skid_steer
    Car,            \* kPresetRcCar
    NewNames,       \* names a model may be created under
    Legacy,         \* rc_car_controller: the car's name in older firmware
    OldNames,       \* user presets an earlier firmware may have left
    MaxUserPresets, \* kMaxUserPresets
    Modes,          \* failsafe modes an edit may choose
    Interrupts,     \* phases in which the power or an NVS write may fail
    ApplyOutcomes   \* BOOLEAN, or {TRUE} if applyPersistedConfig never fails

Phases == {"idle", "blob", "dir", "copy", "erase", "newdir", "after"}

ASSUME PresetStoreAssumption ==
    /\ Builtins \subseteq Names /\ Car \in Builtins
    /\ OldNames \subseteq Names \ Builtins /\ NewNames \subseteq Names
    /\ Legacy \subseteq Names \ Builtins /\ Fold \in [Names -> Names]
    /\ MaxUserPresets \in Nat \ {0} /\ Modes \subseteq {"Min", "Center", "Max"}
    /\ Interrupts \subseteq Phases /\ ApplyOutcomes \subseteq BOOLEAN

Absent   == -1      \* no blob under the key
Obsolete == -2      \* a blob of the same size with another version
Error    == -3      \* the load is refused

VARIABLES
    dir, blob, boot_model,                              \* NVS
    g_currentModelName, g_bootModelName, g_modelDirty,  \* RAM
    config,                                             \* the run-time configuration
    phase, job,                                         \* the handler under way
    kept            \* history: the presets when a deletion began

nvs  == <<dir, blob, boot_model>>
ram  == <<g_currentModelName, g_bootModelName, g_modelDirty, config>>
task == <<phase, job>>
vars == <<nvs, ram, task, kept>>

Slots == 1 .. MaxUserPresets     \* pr0 .. pr7

-----------------------------------------------------------------------------
(* The stored form of a configuration.                                     *)

ModeNumber == [m \in {"Min", "Center", "Max"} |->
                 CASE m = "Min" -> 0 [] m = "Center" -> 1 [] OTHER -> 2]

(* exportCurrentConfig: failsafePacked.                                    *)
Packed(mode) == (ModeNumber[mode] + 1) % 4

(* pwmFailsafeModeFromPacked.                                              *)
Unpacked(bits) ==
    CASE bits = 0 -> "Center" [] bits = 1 -> "Min" [] bits = 2 -> "Max" [] OTHER -> "Center"

(* The built-in presets and an empty one leave the bits 0.                 *)
BuiltinBits == 0

(* Mutant: names compared exactly.                                         *)
FindSlotExact(d, name) ==
    LET hits == {i \in DOMAIN d : d[i] = name}
    IN  IF hits = {} THEN 0 ELSE CHOOSE i \in hits : \A j \in hits : i <= j

(* findPresetSlotByName; 0 if there is none.                               *)
FindSlot(d, name) ==
    LET hits == {i \in DOMAIN d : Fold[d[i]] = Fold[name]}
    IN  IF hits = {} THEN 0 ELSE CHOOSE i \in hits : \A j \in hits : i <= j

(* The blob that loadUserPreset reads for a name, and what it makes of it. *)
Stored(name) ==
    LET s == FindSlot(dir, name) IN IF s = 0 THEN Absent ELSE blob[s]

LoadUser(name) ==
    IF Stored(name) \in {Absent, Obsolete} THEN Error ELSE Stored(name)

(* loadAnyPreset: the built-in ones first.                                 *)
Load(name) == IF name \in Builtins \cup Legacy THEN BuiltinBits ELSE LoadUser(name)

NoJob == [kind |-> "none", name |-> Car, slot |-> 0, cfg |-> 0, dir |-> <<>>, i |-> 0]

(* The presets as a list, each with what its slot holds.                   *)
Entries == [i \in DOMAIN dir |-> [name |-> dir[i], blob |-> blob[i]]]

-----------------------------------------------------------------------------
(* loadBootModelName and setup(): the boot model, or the car if it cannot  *)
(* be loaded or has the car's old name.                                    *)
Booted(nvsBoot, cfgBefore) ==
    LET name == IF nvsBoot \in Legacy \/ Load(nvsBoot) = Error THEN Car ELSE nvsBoot
    IN  /\ g_bootModelName' = name
        /\ g_currentModelName' = name
        /\ g_modelDirty' = FALSE
        /\ \E ok \in ApplyOutcomes :
             config' = IF ok THEN Unpacked(Load(name)) ELSE cfgBefore

Init ==
    /\ \/ dir = <<>> /\ blob = [s \in Slots |-> Absent]
       \/ \E n \in OldNames :
            /\ dir = <<n>>
            /\ blob = [s \in Slots |-> IF s = 1 THEN Obsolete ELSE Absent]
    /\ boot_model = Car /\ g_bootModelName = Car /\ g_currentModelName = Car
    /\ g_modelDirty = FALSE /\ config = Unpacked(BuiltinBits)
    /\ phase = "idle" /\ job = NoJob /\ kept = <<>>

(* Power loss: RAM is gone, NVS keeps what has been written.               *)
Crash ==
    /\ phase \in Interrupts
    /\ Booted(boot_model, "Center")
    /\ phase' = "idle" /\ job' = NoJob
    /\ kept' = <<>>
    /\ UNCHANGED nvs

(* Any of the edit handlers of inputs and outputs.                         *)
Edit(mode) ==
    /\ phase = "idle"
    /\ config' = mode
    /\ g_modelDirty' = TRUE
    /\ UNCHANGED <<nvs, task, kept, g_currentModelName, g_bootModelName>>

(* applyPersistedConfig of bits, after which the model has this name.      *)
Become(bits, name) ==
    /\ config' = Unpacked(bits)
    /\ g_currentModelName' = name
    /\ g_modelDirty' = FALSE

(* handleApiPresetApply; a refused load or apply changes nothing.          *)
PresetApply(name) ==
    /\ phase = "idle"
    /\ TRUE \in ApplyOutcomes
    /\ Load(name) # Error
    /\ Become(Load(name), name)
    /\ UNCHANGED <<nvs, task, kept, g_bootModelName>>

(* handleApiModelRevert.                                                   *)
ModelRevert ==
    /\ phase = "idle"
    /\ TRUE \in ApplyOutcomes
    /\ Load(g_currentModelName) # Error
    /\ Become(Load(g_currentModelName), g_currentModelName)
    /\ UNCHANGED <<nvs, task, kept, g_bootModelName>>

(* Mutant: the choice is shown but not stored.                             *)
ModelSetDefaultUnsaved(name) ==
    /\ phase = "idle"
    /\ Load(name) # Error
    /\ g_bootModelName' = name
    /\ UNCHANGED <<nvs, task, kept, g_currentModelName, g_modelDirty, config>>

(* handleApiModelSetDefault: one NVS write.                                *)
ModelSetDefault(name) ==
    /\ phase = "idle"
    /\ Load(name) # Error
    /\ boot_model' = name
    /\ g_bootModelName' = name
    /\ UNCHANGED <<dir, blob, task, kept, g_currentModelName, g_modelDirty, config>>

-----------------------------------------------------------------------------
(* Mutant: the limit checked with > instead of >=.                         *)
StartSaveOneTooMany(kind, name, bits) ==
    LET found == FindSlot(dir, name)
        d     == IF found = 0 THEN Append(dir, name) ELSE dir
    IN  /\ found # 0 \/ Len(dir) <= MaxUserPresets
        /\ job' = [kind |-> kind, name |-> name, cfg |-> bits, dir |-> d, i |-> 0,
                   slot |-> IF found = 0 THEN Len(d) ELSE found]
        /\ phase' = "blob"
        /\ UNCHANGED <<nvs, ram, kept>>

(* saveUserPresetBlob: find or reserve a slot in a copy of the directory.  *)
StartSave(kind, name, bits) ==
    LET found == FindSlot(dir, name)
        d     == IF found = 0 THEN Append(dir, name) ELSE dir
    IN  /\ found # 0 \/ Len(dir) < MaxUserPresets
        /\ job' = [kind |-> kind, name |-> name, cfg |-> bits, dir |-> d, i |-> 0,
                   slot |-> IF found = 0 THEN Len(d) ELSE found]
        /\ phase' = "blob"
        /\ UNCHANGED <<nvs, ram, kept>>

(* handleApiModelCreate: from the current configuration, from a base, or   *)
(* empty.                                                                  *)
ModelCreate(name, bits) ==
    /\ phase = "idle"
    /\ bits \in {Packed(config), BuiltinBits} \cup ({Load(n) : n \in Names} \ {Error})
    /\ StartSave("create", name, bits)

(* handleApiModelSaveCurrent: refused for the built-in models.             *)
ModelSaveCurrent ==
    /\ phase = "idle"
    /\ g_currentModelName \notin Builtins
    /\ StartSave("save", g_currentModelName, Packed(config))

(* nvs_set_blob of the preset.  If the name was in the directory already,  *)
(* this is the moment the store changes.                                   *)
SaveBlob ==
    /\ phase = "blob"
    /\ blob' = [blob EXCEPT ![job.slot] = job.cfg]
    /\ phase' = "dir"
    /\ UNCHANGED <<dir, boot_model, ram, job, kept>>

(* nvs_set_blob of the directory, and the rest of the handler.  A created  *)
(* model becomes current only if it can be applied.                        *)
SaveDir ==
    /\ phase = "dir"
    /\ dir' = job.dir
    /\ phase' = "idle" /\ job' = NoJob
    /\ IF job.kind = "create"
       THEN \E ok \in ApplyOutcomes :
              IF ok THEN Become(job.cfg, job.name) /\ UNCHANGED g_bootModelName
              ELSE UNCHANGED ram
       ELSE /\ g_modelDirty' = FALSE
            /\ UNCHANGED <<g_currentModelName, g_bootModelName, config>>
    /\ UNCHANGED <<blob, boot_model, kept>>

-----------------------------------------------------------------------------
(* handleApiModelDelete and deleteUserPreset: refused for the built-in     *)
(* models and for unknown names.                                           *)
ModelDelete(name) ==
    /\ phase = "idle"
    /\ name \notin Builtins
    /\ FindSlot(dir, name) # 0
    /\ job' = [kind |-> "delete", name |-> name, slot |-> FindSlot(dir, name),
               cfg |-> 0, dir |-> <<>>, i |-> 1]
    /\ phase' = "copy"
    /\ kept' = Entries
    /\ UNCHANGED <<nvs, ram>>

(* Copy the blobs of the other presets down, one after the other, and note *)
(* their names; a slot without a blob is dropped.                          *)
DeleteCopy ==
    /\ phase = "copy"
    /\ job.i <= Len(dir)
    /\ IF job.i = job.slot \/ blob[job.i] = Absent
       THEN /\ job' = [job EXCEPT !.i = job.i + 1]
            /\ UNCHANGED blob
       ELSE /\ blob' = [blob EXCEPT ![Len(job.dir) + 1] = blob[job.i]]
            /\ job' = [job EXCEPT !.i = job.i + 1, !.dir = Append(job.dir, dir[job.i])]
    /\ UNCHANGED <<dir, boot_model, ram, phase, kept>>

(* Mutant: erases from the last survivor on.                               *)
DeleteCopiedOffByOne ==
    /\ phase = "copy"
    /\ job.i > Len(dir)
    /\ phase' = "erase"
    /\ job' = [job EXCEPT !.i = Len(job.dir)]
    /\ UNCHANGED <<nvs, ram, kept>>

DeleteCopied ==
    /\ phase = "copy"
    /\ job.i > Len(dir)
    /\ phase' = "erase"
    /\ job' = [job EXCEPT !.i = Len(job.dir) + 1]
    /\ UNCHANGED <<nvs, ram, kept>>

(* Erase the slots that are left over; the loop ignores a refusal.         *)
DeleteErase ==
    /\ phase = "erase"
    /\ IF job.i <= Len(dir)
       THEN /\ \/ blob' = [blob EXCEPT ![job.i] = Absent]
               \/ "erase" \in Interrupts /\ UNCHANGED blob
            /\ job' = [job EXCEPT !.i = job.i + 1]
            /\ UNCHANGED phase
       ELSE phase' = "newdir" /\ UNCHANGED <<blob, job>>
    /\ UNCHANGED <<dir, boot_model, ram, kept>>

(* Write the new directory: only now is the preset gone.                   *)
DeleteDir ==
    /\ phase = "newdir"
    /\ dir' = job.dir
    /\ kept' = <<>>
    /\ phase' = "after"
    /\ UNCHANGED <<blob, boot_model, ram, job>>

(* The rest of the handler: a deleted boot model falls back to the car, a  *)
(* deleted current model to the boot model, whatever applyPersistedConfig  *)
(* answers and whether or not NVS takes the new boot model.                *)
DeleteAfter ==
    /\ phase = "after"
    /\ LET bootName == IF g_bootModelName = job.name THEN Car ELSE g_bootModelName
           next     == IF Load(bootName) = Error THEN Car ELSE bootName
       IN  /\ \/ boot_model' = bootName /\ g_bootModelName = job.name
              \/ boot_model' = boot_model
                 /\ (g_bootModelName = job.name => "after" \in Interrupts)
           /\ IF g_currentModelName = job.name
              THEN /\ g_bootModelName' = next
                   /\ g_currentModelName' = next
                   /\ g_modelDirty' = FALSE
                   /\ \E ok \in ApplyOutcomes :
                        config' = IF ok THEN Unpacked(Load(next)) ELSE config
              ELSE /\ g_bootModelName' = bootName
                   /\ UNCHANGED <<g_currentModelName, g_modelDirty, config>>
    /\ phase' = "idle" /\ job' = NoJob
    /\ UNCHANGED <<dir, blob, kept>>

(* An NVS write is refused: the handler answers with an error and stops,   *)
(* except in the loop that erases and in DeleteAfter, which go on.         *)
WriteRefused ==
    /\ phase \in Interrupts \cap {"blob", "dir", "copy", "newdir"}
    /\ phase' = "idle" /\ job' = NoJob
    /\ kept' = <<>>
    /\ UNCHANGED <<nvs, ram>>

Next ==
    \/ Crash \/ WriteRefused
    \/ \E mode \in Modes : Edit(mode)
    \/ \E name \in Names : PresetApply(name) \/ ModelSetDefault(name) \/ ModelDelete(name)
    \/ ModelRevert
    \/ \E name \in NewNames, bits \in 0 .. 3 : ModelCreate(name, bits)
    \/ ModelSaveCurrent \/ SaveBlob \/ SaveDir
    \/ DeleteCopy \/ DeleteCopied \/ DeleteErase \/ DeleteDir \/ DeleteAfter

Spec == Init /\ [][Next]_vars

-----------------------------------------------------------------------------
(* Properties.                                                             *)

Bits == 0 .. 3 \cup {Absent, Obsolete}

TypeOK ==
    /\ dir \in Seq(Names) /\ Len(dir) <= MaxUserPresets
    /\ blob \in [Slots -> Bits] /\ boot_model \in Names
    /\ g_currentModelName \in Names /\ g_bootModelName \in Names
    /\ g_modelDirty \in BOOLEAN /\ config \in {"Min", "Center", "Max"}
    /\ phase \in Phases
    /\ job \in [kind : {"none", "create", "save", "delete"}, name : Names,
                slot : 0 .. MaxUserPresets, cfg : 0 .. 3, dir : Seq(Names),
                i : 0 .. MaxUserPresets + 1]
    /\ kept \in Seq([name : Names, blob : Bits])

Deleting == phase \in {"copy", "erase", "newdir"}

(* The store keeps what it is told to keep: a save or a deletion, though   *)
(* made of several NVS writes, takes effect at once or, if the power or a  *)
(* write fails, not at all; the others keep their blobs and their order.   *)
(* The one exception is a deletion cut short, which may mix up the presets *)
(* stored after the deleted one, and never those stored before it.         *)
PL == INSTANCE PresetList WITH
        Blobs <- 0 .. 3 \cup {Obsolete}, NoBlob <- Absent,
        MaxEntries <- MaxUserPresets,
        entries <- IF Deleting THEN kept ELSE Entries

ImplementsPresetList == PL!Spec

(* No two directory entries differ in case only: each can be reached.      *)
DirectoryUnambiguous ==
    \A i, j \in DOMAIN dir : Fold[dir[i]] = Fold[dir[j]] => i = j

(* The boot model the web page shows is the one in NVS, or the car that    *)
(* replaces a boot model that was deleted or could not be loaded: the next *)
(* boot never takes a model the user has not chosen at some time.          *)
BootShownIsStored ==
    boot_model = g_bootModelName \/ g_bootModelName = Car

(* Why these hold, in every state: the parts of the inductive invariant.   *)

(* A save has found the name in the directory, in some spelling, or has    *)
(* reserved the next slot for it; the blob is written before the name.     *)
SavePlanned ==
    phase \in {"blob", "dir"} =>
        /\ \/ /\ job.slot \in DOMAIN dir /\ job.dir = dir
              /\ Fold[dir[job.slot]] = Fold[job.name]
           \/ /\ job.slot = Len(dir) + 1 /\ job.dir = Append(dir, job.name)
              /\ \A i \in DOMAIN dir : Fold[dir[i]] # Fold[job.name]
        /\ job.slot \in Slots
        /\ phase = "dir" => blob[job.slot] = job.cfg

(* The slots the copying loop of a deletion has passed, and those of them  *)
(* whose presets survive.                                                  *)
Passed == IF phase = "copy" THEN job.i - 1 ELSE Len(dir)

Surviving == {j \in 1 .. Passed : j # job.slot /\ kept[j].blob # Absent}

(* The slots before the deleted one, and before any that has no blob.      *)
Unmoved == {j \in 1 .. job.slot - 1 : \A k \in 1 .. j : kept[k].blob # Absent}

(* A deletion knows the presets it began with, by name and place.          *)
DeletePlanned ==
    Deleting =>
        /\ job.slot \in DOMAIN dir
        /\ Len(kept) = Len(dir)
        /\ \A j \in DOMAIN dir : kept[j].name = dir[j]
        /\ job.i \in 1 .. Len(dir) + 1
        /\ Len(job.dir) <= Passed
        /\ phase = "erase" => job.i > Len(job.dir)

(* The surviving presets it has passed are packed, in order, at the front; *)
(* those that need not move are where they were.                           *)
Packs(f) ==
    /\ \A j, k \in DOMAIN job.dir : j < k => f[j] < f[k]
    /\ \A p \in Surviving : \E k \in DOMAIN job.dir : f[k] = p
    /\ \A k \in DOMAIN job.dir : job.dir[k] = dir[f[k]] /\ blob[k] = kept[f[k]].blob

SurvivorsPacked ==
    Deleting => /\ \E f \in [DOMAIN job.dir -> Surviving] : Packs(f)
                /\ \A j \in Unmoved : j <= Passed => j <= Len(job.dir)

(* What a deletion has done to a slot so far: nothing, or, if the slot     *)
(* comes after a gap, a copy of a later one or an erasure.  It still reads *)
(* what was there from the slots ahead.                                    *)
DamageBounded ==
    Deleting =>
        /\ phase = "copy" => \A j \in job.i .. Len(dir) : blob[j] = kept[j].blob
        /\ \A j \in DOMAIN dir :
             \/ blob[j] = kept[j].blob
             \/ /\ j \notin Unmoved
                /\ blob[j] = Absent \/ \E k \in DOMAIN dir : k > j /\ blob[j] = kept[k].blob

(* The inductive invariant of the store.                                   *)
StoreInv ==
    /\ TypeOK /\ DirectoryUnambiguous /\ BootShownIsStored
    /\ SavePlanned /\ DeletePlanned /\ SurvivorsPacked /\ DamageBounded

(* USER_GUIDE.md 5: "`Save` to store into the current preset".  With no    *)
(* unsaved changes, loading the current model gives the running            *)
(* configuration.                                                          *)
CleanMeansStored ==
    phase = "idle" /\ ~g_modelDirty =>
        Load(g_currentModelName) = Error \/ Unpacked(Load(g_currentModelName)) = config
=============================================================================
