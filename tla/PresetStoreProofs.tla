------------------------- MODULE PresetStoreProofs -------------------------
(* Proofs about PresetStore, for all names, limits and interruptions.      *)
EXTENDS PresetStore, SequenceTheorems, WellFoundedInduction, TLAPS

USE PresetStoreAssumption

(* A set of numbers with a member has a least one.                         *)
LEMMA LeastExists ==
  ASSUME NEW S \in SUBSET Nat, S # {}
  PROVE  \E p \in S : \A q \in S : p <= q
<1> DEFINE Less == OpToRel(<, Nat)
<1>1. \A p, q \in Nat : <<q, p>> \in Less <=> q < p
  BY DEF OpToRel
<1>2. IsWellFoundedOn(Less, Nat)
  BY NatLessThanWellFounded
<1> HIDE DEF Less
<1>3. PICK p \in S : \A q \in S : ~ (<<q, p>> \in Less)
  BY <1>2, WFMin
<1>4. \A q \in S : ~ (q < p)
  BY <1>1, <1>3, Zenon
<1>5. \A q \in S : p <= q
  BY <1>4
<1> QED BY <1>5

(* findPresetSlotByName finds the name in some spelling, or there is none. *)
LEMMA FindSlotHits ==
  ASSUME NEW d \in Seq(Names), NEW name \in Names
  PROVE  \/ /\ FindSlot(d, name) = 0
            /\ \A i \in DOMAIN d : Fold[d[i]] # Fold[name]
         \/ /\ FindSlot(d, name) \in DOMAIN d
            /\ Fold[d[FindSlot(d, name)]] = Fold[name]
<1> DEFINE hits == {i \in DOMAIN d : Fold[d[i]] = Fold[name]}
<1>1. CASE hits = {}
  BY <1>1 DEF FindSlot
<1>2. CASE hits # {}
  <2>1. \E p \in hits : \A q \in hits : p <= q
    BY <1>2, LeastExists, hits \in SUBSET Nat
  <2>2. (CHOOSE i \in hits : \A j \in hits : i <= j) \in hits
    BY <2>1
  <2>3. FindSlot(d, name) \in hits
    BY <1>2, <2>2, Zenon DEF FindSlot
  <2> QED BY <2>3
<1> QED BY <1>1, <1>2

(* What unpacking yields is a failsafe mode, what packing yields two bits. *)
LEMMA PackedTypes ==
  /\ \A bits : Unpacked(bits) \in {"Min", "Center", "Max"}
  /\ \A mode \in {"Min", "Center", "Max"} : Packed(mode) \in 0 .. 3
<1>1. \A bits : Unpacked(bits) \in {"Min", "Center", "Max"}
  BY DEF Unpacked
<1>2. \A mode \in {"Min", "Center", "Max"} : Packed(mode) \in 0 .. 3
  BY DEF Packed, ModeNumber
<1> QED BY <1>1, <1>2

(* The state apart from the dirty flag.                                    *)
Ranges ==
  /\ dir \in Seq(Names) /\ Len(dir) <= MaxUserPresets
  /\ blob \in [Slots -> Bits]
  /\ boot_model \in Names
  /\ g_currentModelName \in Names
  /\ g_bootModelName \in Names
  /\ config \in {"Min", "Center", "Max"}
  /\ phase \in Phases
  /\ job \in [kind : {"none", "create", "save", "delete"}, name : Names,
              slot : 0 .. MaxUserPresets, cfg : 0 .. 3, dir : Seq(Names),
              i : 0 .. MaxUserPresets + 1]
  /\ kept \in Seq([name : Names, blob : Bits])

(* The type invariant is the conjunction of these parts.                   *)
LEMMA TypeParts == TypeOK <=> Ranges /\ g_modelDirty \in BOOLEAN
  BY Zenon DEF TypeOK, Ranges

(* The same in the next state.                                             *)
LEMMA TypePartsPrimed == TypeOK' <=> Ranges' /\ g_modelDirty' \in BOOLEAN
  BY Zenon DEF TypeOK, Ranges

(* The dirty flag stays a Boolean.                                         *)
LEMMA DirtyStep == g_modelDirty \in BOOLEAN /\ [Next]_vars => g_modelDirty' \in BOOLEAN
  BY Zenon DEF Next, vars, nvs, ram, task, Crash, Booted, WriteRefused, Edit, PresetApply, Become,
     ModelSetDefault, ModelDelete, ModelRevert, ModelCreate, StartSave, ModelSaveCurrent,
     SaveBlob, SaveDir, DeleteCopy, DeleteCopied, DeleteErase, DeleteDir, DeleteAfter

(* What a load may yield.                                                  *)
LEMMA LoadType ==
  ASSUME Ranges, NEW name \in Names
  PROVE  Load(name) \in 0 .. 3 \cup {Error}
<1>1. Stored(name) \in Bits
  BY FindSlotHits DEF Ranges, Stored, Bits, Slots
<1> QED BY <1>1 DEF Load, LoadUser, Bits, Absent, Obsolete, Error, BuiltinBits

(* A directory and its slots make a list of entries.                       *)
LEMMA ListType ==
  ASSUME NEW d \in Seq(Names), Len(d) <= MaxUserPresets, NEW b \in [Slots -> Bits],
         NEW es, es = [i \in DOMAIN d |-> [name |-> d[i], blob |-> b[i]]]
  PROVE  /\ es \in Seq([name : Names, blob : Bits]) /\ DOMAIN es = DOMAIN d
         /\ \A i \in DOMAIN d : es[i] = [name |-> d[i], blob |-> b[i]]
<1>1. DOMAIN d = 1 .. Len(d) /\ Len(d) \in Nat
  OBVIOUS
<1>2. \A i \in 1 .. Len(d) : [name |-> d[i], blob |-> b[i]] \in [name : Names, blob : Bits]
  BY <1>1 DEF Slots
<1>3. es = [i \in 1 .. Len(d) |-> [name |-> d[i], blob |-> b[i]]]
  BY <1>1
<1>4. es \in Seq([name : Names, blob : Bits])
  BY <1>1, <1>2, <1>3, IsASeq
<1> QED BY <1>4

(* The list of presets, as a sequence.                                     *)
LEMMA EntriesType ==
  ASSUME Ranges
  PROVE  /\ Entries \in Seq([name : Names, blob : Bits])
         /\ Len(Entries) = Len(dir) /\ DOMAIN Entries = 1 .. Len(dir) /\ DOMAIN dir = 1 .. Len(dir)
         /\ \A i \in DOMAIN dir : /\ i \in Slots /\ Entries[i] = [name |-> dir[i], blob |-> blob[i]]
                                  /\ Entries[i].name = dir[i] /\ Entries[i].blob = blob[i]
<1>1. DOMAIN dir = 1 .. Len(dir) /\ Len(dir) \in Nat
  BY DEF Ranges
<1>2. \A i \in 1 .. Len(dir) : i \in Slots /\ [name |-> dir[i], blob |-> blob[i]] \in [name : Names, blob : Bits]
  BY <1>1 DEF Ranges, Slots
<1>3. Entries = [i \in 1 .. Len(dir) |-> [name |-> dir[i], blob |-> blob[i]]]
  BY <1>1 DEF Entries
<1>4. Entries \in Seq([name : Names, blob : Bits])
  BY <1>1, <1>2, <1>3, IsASeq
<1> QED BY <1>1, <1>2, <1>3, <1>4

(* No handler under way.                                                   *)
LEMMA NoJobType ==
  NoJob \in [kind : {"none", "create", "save", "delete"}, name : Names,
             slot : 0 .. MaxUserPresets, cfg : 0 .. 3, dir : Seq(Names),
             i : 0 .. MaxUserPresets + 1]
  BY EmptySeq DEF NoJob

(* Boot chooses a known model and a failsafe mode.                         *)
LEMMA BootedType ==
  ASSUME Ranges, Booted(boot_model, "Center")
  PROVE  /\ g_bootModelName' = boot_model \/ g_bootModelName' = Car
         /\ g_bootModelName' \in Names /\ g_currentModelName' \in Names
         /\ config' \in {"Min", "Center", "Max"}
<1>1. /\ g_bootModelName' = boot_model \/ g_bootModelName' = Car
      /\ g_currentModelName' = g_bootModelName'
  BY Zenon DEF Booted
<1>2. config' \in {"Min", "Center", "Max"}
  <2>1. \E bits : config' = Unpacked(bits) \/ config' = "Center"
    BY Zenon DEF Booted
  <2> QED BY <2>1, PackedTypes
<1> QED BY <1>1, <1>2 DEF Ranges

(* The plan of a save.                                                     *)
LEMMA StartSaveEffect ==
  ASSUME Ranges, NEW kind \in {"create", "save"}, NEW name \in Names, NEW bits \in 0 .. 3,
         StartSave(kind, name, bits)
  PROVE  Ranges' /\ SavePlanned'
<1> DEFINE found == FindSlot(dir, name)
           d     == IF found = 0 THEN Append(dir, name) ELSE dir
           slot  == IF found = 0 THEN Len(d) ELSE found
<1>1. /\ found # 0 \/ Len(dir) < MaxUserPresets
      /\ job' = [kind |-> kind, name |-> name, cfg |-> bits, dir |-> d, i |-> 0, slot |-> slot]
      /\ phase' = "blob"
      /\ UNCHANGED <<nvs, ram, kept>>
  BY DEF StartSave
<1>2. /\ dir \in Seq(Names) /\ DOMAIN dir = 1 .. Len(dir)
      /\ Len(dir) \in Nat /\ Len(dir) <= MaxUserPresets
  BY DEF Ranges
<1>3. \/ found = 0 /\ \A i \in DOMAIN dir : Fold[dir[i]] # Fold[name]
      \/ found \in DOMAIN dir /\ Fold[dir[found]] = Fold[name]
  BY <1>2, FindSlotHits
<1> HIDE DEF found
<1>4. d \in Seq(Names) /\ slot \in Slots
  BY <1>1, <1>2, <1>3, AppendProperties DEF Slots
<1>5. \/ /\ slot \in DOMAIN dir /\ d = dir /\ Fold[dir[slot]] = Fold[name]
      \/ /\ slot = Len(dir) + 1 /\ d = Append(dir, name)
         /\ \A i \in DOMAIN dir : Fold[dir[i]] # Fold[name]
  <2>1. CASE found = 0
    <3>1. d = Append(dir, name) /\ slot = Len(dir) + 1
      BY <1>2, <2>1, AppendProperties
    <3>2. \A i \in DOMAIN dir : Fold[dir[i]] # Fold[name]
      BY <1>2, <1>3, <2>1
    <3> QED BY <3>1, <3>2
  <2>2. CASE found # 0
    BY <1>3, <2>2
  <2> QED BY <2>1, <2>2
<1> HIDE DEF d, slot
<1>6. job' \in [kind : {"none", "create", "save", "delete"}, name : Names,
                slot : 0 .. MaxUserPresets, cfg : 0 .. 3, dir : Seq(Names),
                i : 0 .. MaxUserPresets + 1]
  BY <1>1, <1>4 DEF Slots
<1>7. Ranges'
  BY <1>1, <1>6 DEF Ranges, nvs, ram, Phases
<1>8. SavePlanned'
  BY <1>1, <1>4, <1>5 DEF SavePlanned, nvs
<1> QED BY <1>7, <1>8

(* One step of the copying loop: past a slot, or its preset copied down.   *)
LEMMA CopyEffect ==
  ASSUME Ranges, DeletePlanned, DeleteCopy
  PROVE  /\ job.i \in DOMAIN dir /\ job.i \in Slots /\ Len(job.dir) + 1 \in Slots
         /\ Len(job.dir) + 1 <= job.i
         /\ job'.i = job.i + 1 /\ job'.slot = job.slot
         /\ Ranges'
         /\ \/ /\ job.i = job.slot \/ blob[job.i] = Absent
               /\ job'.dir = job.dir /\ blob' = blob
            \/ /\ job.i # job.slot /\ blob[job.i] # Absent
               /\ job'.dir = Append(job.dir, dir[job.i])
               /\ blob' = [blob EXCEPT ![Len(job.dir) + 1] = blob[job.i]]
<1>1. /\ phase = "copy" /\ job.i <= Len(dir) /\ dir \in Seq(Names) /\ job.dir \in Seq(Names)
      /\ DOMAIN dir = 1 .. Len(dir) /\ Len(dir) \in Nat /\ Len(dir) <= MaxUserPresets
      /\ Len(job.dir) \in Nat
  BY DEF DeleteCopy, Ranges
<1>2. job.i \in 1 .. Len(dir) + 1 /\ Len(job.dir) <= job.i - 1
  BY <1>1 DEF DeletePlanned, Deleting, Passed
<1>3. job.i \in DOMAIN dir /\ job.i \in Slots /\ Len(job.dir) + 1 \in Slots /\ Len(job.dir) + 1 <= job.i
  BY <1>1, <1>2 DEF Slots
<1>4. \/ /\ job.i = job.slot \/ blob[job.i] = Absent
         /\ job' = [job EXCEPT !.i = job.i + 1] /\ blob' = blob
      \/ /\ job.i # job.slot /\ blob[job.i] # Absent
         /\ job' = [job EXCEPT !.i = job.i + 1, !.dir = Append(job.dir, dir[job.i])]
         /\ blob' = [blob EXCEPT ![Len(job.dir) + 1] = blob[job.i]]
  BY DEF DeleteCopy
<1>5. Append(job.dir, dir[job.i]) \in Seq(Names)
  BY <1>1, <1>3, AppendProperties
<1>6. job.i + 1 \in 0 .. MaxUserPresets + 1
  BY <1>3 DEF Slots
<1>7. /\ job' \in [kind : {"none", "create", "save", "delete"}, name : Names,
                   slot : 0 .. MaxUserPresets, cfg : 0 .. 3, dir : Seq(Names),
                   i : 0 .. MaxUserPresets + 1]
      /\ job'.i = job.i + 1 /\ job'.slot = job.slot
  BY <1>4, <1>5, <1>6 DEF Ranges
<1>8. blob' \in [Slots -> Bits]
  BY <1>3, <1>4 DEF Ranges
<1>9. Ranges'
  BY <1>7, <1>8 DEF Ranges, DeleteCopy, ram
<1>10. \/ /\ job.i = job.slot \/ blob[job.i] = Absent
          /\ job'.dir = job.dir /\ blob' = blob
       \/ /\ job.i # job.slot /\ blob[job.i] # Absent
          /\ job'.dir = Append(job.dir, dir[job.i])
          /\ blob' = [blob EXCEPT ![Len(job.dir) + 1] = blob[job.i]]
  BY <1>4 DEF Ranges
<1> QED BY <1>3, <1>7, <1>9, <1>10

(* One step of the loop that erases the slots left over.                   *)
LEMMA EraseEffect ==
  ASSUME Ranges, DeletePlanned, DeleteErase
  PROVE  /\ Ranges'
         /\ \/ /\ phase' = "erase" /\ job.i \in DOMAIN dir
               /\ job'.i = job.i + 1 /\ job'.slot = job.slot /\ job'.dir = job.dir
               /\ blob' = blob \/ blob' = [blob EXCEPT ![job.i] = Absent]
            \/ /\ phase' = "newdir" /\ job' = job /\ blob' = blob
<1>1. /\ phase = "erase" /\ dir \in Seq(Names)
      /\ DOMAIN dir = 1 .. Len(dir) /\ Len(dir) \in Nat /\ Len(dir) <= MaxUserPresets
  BY DEF DeleteErase, Ranges
<1>2. job.i \in 1 .. Len(dir) + 1
  BY <1>1 DEF DeletePlanned, Deleting
<1>3. CASE job.i <= Len(dir)
  <2>1. /\ job.i \in DOMAIN dir /\ job.i \in Slots /\ job.i + 1 \in 0 .. MaxUserPresets + 1
        /\ Absent \in Bits
    BY <1>1, <1>2, <1>3 DEF Slots, Bits
  <2>2. /\ job' = [job EXCEPT !.i = job.i + 1] /\ phase' = "erase"
        /\ blob' = blob \/ blob' = [blob EXCEPT ![job.i] = Absent]
    BY <1>1, <1>3 DEF DeleteErase
  <2>3. /\ job' \in [kind : {"none", "create", "save", "delete"}, name : Names,
                     slot : 0 .. MaxUserPresets, cfg : 0 .. 3, dir : Seq(Names),
                     i : 0 .. MaxUserPresets + 1]
        /\ job'.i = job.i + 1 /\ job'.slot = job.slot /\ job'.dir = job.dir
    BY <2>1, <2>2 DEF Ranges
  <2>4. blob' \in [Slots -> Bits]
    BY <2>1, <2>2 DEF Ranges
  <2>5. Ranges'
    BY <2>2, <2>3, <2>4 DEF Ranges, DeleteErase, ram, Phases
  <2> QED BY <2>1, <2>2, <2>3, <2>5
<1>4. CASE ~(job.i <= Len(dir))
  BY <1>4 DEF DeleteErase, Ranges, ram, Phases
<1> QED BY <1>3, <1>4

(* Every step keeps the ranges.                                            *)
LEMMA RangesStep ==
  ASSUME Ranges, SavePlanned, DeletePlanned, [Next]_vars
  PROVE  Ranges'
<1> USE DEF vars, nvs, ram, task
<1>1. CASE Crash
  BY <1>1, BootedType, NoJobType, EmptySeq DEF Crash, Ranges, Phases
<1>2. CASE WriteRefused
  BY <1>2, NoJobType, EmptySeq DEF WriteRefused, Ranges, Phases
<1>3. ASSUME NEW mode \in Modes, Edit(mode) PROVE Ranges'
  BY <1>3 DEF Edit, Ranges
<1>4. ASSUME NEW name \in Names, PresetApply(name) PROVE Ranges'
  BY <1>4, PackedTypes DEF PresetApply, Become, Ranges
<1>5. ASSUME NEW name \in Names, ModelSetDefault(name) PROVE Ranges'
  BY <1>5 DEF ModelSetDefault, Ranges
<1>6. ASSUME NEW name \in Names, ModelDelete(name) PROVE Ranges'
  <2>1. FindSlot(dir, name) \in 1 .. Len(dir) /\ Len(dir) \in Nat
    BY <1>6, FindSlotHits DEF ModelDelete, Ranges
  <2>2. job' \in [kind : {"none", "create", "save", "delete"}, name : Names,
                  slot : 0 .. MaxUserPresets, cfg : 0 .. 3, dir : Seq(Names),
                  i : 0 .. MaxUserPresets + 1]
    BY <1>6, <2>1, EmptySeq DEF ModelDelete, Ranges
  <2>3. kept' \in Seq([name : Names, blob : Bits])
    BY <1>6, EntriesType DEF ModelDelete
  <2> QED BY <1>6, <2>2, <2>3 DEF ModelDelete, Ranges, Phases
<1>7. CASE ModelRevert
  BY <1>7, PackedTypes DEF ModelRevert, Become, Ranges
<1>8. ASSUME NEW name \in NewNames, NEW bits \in 0 .. 3, ModelCreate(name, bits) PROVE Ranges'
  BY <1>8, StartSaveEffect DEF ModelCreate
<1>9. CASE ModelSaveCurrent
  <2>1. Packed(config) \in 0 .. 3 /\ g_currentModelName \in Names
    BY PackedTypes DEF Ranges
  <2> QED BY <1>9, <2>1, StartSaveEffect DEF ModelSaveCurrent
<1>10. CASE SaveBlob
  <2>1. job.slot \in Slots /\ job.cfg \in Bits
    BY <1>10 DEF SaveBlob, SavePlanned, Ranges, Bits
  <2> QED BY <1>10, <2>1 DEF SaveBlob, Ranges, Phases
<1>11. CASE SaveDir
  <2>1. job.dir \in Seq(Names) /\ Len(job.dir) <= MaxUserPresets
    BY <1>11, AppendProperties DEF SaveDir, SavePlanned, Ranges, Slots
  <2>2. \/ g_currentModelName' = job.name /\ config' = Unpacked(job.cfg)
           /\ g_bootModelName' = g_bootModelName
        \/ UNCHANGED <<g_currentModelName, config, g_bootModelName>>
    BY <1>11, Zenon DEF SaveDir, Become
  <2>3. g_currentModelName' \in Names /\ config' \in {"Min", "Center", "Max"}
        /\ g_bootModelName' \in Names
    BY <2>2, PackedTypes DEF Ranges
  <2> QED BY <1>11, <2>1, <2>3, NoJobType DEF SaveDir, Ranges, Phases
<1>12. CASE DeleteCopy
  BY <1>12, CopyEffect
<1>13. CASE DeleteCopied
  <2>1. /\ job.dir \in Seq(Names) /\ Len(job.dir) \in Nat /\ Len(job.dir) <= job.i - 1
        /\ job.i \in 0 .. MaxUserPresets + 1
    BY <1>13 DEF DeleteCopied, DeletePlanned, Deleting, Passed, Ranges
  <2>2. Len(job.dir) + 1 \in 0 .. MaxUserPresets + 1
    BY <2>1
  <2> QED BY <1>13, <2>2 DEF DeleteCopied, Ranges, Phases
<1>14. CASE DeleteErase
  BY <1>14, EraseEffect
<1>15. CASE DeleteDir
  <2>1. job.dir \in Seq(Names) /\ Len(job.dir) <= MaxUserPresets
    BY <1>15 DEF DeleteDir, DeletePlanned, Deleting, Passed, Ranges
  <2> QED BY <1>15, <2>1, EmptySeq DEF DeleteDir, Ranges, Phases
<1>16. CASE DeleteAfter
  <2>1. /\ boot_model' \in {boot_model, Car, g_bootModelName}
        /\ g_bootModelName' \in {Car, g_bootModelName}
        /\ g_currentModelName' \in {g_currentModelName, Car, g_bootModelName}
    BY <1>16, Zenon DEF DeleteAfter
  <2>2. \E bits : config' = Unpacked(bits) \/ config' = config
    BY <1>16, Zenon DEF DeleteAfter
  <2>3. config' \in {"Min", "Center", "Max"}
    BY <2>2, PackedTypes DEF Ranges
  <2> QED BY <1>16, <2>1, <2>3, NoJobType DEF DeleteAfter, Ranges, Phases
<1>17. CASE UNCHANGED vars
  BY <1>17 DEF Ranges
<1> QED BY <1>1, <1>2, <1>3, <1>4, <1>5, <1>6, <1>7, <1>8, <1>9, <1>10, <1>11, <1>12,
           <1>13, <1>14, <1>15, <1>16, <1>17 DEF Next

(* The parts of the invariant about the handler under way.                 *)
TaskInv == SavePlanned /\ DeletePlanned /\ SurvivorsPacked /\ DamageBounded

(* A deletion begins with everything in its place.                         *)
LEMMA DeleteBegins ==
  ASSUME Ranges, NEW name \in Names, ModelDelete(name)
  PROVE  TaskInv'
<1>1. /\ phase' = "copy" /\ job'.slot = FindSlot(dir, name) /\ job'.i = 1 /\ job'.dir = <<>>
      /\ kept' = Entries /\ dir' = dir /\ blob' = blob /\ FindSlot(dir, name) # 0
  BY DEF ModelDelete, nvs
<1>2. /\ FindSlot(dir, name) \in DOMAIN dir /\ DOMAIN dir = 1 .. Len(dir) /\ Len(dir) \in Nat
      /\ Len(<<>>) = 0 /\ DOMAIN <<>> = {}
  BY <1>1, FindSlotHits DEF Ranges
<1>3. /\ Len(Entries) = Len(dir)
      /\ \A j \in DOMAIN dir : Entries[j].name = dir[j] /\ Entries[j].blob = blob[j]
  BY EntriesType
<1>4. Passed' = 0 /\ Deleting'
  BY <1>1 DEF Passed, Deleting
<1>5. DeletePlanned'
  BY <1>1, <1>2, <1>3, <1>4 DEF DeletePlanned
<1>6. Surviving' = {}
  BY <1>4 DEF Surviving
<1>7. SurvivorsPacked'
  <2>1. <<>> \in [DOMAIN job'.dir -> Surviving'] /\ Packs(<<>>)'
    BY <1>1, <1>2, <1>6 DEF Packs
  <2>2. \A j \in Unmoved' : ~(j <= Passed')
    BY <1>1, <1>2, <1>4 DEF Unmoved
  <2> QED BY <2>1, <2>2 DEF SurvivorsPacked
<1>8. DamageBounded'
  BY <1>1, <1>2, <1>3 DEF DamageBounded
<1>9. SavePlanned'
  BY <1>1 DEF SavePlanned
<1> QED BY <1>5, <1>7, <1>8, <1>9 DEF TaskInv

(* The copying loop packs one survivor more, or passes a slot that goes.   *)
LEMMA CopyGoesOn ==
  ASSUME Ranges, TaskInv, DeleteCopy
  PROVE  TaskInv'
<1> DEFINE n == Len(job.dir)
<1>1. /\ phase = "copy" /\ phase' = "copy" /\ dir' = dir /\ kept' = kept /\ Deleting /\ Deleting'
  BY DEF DeleteCopy, Deleting
<1>2. /\ job.i \in DOMAIN dir /\ job.i \in Slots /\ n + 1 \in Slots /\ n + 1 <= job.i
      /\ job'.i = job.i + 1 /\ job'.slot = job.slot
      /\ \/ /\ job.i = job.slot \/ blob[job.i] = Absent
            /\ job'.dir = job.dir /\ blob' = blob
         \/ /\ job.i # job.slot /\ blob[job.i] # Absent
            /\ job'.dir = Append(job.dir, dir[job.i])
            /\ blob' = [blob EXCEPT ![n + 1] = blob[job.i]]
  BY CopyEffect DEF TaskInv
<1>3. /\ dir \in Seq(Names) /\ DOMAIN dir = 1 .. Len(dir) /\ Len(dir) \in Nat
      /\ job.dir \in Seq(Names) /\ DOMAIN job.dir = 1 .. n /\ n \in Nat
      /\ job.i \in Nat /\ job.slot \in Nat /\ blob \in [Slots -> Bits]
  BY <1>2 DEF Ranges, Slots
<1>4. Passed = job.i - 1 /\ Passed' = job.i
  BY <1>1, <1>2, <1>3 DEF Passed
<1>5. blob[job.i] = kept[job.i].blob
  BY <1>1, <1>2, <1>3 DEF TaskInv, DamageBounded
<1>6. PICK f \in [DOMAIN job.dir -> Surviving] : Packs(f)
  BY <1>1 DEF TaskInv, SurvivorsPacked
<1>7. Unmoved' = Unmoved
  BY <1>1, <1>2 DEF Unmoved
<1>8. \A j \in Unmoved : j <= job.i - 1 => j <= n
  BY <1>1, <1>4 DEF TaskInv, SurvivorsPacked
<1>9. SavePlanned'
  BY <1>1 DEF SavePlanned
<1>10. CASE /\ job.i = job.slot \/ blob[job.i] = Absent
            /\ job'.dir = job.dir /\ blob' = blob
  <2>1. job.i \notin Unmoved /\ Surviving' = Surviving
    BY <1>1, <1>2, <1>3, <1>4, <1>5, <1>10 DEF Unmoved, Surviving
  <2>2. DeletePlanned'
    BY <1>1, <1>2, <1>3, <1>4, <1>10 DEF TaskInv, DeletePlanned
  <2>3. Packs(f)'
    BY <1>1, <1>6, <1>10, <2>1 DEF Packs
  <2>4. \A j \in Unmoved' : j <= Passed' => j <= Len(job'.dir)
    <3> SUFFICES ASSUME NEW j \in Unmoved, j <= job.i PROVE j <= n
      BY <1>4, <1>7, <1>10
    <3>1. j \in Nat /\ j # job.i
      BY <1>3, <2>1 DEF Unmoved
    <3> QED BY <1>3, <1>8, <3>1
  <2>5. SurvivorsPacked'
    BY <1>6, <1>10, <2>1, <2>3, <2>4 DEF SurvivorsPacked
  <2>6. DamageBounded'
    BY <1>1, <1>2, <1>3, <1>7, <1>10 DEF TaskInv, DamageBounded
  <2> QED BY <1>9, <2>2, <2>5, <2>6 DEF TaskInv
<1>11. CASE /\ job.i # job.slot /\ blob[job.i] # Absent
            /\ job'.dir = Append(job.dir, dir[job.i])
            /\ blob' = [blob EXCEPT ![n + 1] = blob[job.i]]
  <2> DEFINE g == [k \in 1 .. n + 1 |-> IF k = n + 1 THEN job.i ELSE f[k]]
  <2>1. /\ DOMAIN job'.dir = 1 .. n + 1 /\ Len(job'.dir) = n + 1
        /\ \A k \in 1 .. n : job'.dir[k] = job.dir[k]
        /\ job'.dir[n + 1] = dir[job.i]
    <3>1. dir[job.i] \in Names
      BY <1>2, <1>3
    <3> QED BY <1>3, <1>11, <3>1, AppendProperties
  <2>2. /\ blob'[n + 1] = kept[job.i].blob
        /\ \A k \in Slots : k # n + 1 => blob'[k] = blob[k]
    BY <1>2, <1>3, <1>5, <1>11
  <2>3. Surviving' = Surviving \cup {job.i}
    BY <1>1, <1>2, <1>3, <1>4, <1>5, <1>11 DEF Surviving
  <2>4. DeletePlanned'
    BY <1>1, <1>2, <1>3, <1>4, <2>1 DEF TaskInv, DeletePlanned
  <2>5. /\ \A k \in 1 .. n : f[k] \in 1 .. job.i - 1
        /\ \A k \in 1 .. n : k \in Slots
    <3>1. Surviving \subseteq 1 .. job.i - 1
      BY <1>4 DEF Surviving
    <3>2. \A k \in 1 .. n : f[k] \in 1 .. job.i - 1
      BY <1>3, <1>6, <3>1
    <3>3. \A k \in 1 .. n : k \in Slots
      BY <1>2, <1>3 DEF Slots
    <3> QED BY <3>2, <3>3
  <2>6. g \in [DOMAIN job'.dir -> Surviving']
    BY <1>3, <1>6, <2>1, <2>3
  <2>7. \A j, k \in DOMAIN job'.dir : j < k => g[j] < g[k]
    BY <1>3, <1>6, <2>1, <2>5 DEF Packs
  <2>8. \A s \in Surviving' : \E k \in DOMAIN job'.dir : g[k] = s
    <3>1. ASSUME NEW s \in Surviving PROVE \E k \in 1 .. n : f[k] = s
      BY <1>3, <1>6 DEF Packs
    <3>2. ASSUME NEW k \in 1 .. n PROVE k \in 1 .. n + 1 /\ g[k] = f[k]
      BY <1>3
    <3>3. n + 1 \in 1 .. n + 1 /\ g[n + 1] = job.i
      BY <1>3
    <3> QED BY <2>1, <2>3, <3>1, <3>2, <3>3
  <2>9. \A k \in DOMAIN job'.dir : job'.dir[k] = dir[g[k]] /\ blob'[k] = kept[g[k]].blob
    BY <1>3, <1>6, <2>1, <2>2, <2>5 DEF Packs
  <2> HIDE DEF g
  <2>10. \A j \in Unmoved' : j <= Passed' => j <= Len(job'.dir)
    <3> SUFFICES ASSUME NEW j \in Unmoved, j <= job.i PROVE j <= n + 1
      BY <1>4, <1>7, <2>1
    <3>1. j \in Nat /\ (j > 1 => j - 1 \in Unmoved)
      BY <1>3 DEF Unmoved
    <3> QED BY <1>3, <1>8, <3>1
  <2>11. SurvivorsPacked'
    <3>1. \E h \in [DOMAIN job'.dir -> Surviving'] :
            /\ \A j, k \in DOMAIN job'.dir : j < k => h[j] < h[k]
            /\ \A s \in Surviving' : \E k \in DOMAIN job'.dir : h[k] = s
            /\ \A k \in DOMAIN job'.dir : job'.dir[k] = dir'[h[k]] /\ blob'[k] = kept'[h[k]].blob
      BY <1>1, <2>6, <2>7, <2>8, <2>9
    <3> QED BY <2>10, <3>1 DEF SurvivorsPacked, Packs
  <2>12. \A j \in job'.i .. Len(dir) : blob'[j] = kept[j].blob
    BY <1>1, <1>2, <1>3, <2>2 DEF TaskInv, DamageBounded, Ranges, Slots
  <2>13. ASSUME NEW j \in DOMAIN dir
         PROVE  \/ blob'[j] = kept[j].blob
                \/ /\ j \notin Unmoved
                   /\ blob'[j] = Absent \/ \E k \in DOMAIN dir : k > j /\ blob'[j] = kept[k].blob
    <3>1. CASE j # n + 1
      <4>1. j \in Slots
        BY <1>3 DEF Ranges, Slots
      <4> QED BY <1>1, <2>2, <3>1, <4>1 DEF TaskInv, DamageBounded
    <3>2. CASE j = n + 1 /\ n + 1 = job.i
      BY <2>2, <3>2
    <3>3. CASE j = n + 1 /\ n + 1 # job.i
      <4>1. j \notin Unmoved /\ job.i > j
        <5>1. j <= job.i - 1 /\ job.i > j /\ ~(j <= n)
          BY <1>2, <1>3, <3>3
        <5> QED BY <1>8, <5>1
      <4> QED BY <1>2, <2>2, <3>3, <4>1
    <3> QED BY <3>1, <3>2, <3>3
  <2>14. DamageBounded'
    BY <1>1, <1>7, <2>12, <2>13 DEF DamageBounded
  <2> QED BY <1>9, <2>4, <2>11, <2>14 DEF TaskInv
<1> QED BY <1>2, <1>10, <1>11

(* When all are copied, every preset but the deleted one is packed.        *)
LEMMA CopyEnds ==
  ASSUME Ranges, TaskInv, DeleteCopied
  PROVE  TaskInv'
<1>1. /\ phase = "copy" /\ phase' = "erase" /\ dir' = dir /\ blob' = blob /\ kept' = kept
      /\ Deleting /\ Deleting' /\ job' = [job EXCEPT !.i = Len(job.dir) + 1]
      /\ job.i > Len(dir)
  BY DEF DeleteCopied, Deleting, nvs
<1>2. /\ dir \in Seq(Names) /\ DOMAIN dir = 1 .. Len(dir) /\ Len(dir) \in Nat
      /\ job.dir \in Seq(Names) /\ Len(job.dir) \in Nat
      /\ job'.i = Len(job.dir) + 1 /\ job'.slot = job.slot /\ job'.dir = job.dir
  BY <1>1 DEF Ranges
<1>3. job.i = Len(dir) + 1
  BY <1>1, <1>2 DEF TaskInv, DeletePlanned
<1>4. Passed = Len(dir) /\ Passed' = Len(dir)
  BY <1>1, <1>2, <1>3 DEF Passed
<1>5. Surviving' = Surviving /\ Unmoved' = Unmoved
  BY <1>1, <1>2, <1>4 DEF Surviving, Unmoved
<1>6. DeletePlanned'
  BY <1>1, <1>2, <1>4 DEF TaskInv, DeletePlanned
<1>7. SurvivorsPacked'
  <2>1. PICK f \in [DOMAIN job.dir -> Surviving] : Packs(f)
    BY <1>1 DEF TaskInv, SurvivorsPacked
  <2>2. Packs(f)'
    BY <1>1, <1>2, <1>5, <2>1 DEF Packs
  <2>3. \A j \in Unmoved' : j <= Passed' => j <= Len(job'.dir)
    BY <1>1, <1>2, <1>4, <1>5 DEF TaskInv, SurvivorsPacked
  <2> QED BY <1>2, <1>5, <2>1, <2>2, <2>3 DEF SurvivorsPacked
<1>8. DamageBounded'
  BY <1>1, <1>5 DEF TaskInv, DamageBounded
<1>9. SavePlanned'
  BY <1>1 DEF SavePlanned
<1> QED BY <1>6, <1>7, <1>8, <1>9 DEF TaskInv

(* Erasing touches only the slots behind the packed presets.               *)
LEMMA EraseGoesOn ==
  ASSUME Ranges, TaskInv, DeleteErase
  PROVE  TaskInv'
<1>1. /\ phase = "erase" /\ phase' \in {"erase", "newdir"} /\ dir' = dir /\ kept' = kept
      /\ Deleting /\ Deleting'
  BY DEF DeleteErase, Deleting
<1>2. \/ /\ phase' = "erase" /\ job.i \in DOMAIN dir
         /\ job'.i = job.i + 1 /\ job'.slot = job.slot /\ job'.dir = job.dir
         /\ blob' = blob \/ blob' = [blob EXCEPT ![job.i] = Absent]
      \/ /\ phase' = "newdir" /\ job' = job /\ blob' = blob
  BY EraseEffect DEF TaskInv
<1>3. /\ dir \in Seq(Names) /\ DOMAIN dir = 1 .. Len(dir) /\ Len(dir) \in Nat
      /\ Len(dir) <= MaxUserPresets
      /\ job.dir \in Seq(Names) /\ Len(job.dir) \in Nat /\ DOMAIN job.dir = 1 .. Len(job.dir)
      /\ job'.slot = job.slot /\ job'.dir = job.dir /\ blob \in [Slots -> Bits]
      /\ job.i \in Nat
  BY <1>2 DEF Ranges
<1>4. Passed = Len(dir) /\ Passed' = Len(dir)
  BY <1>1 DEF Passed
<1>5. Surviving' = Surviving /\ Unmoved' = Unmoved
  BY <1>1, <1>3, <1>4 DEF Surviving, Unmoved
<1>6. job.i > Len(job.dir) /\ Len(job.dir) <= Len(dir)
  BY <1>1, <1>4 DEF TaskInv, DeletePlanned
<1>7. DeletePlanned'
  BY <1>1, <1>2, <1>3, <1>4, <1>6 DEF TaskInv, DeletePlanned
<1>8. \A j \in Slots : j < job.i => blob'[j] = blob[j]
  BY <1>2, <1>3
<1>9. SurvivorsPacked'
  <2>1. PICK f \in [DOMAIN job.dir -> Surviving] : Packs(f)
    BY <1>1 DEF TaskInv, SurvivorsPacked
  <2>2. \A k \in DOMAIN job.dir : blob'[k] = blob[k]
    BY <1>3, <1>6, <1>8 DEF Slots
  <2>3. Packs(f)'
    BY <1>1, <1>3, <1>5, <2>1, <2>2 DEF Packs
  <2>4. \A j \in Unmoved' : j <= Passed' => j <= Len(job'.dir)
    BY <1>1, <1>3, <1>4, <1>5 DEF TaskInv, SurvivorsPacked
  <2> QED BY <1>3, <1>5, <2>1, <2>3, <2>4 DEF SurvivorsPacked
<1>10. DamageBounded'
  <2>1. ASSUME NEW j \in DOMAIN dir
        PROVE  \/ blob'[j] = kept[j].blob
               \/ /\ j \notin Unmoved
                  /\ blob'[j] = Absent \/ \E k \in DOMAIN dir : k > j /\ blob'[j] = kept[k].blob
    <3>1. CASE blob'[j] = blob[j]
      BY <1>1, <3>1 DEF TaskInv, DamageBounded
    <3>2. CASE blob'[j] # blob[j]
      <4>1. j = job.i /\ blob'[j] = Absent
        BY <1>2, <1>3, <3>2 DEF Slots
      <4>2. j \notin Unmoved
        <5>1. j <= Len(dir) /\ ~(j <= Len(job.dir))
          BY <1>3, <1>6, <4>1
        <5> QED BY <1>1, <1>4, <5>1 DEF TaskInv, SurvivorsPacked
      <4> QED BY <4>1, <4>2
    <3> QED BY <3>1, <3>2
  <2> QED BY <1>1, <1>5, <2>1 DEF DamageBounded
<1>11. SavePlanned'
  BY <1>1 DEF SavePlanned
<1> QED BY <1>7, <1>9, <1>10, <1>11 DEF TaskInv

(* The handler under way stays on its plan.                                *)
LEMMA TaskStep ==
  ASSUME Ranges, TaskInv, [Next]_vars
  PROVE  TaskInv'
<1> USE DEF vars, nvs, ram, task
<1>1. CASE phase' \in {"idle", "after"}
  BY <1>1 DEF TaskInv, SavePlanned, DeletePlanned, SurvivorsPacked, DamageBounded, Deleting
<1>2. CASE phase' = "blob" /\ SavePlanned'
  BY <1>2 DEF TaskInv, DeletePlanned, SurvivorsPacked, DamageBounded, Deleting
<1>3. ASSUME NEW name \in Names, ModelDelete(name) PROVE TaskInv'
  BY <1>3, DeleteBegins
<1>4. ASSUME NEW name \in NewNames, NEW bits \in 0 .. 3, ModelCreate(name, bits) PROVE TaskInv'
  <2>1. SavePlanned' /\ phase' = "blob"
    BY <1>4, StartSaveEffect DEF ModelCreate, StartSave
  <2> QED BY <1>2, <2>1
<1>5. CASE ModelSaveCurrent
  <2>1. Packed(config) \in 0 .. 3 /\ g_currentModelName \in Names
    BY PackedTypes DEF Ranges
  <2>2. SavePlanned' /\ phase' = "blob"
    BY <1>5, <2>1, StartSaveEffect DEF ModelSaveCurrent, StartSave
  <2> QED BY <1>2, <2>2
<1>6. CASE SaveBlob
  <2>1. /\ phase = "blob" /\ phase' = "dir" /\ dir' = dir /\ job' = job
        /\ blob' = [blob EXCEPT ![job.slot] = job.cfg] /\ job.slot \in Slots
    BY <1>6 DEF SaveBlob, TaskInv, SavePlanned
  <2>2. blob'[job.slot] = job.cfg
    BY <2>1 DEF Ranges
  <2>3. SavePlanned'
    BY <2>1, <2>2 DEF TaskInv, SavePlanned
  <2> QED BY <2>1, <2>3 DEF TaskInv, DeletePlanned, SurvivorsPacked, DamageBounded, Deleting
<1>7. CASE DeleteCopy \/ DeleteCopied \/ DeleteErase
  BY <1>7, CopyGoesOn, CopyEnds, EraseGoesOn
<1>8. CASE UNCHANGED vars
  BY <1>8 DEF TaskInv, SavePlanned, DeletePlanned, SurvivorsPacked, DamageBounded, Deleting,
     Passed, Surviving, Unmoved, Packs
<1>9. CASE \/ Crash \/ WriteRefused \/ SaveDir \/ DeleteDir \/ DeleteAfter
  BY <1>1, <1>9 DEF Crash, WriteRefused, SaveDir, DeleteDir, DeleteAfter
<1>10. CASE \/ ModelRevert \/ \E mode \in Modes : Edit(mode)
            \/ \E name \in Names : PresetApply(name) \/ ModelSetDefault(name)
  BY <1>1, <1>10 DEF ModelRevert, Edit, PresetApply, ModelSetDefault
<1> QED BY <1>3, <1>4, <1>5, <1>6, <1>7, <1>8, <1>9, <1>10 DEF Next

(* A name at the end of a directory.                                       *)
LEMMA Appended ==
  ASSUME NEW d \in Seq(Names), NEW name \in Names
  PROVE  /\ Append(d, name) \in Seq(Names) /\ Len(Append(d, name)) = Len(d) + 1
         /\ \A i \in 1 .. Len(d) : Append(d, name)[i] = d[i]
         /\ Append(d, name)[Len(d) + 1] = name
  BY AppendProperties

(* The directory changes only when a save or a deletion writes it.         *)
LEMMA DirectoryStep ==
  ASSUME Ranges, TaskInv, DirectoryUnambiguous, [Next]_vars
  PROVE  DirectoryUnambiguous'
<1> USE DEF vars, nvs, ram, task
<1>1. CASE dir' = dir
  BY <1>1 DEF DirectoryUnambiguous
<1>2. CASE SaveDir
  <2>1. /\ dir' = job.dir /\ dir \in Seq(Names) /\ DOMAIN dir = 1 .. Len(dir)
        /\ Len(dir) \in Nat /\ job.name \in Names
    BY <1>2 DEF SaveDir, Ranges
  <2>2. CASE job.dir = dir
    BY <1>1, <2>1, <2>2
  <2>3. CASE /\ job.dir = Append(dir, job.name)
             /\ \A i \in DOMAIN dir : Fold[dir[i]] # Fold[job.name]
    <3>1. /\ DOMAIN dir' = 1 .. Len(dir) + 1
          /\ \A i \in 1 .. Len(dir) : dir'[i] = dir[i]
          /\ dir'[Len(dir) + 1] = job.name
      <4> DEFINE new == Append(dir, job.name)
      <4>1. /\ new \in Seq(Names) /\ Len(new) = Len(dir) + 1
            /\ \A i \in 1 .. Len(dir) : new[i] = dir[i]
            /\ new[Len(dir) + 1] = job.name
        BY <2>1, Appended
      <4>2. dir' = new
        BY <2>1, <2>3
      <4> HIDE DEF new
      <4> QED BY <4>1, <4>2, LenProperties
    <3>2. ASSUME NEW i \in DOMAIN dir', NEW j \in DOMAIN dir', Fold[dir'[i]] = Fold[dir'[j]]
          PROVE  i = j
      <4>1. i \in 1 .. Len(dir) \/ i = Len(dir) + 1
        BY <2>1, <3>1
      <4>2. j \in 1 .. Len(dir) \/ j = Len(dir) + 1
        BY <2>1, <3>1
      <4>3. CASE i \in 1 .. Len(dir) /\ j \in 1 .. Len(dir)
        BY <2>1, <3>1, <3>2, <4>3 DEF DirectoryUnambiguous
      <4>4. CASE i = Len(dir) + 1 /\ j \in 1 .. Len(dir)
        BY <2>1, <2>3, <3>1, <3>2, <4>4
      <4>5. CASE j = Len(dir) + 1 /\ i \in 1 .. Len(dir)
        BY <2>1, <2>3, <3>1, <3>2, <4>5
      <4> QED BY <4>1, <4>2, <4>3, <4>4, <4>5
    <3> QED BY <3>2 DEF DirectoryUnambiguous
  <2> QED BY <1>2, <2>2, <2>3 DEF SaveDir, TaskInv, SavePlanned
<1>3. CASE DeleteDir
  <2>1. dir' = job.dir /\ Deleting /\ DOMAIN dir = 1 .. Len(dir) /\ Len(dir) \in Nat
        /\ Passed = Len(dir) /\ DOMAIN job.dir = 1 .. Len(job.dir) /\ Len(job.dir) \in Nat
    BY <1>3 DEF DeleteDir, Deleting, Passed, Ranges
  <2>2. PICK f \in [DOMAIN job.dir -> Surviving] : Packs(f)
    BY <2>1 DEF TaskInv, SurvivorsPacked
  <2>3. \A k \in DOMAIN job.dir : f[k] \in DOMAIN dir /\ job.dir[k] = dir[f[k]]
    <3>1. Surviving \subseteq DOMAIN dir
      BY <2>1 DEF Surviving
    <3> QED BY <2>2, <3>1 DEF Packs
  <2>4. ASSUME NEW i \in DOMAIN job.dir, NEW j \in DOMAIN job.dir, f[i] = f[j] PROVE i = j
    <3>1. i < j => f[i] < f[j]
      BY <2>2 DEF Packs
    <3>2. j < i => f[j] < f[i]
      BY <2>2 DEF Packs
    <3>3. f[i] \in Nat /\ f[j] \in Nat /\ i \in Nat /\ j \in Nat
      BY <2>1, <2>3
    <3> QED BY <2>4, <3>1, <3>2, <3>3
  <2> QED BY <2>1, <2>3, <2>4 DEF DirectoryUnambiguous
<1> QED BY <1>1, <1>2, <1>3 DEF Next, Crash, WriteRefused, Edit, PresetApply, ModelSetDefault,
        ModelDelete, ModelRevert, ModelCreate, ModelSaveCurrent, StartSave, SaveBlob,
        DeleteCopy, DeleteCopied, DeleteErase, DeleteAfter

(* The boot model shown follows the one stored, or falls back to the car.  *)
LEMMA BootStep ==
  ASSUME Ranges, BootShownIsStored, [Next]_vars
  PROVE  BootShownIsStored'
<1> USE DEF vars, nvs, ram, task
<1>1. CASE Crash
  BY <1>1, BootedType DEF Crash, BootShownIsStored
<1>2. CASE DeleteAfter
  <2>1. \/ g_bootModelName' = Car
        \/ boot_model' = boot_model /\ g_bootModelName' = g_bootModelName
    BY <1>2, Zenon DEF DeleteAfter
  <2> QED BY <2>1 DEF BootShownIsStored
<1>3. CASE SaveDir
  <2>1. UNCHANGED <<boot_model, g_bootModelName>>
    BY <1>3, Zenon DEF SaveDir
  <2> QED BY <2>1 DEF BootShownIsStored
<1>4. ASSUME NEW name \in Names, ModelSetDefault(name) PROVE BootShownIsStored'
  BY <1>4 DEF ModelSetDefault, BootShownIsStored
<1>5. CASE UNCHANGED <<boot_model, g_bootModelName>>
  BY <1>5 DEF BootShownIsStored
<1> QED BY <1>1, <1>2, <1>3, <1>4, <1>5 DEF Next, WriteRefused, Edit, PresetApply, Become,
        ModelDelete, ModelRevert, ModelCreate, ModelSaveCurrent, StartSave, SaveBlob,
        DeleteCopy, DeleteCopied, DeleteErase, DeleteDir

(* The store starts on a fresh or an upgraded NVS.                         *)
LEMMA InitInv == Init => StoreInv
<1> SUFFICES ASSUME Init PROVE StoreInv
  OBVIOUS
<1>1. g_modelDirty \in BOOLEAN
  BY Zenon DEF Init
<1>2. dir \in Seq(Names) /\ Len(dir) \in {0, 1} /\ DOMAIN dir = 1 .. Len(dir)
  <2>1. CASE dir = <<>>
    BY <2>1, EmptySeq
  <2>2. CASE \E n \in OldNames : dir = <<n>>
    BY <2>2
  <2> QED BY <2>1, <2>2 DEF Init
<1>3. blob \in [Slots -> Bits]
  BY DEF Init, Bits, Absent, Obsolete
<1>4. Ranges
  <2>1. /\ boot_model = Car /\ g_bootModelName = Car /\ g_currentModelName = Car
        /\ config = Unpacked(BuiltinBits) /\ phase = "idle" /\ job = NoJob /\ kept = <<>>
    BY Zenon DEF Init
  <2>2. Len(dir) <= MaxUserPresets
    BY <1>2, PackedTypes
  <2>3. phase \in Phases
    BY <2>1 DEF Phases
  <2>4. Car \in Names /\ Unpacked(BuiltinBits) \in {"Min", "Center", "Max"}
    BY PackedTypes
  <2>5. kept \in Seq([name : Names, blob : Bits])
    BY <2>1, EmptySeq
  <2> QED BY <1>2, <1>3, <2>1, <2>2, <2>3, <2>4, <2>5, NoJobType, Zenon DEF Ranges
<1>5. DirectoryUnambiguous
  BY <1>2 DEF DirectoryUnambiguous
<1>6. BootShownIsStored /\ SavePlanned /\ DeletePlanned /\ SurvivorsPacked /\ DamageBounded
  BY DEF Init, BootShownIsStored, SavePlanned, DeletePlanned, SurvivorsPacked, DamageBounded,
     Deleting
<1> QED BY <1>1, <1>4, <1>5, <1>6, TypeParts DEF StoreInv

(* The store stays consistent in RAM and NVS through every sequence of     *)
(* handlers, each cut short at any NVS write or carried through.           *)
THEOREM StoreInvariance == Spec => []StoreInv
<1>1. StoreInv /\ [Next]_vars => StoreInv'
  <2> SUFFICES ASSUME StoreInv, [Next]_vars PROVE StoreInv'
    OBVIOUS
  <2>1. Ranges /\ g_modelDirty \in BOOLEAN /\ TaskInv
    BY TypeParts DEF StoreInv, TaskInv
  <2>2. Ranges'
    BY <2>1, RangesStep DEF TaskInv
  <2>3. g_modelDirty' \in BOOLEAN
    BY <2>1, DirtyStep
  <2>4. TaskInv'
    BY <2>1, TaskStep
  <2>5. DirectoryUnambiguous' /\ BootShownIsStored'
    BY <2>1, DirectoryStep, BootStep DEF StoreInv
  <2> QED BY <2>2, <2>3, <2>4, <2>5, TypePartsPrimed DEF StoreInv, TaskInv
<1> QED BY InitInv, <1>1, PTL DEF Spec

(* No two entries of the directory differ in case only, so that each can   *)
(* be reached (findPresetSlotByName).                                      *)
THEOREM DirectoryStaysUnambiguous == Spec => []DirectoryUnambiguous
<1>1. StoreInv => DirectoryUnambiguous
  BY DEF StoreInv
<1> QED BY StoreInvariance, <1>1, PTL

(* The boot model shown is the one in NVS, or the car in its place.        *)
THEOREM BootShownStaysStored == Spec => []BootShownIsStored
<1>1. StoreInv => BootShownIsStored
  BY DEF StoreInv
<1> QED BY StoreInvariance, <1>1, PTL

-----------------------------------------------------------------------------
(* Refinement of PresetList.                                               *)

(* The list that implements PresetList: what a deletion began with until   *)
(* it writes the directory.                                                *)
List == IF Deleting THEN kept ELSE Entries

(* Outside a deletion the list depends on directory and slots alone.       *)
LEMMA ListUnchanged ==
  ASSUME ~Deleting, ~Deleting', dir' = dir, \A i \in DOMAIN dir : blob'[i] = blob[i]
  PROVE  List' = List
  BY DEF List, Entries

(* A deletion cut short damages the list within the bounds of CutDelete.   *)
LEMMA CutShort ==
  ASSUME Ranges, TaskInv, Deleting, ~Deleting', dir' = dir, blob' = blob
  PROVE  PL!Next
<1>1. /\ DOMAIN dir = 1 .. Len(dir) /\ Len(dir) \in Nat /\ kept \in Seq([name : Names, blob : Bits])
      /\ Len(kept) = Len(dir) /\ job.slot \in DOMAIN dir
      /\ \A j \in DOMAIN dir : kept[j].name = dir[j]
  BY DEF Ranges, TaskInv, DeletePlanned
<1>2. DOMAIN kept = DOMAIN dir
  BY <1>1
<1>3. /\ Len(Entries) = Len(dir) /\ Entries' = Entries
      /\ \A j \in DOMAIN dir : Entries[j].name = dir[j] /\ Entries[j].blob = blob[j]
  BY EntriesType DEF Entries
<1>4. \A j \in DOMAIN dir :
        \/ blob[j] = kept[j].blob
        \/ /\ j \notin Unmoved
           /\ blob[j] = Absent \/ \E k \in DOMAIN dir : k > j /\ blob[j] = kept[k].blob
  BY DEF TaskInv, DamageBounded
<1>5. PL!CutDelete(job.slot)
  BY <1>1, <1>2, <1>3, <1>4 DEF PL!CutDelete, PL!Untouched, Unmoved
<1> QED BY <1>1, <1>2, <1>5 DEF PL!Next

(* A save of a known name changes the list with its blob.                  *)
LEMMA SaveBlobSaves ==
  ASSUME Ranges, TaskInv, SaveBlob
  PROVE  PL!Next \/ List' = List
<1>1. /\ ~Deleting /\ ~Deleting' /\ dir' = dir /\ blob' = [blob EXCEPT ![job.slot] = job.cfg]
      /\ job.slot \in Slots /\ job.name \in Names /\ job.cfg \in 0 .. 3
      /\ blob \in [Slots -> Bits] /\ DOMAIN dir = 1 .. Len(dir) /\ Len(dir) \in Nat
  BY DEF SaveBlob, Deleting, TaskInv, SavePlanned, Ranges
<1>2. /\ DOMAIN Entries = DOMAIN dir
      /\ \A i \in DOMAIN dir : i \in Slots /\ Entries[i] = [name |-> dir[i], blob |-> blob[i]]
  BY EntriesType
<1>3. CASE job.slot \in DOMAIN dir /\ Fold[dir[job.slot]] = Fold[job.name]
  <2> DEFINE new == [Entries EXCEPT ![job.slot].blob = job.cfg]
  <2>1. Entries' = [i \in DOMAIN dir |-> [name |-> dir[i], blob |-> blob'[i]]]
    BY <1>1 DEF Entries
  <2>2. new = [i \in DOMAIN dir |-> IF i = job.slot
                                    THEN [Entries[i] EXCEPT !.blob = job.cfg] ELSE Entries[i]]
    BY <1>2, <1>3
  <2>3. ASSUME NEW i \in DOMAIN dir
        PROVE  [name |-> dir[i], blob |-> blob'[i]] =
                  IF i = job.slot THEN [Entries[i] EXCEPT !.blob = job.cfg] ELSE Entries[i]
    BY <1>1, <1>2
  <2>4. Entries' = new
    BY <2>1, <2>2, <2>3, Zenon
  <2>5. PL!Same(Entries[job.slot], job.name)
    BY <1>2, <1>3 DEF PL!Same
  <2>6. PL!Save(job.name, job.cfg)
    BY <1>1, <1>2, <1>3, <2>4, <2>5 DEF PL!Save
  <2> QED BY <1>1, <2>6 DEF PL!Next
<1>4. CASE job.slot = Len(dir) + 1
  <2>1. \A i \in DOMAIN dir : blob'[i] = blob[i]
    BY <1>1, <1>2, <1>4
  <2> QED BY <1>1, <2>1, ListUnchanged
<1> QED BY <1>3, <1>4 DEF TaskInv, SavePlanned, SaveBlob

(* A save of a new name changes the list with the directory.               *)
LEMMA SaveDirSaves ==
  ASSUME Ranges, TaskInv, SaveDir
  PROVE  PL!Next \/ List' = List
<1>1. /\ ~Deleting /\ ~Deleting' /\ dir' = job.dir /\ blob' = blob
      /\ job.slot \in Slots /\ job.name \in Names /\ job.cfg \in 0 .. 3
      /\ blob[job.slot] = job.cfg /\ dir \in Seq(Names)
      /\ blob \in [Slots -> Bits] /\ DOMAIN dir = 1 .. Len(dir) /\ Len(dir) \in Nat
  BY DEF SaveDir, Deleting, TaskInv, SavePlanned, Ranges
<1>2. /\ DOMAIN Entries = DOMAIN dir /\ Entries \in Seq([name : Names, blob : Bits])
      /\ Len(Entries) = Len(dir)
      /\ \A i \in DOMAIN dir : /\ i \in Slots /\ Entries[i] = [name |-> dir[i], blob |-> blob[i]]
                               /\ Entries[i].name = dir[i]
  BY EntriesType
<1>3. CASE job.dir = dir
  BY <1>1, <1>3, ListUnchanged
<1>4. CASE /\ job.slot = Len(dir) + 1 /\ job.dir = Append(dir, job.name)
           /\ \A i \in DOMAIN dir : Fold[dir[i]] # Fold[job.name]
  <2> DEFINE e   == [name |-> job.name, blob |-> job.cfg]
             new == Append(Entries, e)
  <2>1. e \in [name : Names, blob : Bits]
    BY <1>1 DEF Bits
  <2>2. /\ new \in Seq([name : Names, blob : Bits]) /\ Len(new) = Len(dir) + 1
        /\ \A i \in 1 .. Len(dir) : new[i] = Entries[i]
        /\ new[Len(dir) + 1] = e
    BY <1>2, <2>1, AppendProperties
  <2>3. /\ dir' \in Seq(Names) /\ Len(dir') = Len(dir) + 1
        /\ \A i \in 1 .. Len(dir) : dir'[i] = dir[i]
        /\ dir'[Len(dir) + 1] = job.name
    BY <1>1, <1>4, Appended
  <2>4. DOMAIN dir' = 1 .. Len(dir) + 1
    BY <2>3, LenProperties
  <2>5. Entries' = [i \in 1 .. Len(dir) + 1 |-> [name |-> dir'[i], blob |-> blob[i]]]
    BY <1>1, <2>4 DEF Entries
  <2>6. ASSUME NEW i \in 1 .. Len(dir) + 1
        PROVE  [name |-> dir'[i], blob |-> blob[i]] = new[i]
    <3>1. CASE i \in 1 .. Len(dir)
      BY <1>1, <1>2, <2>2, <2>3, <3>1
    <3>2. CASE i = Len(dir) + 1
      BY <1>1, <1>4, <2>2, <2>3, <3>2
    <3>3. i \in 1 .. Len(dir) \/ i = Len(dir) + 1
      BY <1>1
    <3> QED BY <3>1, <3>2, <3>3
  <2>7. new = [i \in 1 .. Len(dir) + 1 |-> new[i]]
    BY <2>2, LenProperties
  <2> HIDE DEF new
  <2>8. Entries' = new
    BY <2>5, <2>6, <2>7, Zenon
  <2>9. Len(Entries) < MaxUserPresets
    BY <1>1, <1>2, <1>4 DEF Slots
  <2>10. \A i \in DOMAIN Entries : ~PL!Same(Entries[i], job.name)
    BY <1>2, <1>4 DEF PL!Same
  <2>11. PL!Save(job.name, job.cfg)
    BY <1>1, <2>8, <2>9, <2>10 DEF PL!Save, new
  <2> QED BY <1>1, <2>11 DEF PL!Next
<1> QED BY <1>3, <1>4 DEF TaskInv, SavePlanned, SaveDir

(* Writing the packed directory is the deletion.                           *)
LEMMA DeleteDirDeletes ==
  ASSUME Ranges, Ranges', TaskInv, DeleteDir
  PROVE  PL!Next
<1>1. /\ Deleting /\ ~Deleting' /\ dir' = job.dir /\ blob' = blob /\ Passed = Len(dir)
      /\ DOMAIN dir = 1 .. Len(dir) /\ Len(dir) \in Nat
      /\ kept \in Seq([name : Names, blob : Bits])
  BY DEF DeleteDir, Deleting, Passed, Ranges
<1>2. /\ job.slot \in DOMAIN dir /\ Len(kept) = Len(dir)
      /\ \A j \in DOMAIN dir : kept[j].name = dir[j]
  BY <1>1 DEF TaskInv, DeletePlanned
<1>3. DOMAIN kept = DOMAIN dir
  BY <1>1, <1>2
<1>4. Entries' = [k \in DOMAIN job.dir |-> [name |-> job.dir[k], blob |-> blob[k]]]
  BY <1>1 DEF Entries
<1>5. /\ Entries' \in Seq([name : Names, blob : Bits]) /\ DOMAIN Entries' = DOMAIN job.dir
      /\ \A k \in DOMAIN job.dir : Entries'[k] = [name |-> job.dir[k], blob |-> blob[k]]
  <2>1. job.dir \in Seq(Names) /\ Len(job.dir) <= MaxUserPresets /\ blob \in [Slots -> Bits]
    BY <1>1 DEF Ranges
  <2> QED BY <1>4, <2>1, ListType
<1>6. PICK f \in [DOMAIN job.dir -> Surviving] : Packs(f)
  BY <1>1 DEF TaskInv, SurvivorsPacked
<1>7. Surviving = {j \in DOMAIN kept \ {job.slot} : kept[j].blob # Absent}
  BY <1>1, <1>2, <1>3 DEF Surviving
<1>8. \A k \in DOMAIN job.dir : Entries'[k] = kept[f[k]]
  <2> SUFFICES ASSUME NEW k \in DOMAIN job.dir PROVE Entries'[k] = kept[f[k]]
    OBVIOUS
  <2>1. /\ f[k] \in DOMAIN kept /\ f[k] \in DOMAIN dir
        /\ job.dir[k] = dir[f[k]] /\ blob[k] = kept[f[k]].blob
    BY <1>3, <1>6, <1>7 DEF Packs
  <2>2. kept[f[k]] \in [name : Names, blob : Bits] /\ kept[f[k]].name = job.dir[k]
    <3>1. kept[f[k]] \in [name : Names, blob : Bits]
      <4>1. kept \in [1 .. Len(kept) -> [name : Names, blob : Bits]]
        BY <1>1, LenProperties
      <4>2. f[k] \in 1 .. Len(kept)
        BY <1>1, <1>2, <2>1
      <4> QED BY <4>1, <4>2, Zenon
    <3>2. kept[f[k]].name = job.dir[k]
      BY <1>2, <2>1
    <3> QED BY <3>1, <3>2
  <2> QED BY <1>5, <2>1, <2>2
<1>9. Entries' \in Seq(PL!Entry)
  <2>1. [name : Names, blob : Bits] = PL!Entry
    BY DEF PL!Entry, Bits
  <2> QED BY <1>5, <2>1
<1>10. PL!Delete(job.slot)
  <2>1. PL!Survivors(job.slot) = Surviving
    BY <1>1, <1>7 DEF PL!Survivors
  <2>2. PL!Lists(f, Surviving)
    BY <1>6 DEF PL!Lists, Packs
  <2> QED BY <1>1, <1>5, <1>6, <1>8, <1>9, <2>1, <2>2 DEF PL!Delete
<1> QED BY <1>1, <1>2, <1>3, <1>10 DEF PL!Next

(* Every step changes the list as PresetList allows, or not at all.        *)
LEMMA ListStep == StoreInv /\ [Next]_vars => [PL!Next]_(IF Deleting THEN kept ELSE Entries)
<1> SUFFICES ASSUME StoreInv, [Next]_vars
             PROVE  PL!Next \/ List' = List
  BY DEF List
<1> USE DEF vars, nvs, ram, task
<1>1. Ranges /\ TaskInv
  BY TypeParts DEF StoreInv, TaskInv
<1>2. Ranges'
  BY <1>1, RangesStep DEF TaskInv
<1>3. CASE phase = "idle" /\ UNCHANGED <<dir, blob>> /\ phase' \in {"idle", "blob"}
  BY <1>3, ListUnchanged DEF Deleting
<1>4. CASE Crash \/ WriteRefused
  <2>1. UNCHANGED <<dir, blob>> /\ ~Deleting'
    BY <1>4 DEF Crash, WriteRefused, Deleting
  <2> QED BY <1>1, <2>1, CutShort, ListUnchanged
<1>5. ASSUME NEW name \in Names, ModelDelete(name) PROVE List' = List
  BY <1>5 DEF ModelDelete, List, Deleting
<1>6. CASE SaveBlob
  BY <1>1, <1>6, SaveBlobSaves
<1>7. CASE SaveDir
  BY <1>1, <1>7, SaveDirSaves
<1>8. CASE DeleteCopy \/ DeleteCopied \/ DeleteErase
  BY <1>8 DEF DeleteCopy, DeleteCopied, DeleteErase, List, Deleting
<1>9. CASE DeleteDir
  BY <1>1, <1>2, <1>9, DeleteDirDeletes
<1>10. CASE DeleteAfter
  BY <1>10, ListUnchanged DEF DeleteAfter, Deleting
<1>11. CASE UNCHANGED vars
  BY <1>11 DEF List, Entries, Deleting
<1> QED BY <1>3, <1>4, <1>5, <1>6, <1>7, <1>8, <1>9, <1>10, <1>11 DEF Next, Edit, PresetApply,
        ModelSetDefault, ModelRevert, ModelCreate, ModelSaveCurrent, StartSave

(* The store implements a list in which saves and deletions take effect at *)
(* once or not at all, but for a deletion cut short: its damage is bounded *)
(* (preset_store.cpp, saveUserPresetBlob and deleteUserPreset).            *)
THEOREM PresetListRefined == Spec => ImplementsPresetList
<1>1. Init => PL!Init
  <2> SUFFICES ASSUME Init PROVE PL!Init
    OBVIOUS
  <2>1. StoreInv /\ ~Deleting
    BY InitInv DEF Init, Deleting
  <2>2. Ranges /\ DirectoryUnambiguous
    BY <2>1, TypeParts DEF StoreInv
  <2>3. [name : Names, blob : Bits] = PL!Entry
    BY DEF PL!Entry, Bits
  <2>4. /\ Entries \in Seq(PL!Entry) /\ Len(Entries) <= MaxUserPresets
        /\ DOMAIN Entries = DOMAIN dir /\ \A i \in DOMAIN dir : Entries[i].name = dir[i]
    BY <2>2, <2>3, EntriesType DEF Ranges
  <2> QED BY <2>1, <2>2, <2>4 DEF PL!Init, PL!Same, DirectoryUnambiguous
<1> QED BY <1>1, ListStep, StoreInvariance, PTL DEF Spec, ImplementsPresetList, PL!Spec
=============================================================================
