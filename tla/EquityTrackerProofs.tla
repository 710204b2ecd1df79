------------------------ MODULE EquityTrackerProofs ------------------------
(***************************************************************************)
(* Proofs about EquityTracker for every number of NAV values, days,        *)
(* crashes, failed writes and corruptions: types, the peak that survives   *)
(* every crash, what its mirror is worth, the abstract high-water mark it  *)
(* implements, the day's loss basis and the untrusted basis that blocks.   *)
(***************************************************************************)
EXTENDS EquityTracker, TLAPS

\* What a loaded or saved file is made of.
LEMMA ContentTypes ==
    /\ NoFile \in Content /\ Torn \in Content /\ LegacyBasis \in Content
    /\ \A v, d \in Nat, ok \in BOOLEAN : Good(v, d, ok) \in Content
  BY DEF NoFile, Torn, LegacyBasis, Good, Content, Kinds

\* What a constructor reads from the files is a peak and a basis.
LEMMA LoadTypes ==
    ASSUME NEW s \in Slots
    PROVE  /\ PeakOnDisk(s) \in Nat
           /\ BasisOnDisk(s) \in [val : Nat, day : Nat, trusted : BOOLEAN]
           /\ LoadPeakFiles(s) \in Slots
           /\ LoadBasisFiles(s) \in Slots
  BY ContentTypes
  DEF Slots, Content, PeakOnDisk, BasisOnDisk, BasisFrom, ColdBasis, LoadPeakFiles,
      LoadBasisFiles, Aside

\* Every variable keeps its type.
THEOREM TypeCorrect == Spec => []TypeOK
<1>1. Init => TypeOK
  <2> SUFFICES ASSUME Init PROVE TypeOK
    OBVIOUS
  <2>1. PICK b \in {NoFile, LegacyBasis} :
           disk = [s \in Stores |-> IF s = "peak" THEN EmptySlots
                                    ELSE [EmptySlots EXCEPT !.main = b]]
    BY DEF Init
  <2>2. EmptySlots \in Slots /\ [EmptySlots EXCEPT !.main = b] \in Slots
    BY ContentTypes DEF EmptySlots, Slots
  <2>3. disk \in [Stores -> Slots]
    BY <2>1, <2>2
  <2>4. /\ basis \in [val : Nat, day : Nat, trusted : BOOLEAN]
        /\ held \in Content
        /\ out \in [kind : {"none", "ok", "refused", "invalid"}, equity : Nat, peak : Nat,
                   day : Nat, pnl : Int]
    BY ContentTypes DEF Init, ColdBasis, NoCall
  <2>5. QED
    BY <2>3, <2>4 DEF Init, TypeOK, Stores, Pcs
<1>2. TypeOK /\ [Next]_vars => TypeOK'
  <2> SUFFICES ASSUME TypeOK, [Next]_vars PROVE TypeOK'
    OBVIOUS
  <2> USE DEF TypeOK
  <2>1. CASE Boot
    BY <2>1, LoadTypes DEF Boot, faults, history, Stores
  <2>2. ASSUME NEW n \in 0..MaxNav, Snapshot(n) PROVE TypeOK'
    BY <2>2, BoundsAssumption DEF Snapshot, faults, history, NoCall, Pcs
  <2>3. CASE RaisePeak
    BY <2>3 DEF RaisePeak, faults, history, Stores, Pcs
  <2>4. CASE CheckDay
    <3>1. CASE basis.day # day /\ ~basis.trusted /\ basis.day # 0
      BY <2>4, <3>1 DEF CheckDay, faults, history, NoCall, Stores, Pcs
    <3>2. CASE basis.day # day /\ ~(~basis.trusted /\ basis.day # 0)
      <4>1. out' = Measured(0)
        BY <2>4, <3>2 DEF CheckDay
      <4>2. out' \in [kind : {"none", "ok", "refused", "invalid"}, equity : Nat,
                     peak : Nat, day : Nat, pnl : Int]
        BY <4>1 DEF Measured
      <4>3. basis' \in [val : Nat, day : Nat, trusted : BOOLEAN]
        <5>1. basis' = [val |-> nav, day |-> day, trusted |-> TRUE]
          BY <2>4, <3>2 DEF CheckDay
        <5>2. QED
          BY <5>1
      <4>4. QED
        BY <2>4, <3>2, <4>2, <4>3 DEF CheckDay, faults, history, Stores, Pcs
    <3>3. CASE basis.day = day
      <4>1. out' = Measured(nav - basis.val)
        BY <2>4, <3>3 DEF CheckDay
      <4>2. nav - basis.val \in Int
        OBVIOUS
      <4>3. out' \in [kind : {"none", "ok", "refused", "invalid"}, equity : Nat,
                     peak : Nat, day : Nat, pnl : Int]
        BY <4>1, <4>2 DEF Measured
      <4>4. QED
        BY <2>4, <3>3, <4>3 DEF CheckDay, faults, history, Stores, Pcs
    <3>4. QED
      BY <3>1, <3>2, <3>3
  <2>5. CASE MirrorOpen
    BY <2>5, ContentTypes DEF MirrorOpen, faults, history, Slots, Pcs
  <2>6. CASE MirrorFill
    BY <2>6 DEF MirrorFill, faults, history, Slots, Pcs
  <2>7. CASE MirrorFails
    BY <2>7 DEF MirrorFails, Pcs
  <2>8. CASE WriteTmp
    <3>1. Payload \in Content
      BY ContentTypes DEF Payload
    <3>2. QED
      BY <2>8, <3>1 DEF WriteTmp, faults, history, Slots, Pcs
  <2>9. CASE SaveFails
    BY <2>9, ContentTypes DEF SaveFails, AfterSave, Slots, Pcs
  <2>10. CASE Publish
    <3>1. disk[store] \in Slots /\ disk[store].tmp \in Content
      BY DEF Slots
    <3>2. disk' \in [Stores -> Slots]
      BY <2>10, <3>1, ContentTypes DEF Publish, Slots
    <3>3. durable' \in Nat /\ prevDurable' \in Nat /\ dayOpen' \in Nat
      BY <2>10, <3>1 DEF Publish, RecordPublished, Content
    <3>4. QED
      BY <2>10, <3>2, <3>3 DEF Publish, AfterSave, faults, Pcs
  <2>11. CASE Return
    BY <2>11 DEF Return, faults, history, Pcs
  <2>12. CASE NextDay
    BY <2>12 DEF NextDay, faults
  <2>13. CASE Crash
    <3>1. /\ basis' \in [val : Nat, day : Nat, trusted : BOOLEAN]
          /\ held' \in Content
          /\ out' \in [kind : {"none", "ok", "refused", "invalid"}, equity : Nat,
                      peak : Nat, day : Nat, pnl : Int]
      BY <2>13, ContentTypes DEF Crash, ColdBasis, NoCall
    <3>2. cutShort' \in BOOLEAN /\ crashes' \in Nat
      BY <2>13 DEF Crash
    <3>3. QED
      BY <2>13, <3>1, <3>2 DEF Crash, Stores, Pcs
  <2>14. ASSUME NEW s \in Stores, Corrupt(s) PROVE TypeOK'
    BY <2>14, ContentTypes DEF Corrupt, history, Slots
  <2>15. CASE UNCHANGED vars
    BY <2>15 DEF vars, faults, history
  <2>16. QED
    BY <2>1, <2>2, <2>3, <2>4, <2>5, <2>6, <2>7, <2>8, <2>9, <2>10, <2>11, <2>12,
       <2>13, <2>14, <2>15 DEF Next, Fetch, Save
<1>3. QED
  BY <1>1, <1>2, PTL DEF Spec

-----------------------------------------------------------------------------
(* The peak survives every crash and every failed write.                     *)

\* With no file there is nothing to lose.
LEMMA PeakInvInit == Init => PeakInv
  BY DEF Init, PeakInv, EmptySlots, NoFile, Stores

\* Each step of a save, a load, a crash or a failed write keeps the inductive form.
LEMMA PeakInvStep == TypeOK /\ PeakInv /\ [Next]_vars => PeakInv'
<1> SUFFICES ASSUME TypeOK, PeakInv, [Next]_vars PROVE PeakInv'
  OBVIOUS
<1> USE DEF TypeOK, PeakInv
<1>1. CASE Boot
  <2>1. disk'["peak"] = LoadPeakFiles(disk["peak"])
    BY <1>1 DEF Boot, Stores
  <2>2. disk["peak"].main.kind \in Kinds /\ disk["peak"].bak.kind \in Kinds
    BY DEF Stores, Slots, Content
  <2>3. CASE disk["peak"].main.kind = "good"
    <3>1. disk'["peak"] = disk["peak"] /\ peak' = disk["peak"].main.val
      BY <1>1, <2>1, <2>3 DEF Boot, LoadPeakFiles, PeakOnDisk
    <3>2. QED
      BY <1>1, <2>3, <3>1 DEF Boot, faults
  <2>4. CASE disk["peak"].main.kind = "absent" /\ disk["peak"].bak.kind # "good"
    <3>1. disk'["peak"].main = disk["peak"].main /\ disk'["peak"].bak.kind # "good"
      BY <2>1, <2>2, <2>4 DEF LoadPeakFiles, Aside, NoFile, Stores, Slots
    <3>2. peak' = 0
      BY <1>1, <2>4 DEF Boot, PeakOnDisk
    <3>3. QED
      BY <1>1, <2>4, <3>1, <3>2 DEF Boot, faults
  <2>5. QED
    BY <1>1, <2>2, <2>3, <2>4 DEF Boot, faults, Kinds
<1>2. ASSUME NEW n \in 0..MaxNav, Snapshot(n) PROVE PeakInv'
  BY <1>2 DEF Snapshot, faults, history
<1>3. CASE RaisePeak
  <2>1. peak' \in Nat /\ peak' >= peak /\ pc' \in {"mirror", "day"}
    BY <1>3 DEF RaisePeak
  <2>2. disk' = disk /\ durable' = durable /\ corruptions' = corruptions /\ up /\ up'
    BY <1>3 DEF RaisePeak, faults, history
  <2>3. corruptions = 0 => peak' >= durable
    BY <2>1, <2>2
  <2>4. QED
    BY <2>1, <2>2, <2>3
<1>4. CASE CheckDay
  BY <1>4 DEF CheckDay, faults, history
<1>5. CASE MirrorOpen
  <2>1. CASE store = "basis" \/ disk[store].main.kind = "absent"
    <3>1. disk'["peak"] = disk["peak"]
      BY <1>5, <2>1 DEF MirrorOpen, Stores
    <3>2. QED
      BY <1>5, <2>1, <3>1 DEF MirrorOpen, faults, history
  <2>2. CASE store = "peak" /\ disk[store].main.kind # "absent"
    <3>1. disk'["peak"] = [disk["peak"] EXCEPT !.bak = Torn]
      BY <1>5, <2>2 DEF MirrorOpen, Stores
    <3>2. disk["peak"].main.kind \in Kinds
      BY DEF Stores, Slots, Content
    <3>3. QED
      BY <1>5, <2>2, <3>1, <3>2 DEF MirrorOpen, faults, history, Slots, Stores, Torn, Kinds
  <2>3. QED
    BY <2>1, <2>2 DEF Stores
<1>6. CASE MirrorFill
  <2>1. CASE store = "basis"
    <3>1. disk'["peak"] = disk["peak"]
      BY <1>6, <2>1 DEF MirrorFill, Stores
    <3>2. QED
      BY <1>6, <2>1, <3>1 DEF MirrorFill, faults, history
  <2>2. CASE store = "peak"
    <3>1. disk'["peak"] = [disk["peak"] EXCEPT !.bak = held]
      BY <1>6, <2>2 DEF MirrorFill, Stores
    <3>2. QED
      BY <1>6, <2>2, <3>1 DEF MirrorFill, faults, history, Slots, Stores
  <2>3. QED
    BY <2>1, <2>2 DEF Stores
<1>7. CASE MirrorFails
  BY <1>7 DEF MirrorFails
<1>8. CASE WriteTmp
  <2>1. CASE store = "basis"
    <3>1. disk'["peak"] = disk["peak"]
      BY <1>8, <2>1 DEF WriteTmp, Stores
    <3>2. QED
      BY <1>8, <2>1, <3>1 DEF WriteTmp, faults, history
  <2>2. CASE store = "peak"
    <3>1. disk'["peak"] = [disk["peak"] EXCEPT !.tmp = Payload]
      BY <1>8, <2>2 DEF WriteTmp, Stores
    <3>2. QED
      BY <1>8, <2>2, <3>1 DEF WriteTmp, faults, history, Slots, Stores, Payload
  <2>3. QED
    BY <2>1, <2>2 DEF Stores
<1>9. CASE SaveFails
  <2>1. CASE store = "basis"
    <3>1. disk'["peak"] = disk["peak"]
      BY <1>9, <2>1 DEF SaveFails, Stores
    <3>2. QED
      BY <1>9, <2>1, <3>1 DEF SaveFails, AfterSave
  <2>2. CASE store = "peak"
    <3>1. disk'["peak"] = [disk["peak"] EXCEPT !.tmp = NoFile]
      BY <1>9, <2>2 DEF SaveFails, Stores
    <3>2. QED
      BY <1>9, <2>2, <3>1 DEF SaveFails, AfterSave, Slots, Stores
  <2>3. QED
    BY <2>1, <2>2 DEF Stores
<1>10. CASE Publish
  <2>1. CASE store = "peak"
    <3>1. disk'["peak"].main = disk["peak"].tmp
      BY <1>10, <2>1 DEF Publish, Stores, Slots
    <3>2. QED
      BY <1>10, <2>1, <3>1 DEF Publish, RecordPublished, AfterSave, faults, Good
  <2>2. CASE store = "basis"
    <3>1. disk'["peak"] = disk["peak"]
      BY <1>10, <2>2 DEF Publish, Stores
    <3>2. QED
      BY <1>10, <2>2, <3>1 DEF Publish, RecordPublished, AfterSave, faults
  <2>3. QED
    BY <2>1, <2>2 DEF Stores
<1>11. CASE Return
  BY <1>11 DEF Return, faults, history
<1>12. CASE NextDay
  BY <1>12 DEF NextDay, faults
<1>13. CASE Crash
  BY <1>13 DEF Crash
<1>14. ASSUME NEW s \in Stores, Corrupt(s) PROVE PeakInv'
  BY <1>14 DEF Corrupt
<1>15. CASE UNCHANGED vars
  BY <1>15 DEF vars, faults, history
<1>16. QED
  BY <1>1, <1>2, <1>3, <1>4, <1>5, <1>6, <1>7, <1>8, <1>9, <1>10, <1>11, <1>12,
     <1>13, <1>14, <1>15 DEF Next, Fetch, Save

\* The inductive form of DurablePeakKept holds in every reachable state.
LEMMA PeakInvariant == Spec => [](TypeOK /\ PeakInv)
<1>1. TypeOK /\ PeakInv /\ [Next]_vars => PeakInv'
  BY PeakInvStep
<1>2. QED
  BY PeakInvInit, <1>1, TypeCorrect, PTL DEF Spec

\* No crash and no failed write takes the peak below a published value.
THEOREM DurablePeakSafe == Spec => []DurablePeakKept
<1>1. TypeOK /\ PeakInv => DurablePeakKept
  BY DEF PeakInv, DurablePeakKept
<1>2. QED
  BY <1>1, PeakInvariant, PTL

-----------------------------------------------------------------------------
(* The store implements the abstract high-water mark.                        *)

\* Without damage the loader would find exactly the highest published peak.
LEMMA StoredIsDurable ==
    TypeOK /\ PeakInv /\ corruptions = 0 => PeakOnDisk(disk["peak"]) = durable
<1> SUFFICES ASSUME TypeOK, PeakInv, corruptions = 0
             PROVE PeakOnDisk(disk["peak"]) = durable
  OBVIOUS
<1>1. disk["peak"].main.kind \in {"good", "absent"}
  BY DEF TypeOK, PeakInv, Stores, Slots, Content, Kinds
<1>2. QED
  BY <1>1 DEF PeakInv, PeakOnDisk

\* Moving torn files aside does not change what the loader finds.
LEMMA LoadKeepsPeak ==
    ASSUME NEW s \in Slots PROVE PeakOnDisk(LoadPeakFiles(s)) = PeakOnDisk(s)
<1>1. CASE s.main.kind = "good"
  BY <1>1 DEF LoadPeakFiles
<1>2. CASE s.main.kind # "good"
  <2>1. /\ LoadPeakFiles(s).main = Aside(s.main)
        /\ LoadPeakFiles(s).bak = Aside(s.bak)
    BY <1>2 DEF LoadPeakFiles, Slots
  <2>2. Aside(s.main).kind # "good"
    BY <1>2 DEF Aside, NoFile
  <2>3. QED
    BY <1>2, <2>1, <2>2 DEF PeakOnDisk, Aside, NoFile
<1>3. QED
  BY <1>1, <1>2

\* Every step of the tracker is a step of the abstract mark or a stutter.
LEMMA HighWaterMarkStep ==
    TypeOK /\ TypeOK' /\ PeakInv /\ PeakInv' /\ [Next]_vars
        => [HWM!HwNext]_(HWM!hwVars)
<1> SUFFICES ASSUME TypeOK, TypeOK', PeakInv, PeakInv', [Next]_vars
             PROVE [HWM!HwNext]_(HWM!hwVars)
  OBVIOUS
<1> DEFINE Stored == PeakOnDisk(disk["peak"])
<1>t. /\ disk["peak"] \in Slots /\ Stored \in Nat /\ Stored' \in Nat
      /\ corruptions \in Nat /\ peak \in Nat /\ durable \in Nat
  BY LoadTypes DEF TypeOK, Stores
<1>q. (TypeOK /\ PeakInv /\ corruptions = 0 => PeakOnDisk(disk["peak"]) = durable)'
  BY StoredIsDurable, PTL
\* A step that leaves the process and the stored value alone is a stutter.
<1>s. ASSUME peak' = peak, up' = up, Stored' = Stored, corruptions' = corruptions
      PROVE [HWM!HwNext]_(HWM!hwVars)
  BY <1>s DEF HWM!hwVars
\* A step that leaves the process alone is allowed once a file is damaged.
<1>d. ASSUME peak' = peak, up' = up, corruptions' > 0
      PROVE [HWM!HwNext]_(HWM!hwVars)
  BY <1>d, <1>t DEF HWM!HwNext, HWM!Damage
\* So is a write that keeps the highest published peak.
<1>w. ASSUME peak' = peak, up' = up, durable' = durable, corruptions' = corruptions
      PROVE [HWM!HwNext]_(HWM!hwVars)
  <2>1. CASE corruptions = 0
    BY <1>w, <1>s, <1>q, <2>1, StoredIsDurable
  <2>2. CASE corruptions > 0
    BY <1>w, <1>d, <2>2
  <2>3. QED
    BY <1>t, <2>1, <2>2
<1>1. CASE Boot
  <2>1. Stored' = Stored
    <3>1. disk'["peak"] = LoadPeakFiles(disk["peak"])
      BY <1>1 DEF Boot, Stores
    <3>2. QED
      BY <3>1, <1>t, LoadKeepsPeak
  <2>2. HWM!Start
    BY <1>1, <2>1 DEF Boot, faults, HWM!Start
  <2>3. QED
    BY <2>2 DEF HWM!HwNext
<1>2. ASSUME NEW n \in 0..MaxNav, Snapshot(n) PROVE [HWM!HwNext]_(HWM!hwVars)
  BY <1>2, <1>s DEF Snapshot, faults, history
<1>3. CASE RaisePeak
  <2>1. CASE nav > peak
    BY <1>3, <2>1 DEF RaisePeak, faults, history, HWM!HwNext, HWM!Raise
  <2>2. CASE ~(nav > peak)
    BY <1>3, <2>2, <1>s DEF RaisePeak, faults, history
  <2>3. QED
    BY <2>1, <2>2
<1>4. CASE CheckDay
  BY <1>4, <1>s DEF CheckDay, faults, history
<1>5. CASE MirrorOpen
  BY <1>5, <1>w DEF MirrorOpen, faults, history
<1>6. CASE MirrorFill
  BY <1>6, <1>w DEF MirrorFill, faults, history
<1>7. CASE MirrorFails
  BY <1>7, <1>s DEF MirrorFails
<1>8. CASE WriteTmp
  BY <1>8, <1>w DEF WriteTmp, faults, history
<1>9. CASE SaveFails
  BY <1>9, <1>w DEF SaveFails
<1>10. CASE Publish
  <2>1. CASE store = "basis"
    <3>1. durable' = durable
      BY <1>10, <2>1 DEF Publish, RecordPublished
    <3>2. QED
      BY <1>10, <3>1, <1>w DEF Publish, faults
  <2>2. CASE store = "peak" /\ corruptions = 0
    <3>1. disk["peak"].tmp = Good(peak, 0, TRUE) /\ peak >= durable
      BY <1>10, <2>2 DEF Publish, PeakInv
    <3>2. durable' = peak
      BY <1>10, <2>2, <3>1, <1>t DEF Publish, RecordPublished, Good
    <3>3. corruptions' = 0
      BY <1>10, <2>2 DEF Publish, faults
    <3>4. Stored = durable /\ Stored' = peak
      BY <1>q, <2>2, <3>2, <3>3, StoredIsDurable
    <3>5. HWM!Store
      BY <1>10, <3>1, <3>4 DEF Publish, faults, HWM!Store
    <3>6. QED
      BY <3>5 DEF HWM!HwNext
  <2>3. CASE corruptions > 0
    BY <1>10, <2>3, <1>d DEF Publish, faults
  <2>4. QED
    BY <1>t, <2>1, <2>2, <2>3 DEF TypeOK, Stores
<1>11. CASE Return
  BY <1>11, <1>s DEF Return, faults, history
<1>12. CASE NextDay
  BY <1>12, <1>s DEF NextDay, faults
<1>13. CASE Crash
  BY <1>13 DEF Crash, HWM!HwNext, HWM!Stop
<1>14. ASSUME NEW s \in Stores, Corrupt(s) PROVE [HWM!HwNext]_(HWM!hwVars)
  BY <1>14, <1>d, <1>t DEF Corrupt
<1>15. CASE UNCHANGED vars
  BY <1>15, <1>s DEF vars, faults
<1>16. QED
  BY <1>1, <1>2, <1>3, <1>4, <1>5, <1>6, <1>7, <1>8, <1>9, <1>10, <1>11, <1>12,
     <1>13, <1>14, <1>15 DEF Next, Fetch, Save

\* The persisted peak is a high-water mark: it rises, a lower or equal stored
\* copy survives crashes, and a restart resumes from the stored copy.
THEOREM TrackerImplementsHighWaterMark == Spec => ImplementsHighWaterMark
<1>1. Init => HWM!HwInit
  BY DEF Init, HWM!HwInit, PeakOnDisk, EmptySlots, NoFile, Stores
<1>2. TypeOK /\ TypeOK' /\ PeakInv /\ PeakInv' /\ [Next]_vars
        => [HWM!HwNext]_(HWM!hwVars)
  BY HighWaterMarkStep
<1>3. QED
  BY <1>1, <1>2, PeakInvariant, PTL DEF Spec, ImplementsHighWaterMark, HWM!HwSpec

-----------------------------------------------------------------------------
(* The loss of the day is measured from the first basis published.           *)

Saving == {"mirror", "fill", "write", "publish"}
SavingBasis == store = "basis" /\ pc \in Saving
SavingPeak == store = "peak" /\ pc \in Saving

\* What makes LossFromDayOpen inductive: once today has a published basis, the
\* primary holds it, so does the memory of a running process, and none is being
\* saved; the figure that a call is about to return was measured from it.
BasisInv ==
    /\ ~up => pc = "idle"
    /\ pc # "idle" => out.kind = "none"
    /\ corruptions = 0 =>
           /\ disk["basis"].main.kind # "torn"
           /\ dayOpen # 0 => /\ disk["basis"].main.kind = "good"
                             /\ disk["basis"].main.day = day
                             /\ disk["basis"].main.val = dayOpen
           /\ up /\ dayOpen # 0 => basis.day = day /\ basis.val = dayOpen
           /\ SavingBasis => /\ basis.day = day => dayOpen = 0
                             /\ out.equity = basis.val /\ out.day = basis.day /\ out.pnl = 0
           /\ pc = "publish" /\ store = "basis" =>
                  disk["basis"].tmp = Good(basis.val, basis.day, TRUE)
           /\ pc = "return" /\ out.day = day /\ dayOpen # 0 => out.pnl = out.equity - dayOpen

\* A save leaves the files of the other store alone ...
LEMMA OtherStoreKept ==
    ASSUME TypeOK, NEW s \in Stores, s # store, Save PROVE disk'[s] = disk[s]
  BY DEF TypeOK, Save, MirrorOpen, MirrorFill, MirrorFails, WriteTmp, SaveFails, Publish

\* ... and touches its own primary only in the rename.
LEMMA PrimaryKept ==
    ASSUME TypeOK, NEW s \in Stores,
           MirrorOpen \/ MirrorFill \/ MirrorFails \/ WriteTmp \/ SaveFails
    PROVE  disk'[s].main = disk[s].main
<1>1. CASE s # store
  BY <1>1, OtherStoreKept DEF Save
<1>2. CASE s = store
  <2>1. \/ disk' = disk
        \/ disk' = [disk EXCEPT ![store].bak = Torn]
        \/ disk' = [disk EXCEPT ![store].bak = held]
        \/ disk' = [disk EXCEPT ![store].tmp = Payload]
        \/ disk' = [disk EXCEPT ![store].tmp = NoFile]
    BY DEF MirrorOpen, MirrorFill, MirrorFails, WriteTmp, SaveFails
  <2>2. disk[s] \in Slots /\ disk \in [Stores -> Slots]
    BY DEF TypeOK
  <2>3. QED
    BY <1>2, <2>1, <2>2 DEF Slots
<1>3. QED
  BY <1>1, <1>2

LEMMA BasisInvInit == Init => BasisInv
<1> SUFFICES ASSUME Init PROVE BasisInv
  OBVIOUS
<1>1. disk["basis"].main.kind # "torn"
  BY DEF Init, EmptySlots, NoFile, LegacyBasis, Good, Stores
<1>2. QED
  BY <1>1 DEF Init, BasisInv, SavingBasis

LEMMA BasisInvStep == TypeOK /\ BasisInv /\ [Next]_vars => BasisInv'
<1> SUFFICES ASSUME TypeOK, BasisInv, [Next]_vars PROVE BasisInv'
  OBVIOUS
<1>0. "basis" \in Stores /\ disk["basis"] \in Slots /\ disk \in [Stores -> Slots]
  BY DEF TypeOK, Stores
<1>1. CASE Boot
  <2>1. disk'["basis"] = LoadBasisFiles(disk["basis"]) /\ basis' = BasisOnDisk(disk["basis"])
    BY <1>1 DEF Boot, Stores
  <2>2. CASE corruptions = 0
    <3>1. disk'["basis"] = disk["basis"]
      BY <2>1, <2>2 DEF LoadBasisFiles, BasisInv
    <3>2. dayOpen # 0 => basis'.day = day /\ basis'.val = dayOpen
      BY <2>1, <2>2 DEF BasisOnDisk, BasisFrom, BasisInv
    <3>3. QED
      BY <1>1, <3>1, <3>2 DEF Boot, BasisInv, SavingBasis, Saving, faults
  <2>3. CASE corruptions # 0
    BY <1>1, <2>3 DEF Boot, BasisInv, faults
  <2>4. QED
    BY <2>2, <2>3
<1>2. ASSUME NEW n \in 0..MaxNav, Snapshot(n) PROVE BasisInv'
  <2>1. /\ pc' = "idle" \/ (pc' = "peak" /\ out'.kind = "none")
        /\ up' = up /\ up /\ disk' = disk /\ basis' = basis /\ day' = day
        /\ dayOpen' = dayOpen /\ corruptions' = corruptions
    BY <1>2 DEF Snapshot, NoCall, faults, history
  <2>2. QED
    BY <2>1 DEF BasisInv, SavingBasis, Saving
<1>3. CASE RaisePeak
  BY <1>3 DEF RaisePeak, BasisInv, SavingBasis, Saving, faults, history
<1>4. CASE CheckDay
  <2>0. /\ up' = up /\ up /\ disk' = disk /\ day' = day /\ dayOpen' = dayOpen
        /\ corruptions' = corruptions
    BY <1>4 DEF CheckDay, faults, history
  <2>1. CASE basis.day # day /\ ~basis.trusted /\ basis.day # 0
    BY <1>4, <2>0, <2>1 DEF CheckDay, BasisInv, SavingBasis, Saving, NoCall
  <2>2. CASE basis.day # day /\ ~(~basis.trusted /\ basis.day # 0)
    <3>1. /\ basis' = [val |-> nav, day |-> day, trusted |-> TRUE] /\ out' = Measured(0)
          /\ pc' = "mirror" /\ store' = "basis"
      BY <1>4, <2>2 DEF CheckDay
    <3>2. /\ basis'.val = nav /\ basis'.day = day /\ out'.kind = "none" /\ out'.equity = nav
          /\ out'.day = day /\ out'.pnl = 0
      BY <3>1 DEF Measured
    <3>3. corruptions = 0 => dayOpen = 0
      BY <2>0, <2>2 DEF BasisInv
    <3>4. QED
      BY <2>0, <3>1, <3>2, <3>3 DEF BasisInv, SavingBasis, Saving
  <2>3. CASE basis.day = day
    <3>1. basis' = basis /\ out' = Measured(nav - basis.val) /\ pc' = "return" /\ store' = store
      BY <1>4, <2>3 DEF CheckDay
    <3>2. out'.kind = "none" /\ out'.equity = nav /\ out'.day = day /\ out'.pnl = nav - basis.val
      BY <3>1 DEF Measured
    <3>3. QED
      BY <2>0, <3>1, <3>2 DEF BasisInv, SavingBasis, Saving
  <2>4. QED
    BY <2>1, <2>2, <2>3
<1>5. CASE MirrorOpen \/ MirrorFill \/ MirrorFails
  <2>1. /\ disk'["basis"].main = disk["basis"].main
        /\ pc \in {"mirror", "fill"} /\ pc' \in {"fill", "write"} /\ up' = up /\ up
        /\ basis' = basis /\ store' = store /\ out' = out /\ day' = day /\ dayOpen' = dayOpen
        /\ corruptions' = corruptions
    BY <1>0, <1>5, PrimaryKept DEF MirrorOpen, MirrorFill, MirrorFails, faults, history
  <2>2. QED
    BY <2>1 DEF BasisInv, SavingBasis, Saving
<1>6. CASE WriteTmp
  <2>1. /\ disk'["basis"].main = disk["basis"].main
        /\ pc = "write" /\ pc' = "publish" /\ up' = up /\ up
        /\ basis' = basis /\ store' = store /\ out' = out /\ day' = day /\ dayOpen' = dayOpen
        /\ corruptions' = corruptions
    BY <1>0, <1>6, PrimaryKept DEF WriteTmp, faults, history
  <2>2. store = "basis" => disk'["basis"].tmp = Good(basis.val, basis.day, TRUE)
    BY <1>0, <1>6 DEF WriteTmp, Payload, Slots
  <2>3. QED
    BY <2>1, <2>2 DEF BasisInv, SavingBasis, Saving
<1>7. CASE SaveFails
  <2>1. /\ disk'["basis"].main = disk["basis"].main
        /\ pc \in {"write", "publish"} /\ up' = up /\ up
        /\ basis' = basis /\ store' = store /\ out' = out /\ day' = day /\ dayOpen' = dayOpen
        /\ corruptions' = corruptions
    BY <1>0, <1>7, PrimaryKept DEF SaveFails
  <2>2. pc' = IF store = "peak" THEN "day" ELSE "return"
    BY <1>7 DEF SaveFails, AfterSave
  <2>3. store \in {"peak", "basis"}
    BY DEF TypeOK, Stores
  <2>4. QED
    BY <2>1, <2>2, <2>3 DEF BasisInv, SavingBasis, Saving
<1>8. CASE Publish
  <2>0. /\ pc = "publish" /\ up' = up /\ up /\ pc' = AfterSave
        /\ basis' = basis /\ store' = store /\ out' = out /\ day' = day
        /\ corruptions' = corruptions
    BY <1>8 DEF Publish, faults
  <2>1. CASE store = "peak"
    <3>1. disk'["basis"] = disk["basis"]
      BY <1>0, <1>8, <2>1, OtherStoreKept DEF Save
    <3>2. dayOpen' = dayOpen /\ pc' = "day"
      BY <1>8, <2>0, <2>1 DEF Publish, RecordPublished, AfterSave
    <3>3. QED
      BY <2>0, <2>1, <3>1, <3>2 DEF BasisInv, SavingBasis, Saving
  <2>2. CASE store = "basis"
    <3>1. disk'["basis"].main = disk["basis"].tmp /\ pc' = "return"
      BY <1>0, <1>8, <2>0, <2>2 DEF Publish, Slots, AfterSave
    <3>2. CASE corruptions = 0
      <4>1. disk["basis"].tmp = Good(basis.val, basis.day, TRUE)
        BY <2>0, <2>2, <3>2 DEF BasisInv
      <4>2. /\ disk["basis"].tmp.val = basis.val /\ disk["basis"].tmp.day = basis.day
            /\ disk["basis"].tmp.kind = "good"
        BY <4>1 DEF Good
      <4>3. dayOpen = 0
        BY <2>0, <2>2, <3>2 DEF BasisInv, SavingBasis, Saving
      <4>4. dayOpen' # 0 => dayOpen' = basis.val /\ basis.day = day
        BY <1>8, <2>2, <4>2, <4>3 DEF Publish, RecordPublished
      <4>5. out.kind = "none" /\ out.equity = basis.val /\ out.pnl = 0 /\ basis.val \in Nat
        BY <2>0, <2>2, <3>2 DEF BasisInv, SavingBasis, Saving, TypeOK
      <4>6. QED
        BY <2>0, <3>1, <4>2, <4>4, <4>5 DEF BasisInv, SavingBasis, Saving
    <3>3. CASE corruptions # 0
      BY <2>0, <3>3 DEF BasisInv
    <3>4. QED
      BY <3>2, <3>3
  <2>3. QED
    BY <2>1, <2>2 DEF TypeOK, Stores
<1>9. CASE Return
  BY <1>9 DEF Return, BasisInv, SavingBasis, Saving, faults, history
<1>10. CASE NextDay
  <2>1. dayOpen' = 0
    BY <1>10 DEF NextDay
  <2>2. QED
    BY <1>10, <2>1 DEF NextDay, BasisInv, SavingBasis, faults
<1>11. CASE Crash
  <2>1. out'.kind = "none" /\ pc' = "idle" /\ ~up'
    BY <1>11 DEF Crash, NoCall
  <2>2. QED
    BY <1>11, <2>1 DEF Crash, BasisInv, SavingBasis, Saving
<1>12. ASSUME NEW s \in Stores, Corrupt(s) PROVE BasisInv'
  <2>1. corruptions' # 0
    BY <1>12 DEF Corrupt, TypeOK
  <2>2. QED
    BY <1>12, <2>1 DEF Corrupt, BasisInv
<1>13. CASE UNCHANGED vars
  BY <1>13 DEF vars, BasisInv, SavingBasis, faults, history
<1>14. QED
  BY <1>1, <1>2, <1>3, <1>4, <1>5, <1>6, <1>7, <1>8, <1>9, <1>10, <1>11, <1>12, <1>13
  DEF Next, Fetch, Save

\* The same step for the property itself, which only a return and a publication touch.
LEMMA LossStep ==
    TypeOK /\ BasisInv /\ LossFromDayOpen /\ [Next]_vars => LossFromDayOpen'
<1> SUFFICES ASSUME TypeOK, BasisInv, LossFromDayOpen, [Next]_vars,
                    out'.kind = "ok", out'.day = day', dayOpen' # 0, corruptions' = 0
             PROVE  out'.pnl = out'.equity - dayOpen'
  BY DEF LossFromDayOpen
<1>1. CASE Return
  <2>1. /\ out'.pnl = out.pnl /\ out'.equity = out.equity /\ out'.day = out.day
        /\ dayOpen' = dayOpen /\ day' = day /\ corruptions' = corruptions /\ pc = "return"
    BY <1>1 DEF Return, faults, history, TypeOK
  <2>2. QED
    BY <2>1 DEF BasisInv
<1>2. CASE NextDay
  BY <1>2 DEF NextDay
<1>3. CASE Save
  <2>1. pc # "idle" /\ out' = out
    BY <1>3 DEF Save, MirrorOpen, MirrorFill, MirrorFails, WriteTmp, SaveFails, Publish
  <2>2. QED
    BY <2>1 DEF BasisInv
<1>4. CASE Crash
  BY <1>4 DEF Crash, NoCall
<1>5. CASE CheckDay
  BY <1>5 DEF CheckDay, NoCall, Measured
<1>6. ASSUME NEW n \in 0..MaxNav, Snapshot(n) PROVE FALSE
  BY <1>6 DEF Snapshot, NoCall
<1>7. ASSUME NEW s \in Stores, Corrupt(s) PROVE FALSE
  BY <1>7 DEF Corrupt, TypeOK
<1>8. CASE Boot \/ RaisePeak \/ UNCHANGED vars
  <2>1. out' = out /\ day' = day /\ dayOpen' = dayOpen /\ corruptions' = corruptions
    BY <1>8 DEF Boot, RaisePeak, vars, faults, history
  <2>2. QED
    BY <2>1 DEF LossFromDayOpen
<1>9. QED
  BY <1>1, <1>2, <1>3, <1>4, <1>5, <1>6, <1>7, <1>8 DEF Next, Fetch

LEMMA BasisInvariant == Spec => [](TypeOK /\ BasisInv)
<1>1. TypeOK /\ BasisInv /\ [Next]_vars => BasisInv'
  BY BasisInvStep
<1>2. QED
  BY BasisInvInit, <1>1, TypeCorrect, PTL DEF Spec

\* However often the process is killed and whichever saves fail, the daily loss is
\* measured from the first basis of the day that reached the disk.
THEOREM LossMeasuredFromDayOpen == Spec => []LossFromDayOpen
<1>1. Init => LossFromDayOpen
  BY DEF Init, LossFromDayOpen
<1>2. QED
  BY <1>1, LossStep, BasisInvariant, PTL DEF Spec

-----------------------------------------------------------------------------
(* An untrusted basis stays in force until an operator replaces it.          *)

\* A legacy primary is what the memory holds, is never being replaced, and the only
\* day a call may succeed on is its own.
LegacyInv ==
    corruptions = 0 /\ IsLegacy(disk["basis"].main) =>
        /\ disk["basis"].main.day # 0
        /\ up => basis.day = disk["basis"].main.day /\ ~basis.trusted
        /\ ~SavingBasis
        /\ pc = "return" \/ out.kind = "ok" => out.day = disk["basis"].main.day

LEMMA LegacyInvInit == Init => LegacyInv
<1> SUFFICES ASSUME Init PROVE LegacyInv
  OBVIOUS
<1>1. disk["basis"].main \in {NoFile, LegacyBasis}
  BY DEF Init, EmptySlots, Stores
<1>2. IsLegacy(disk["basis"].main) => disk["basis"].main.day # 0
  BY <1>1 DEF IsLegacy, NoFile, LegacyBasis, Good
<1>3. ~up /\ pc = "idle" /\ out.kind = "none"
  BY DEF Init, NoCall
<1>4. QED
  BY <1>2, <1>3 DEF LegacyInv, SavingBasis, Saving

\* Without damage a legacy primary is never replaced: no later primary is a legacy
\* one that was not there before.
LEMMA LegacyPrimary ==
    ASSUME TypeOK, BasisInv, LegacyInv, [Next]_vars, corruptions' = 0,
           IsLegacy(disk["basis"].main) \/ IsLegacy(disk'["basis"].main)
    PROVE  corruptions = 0 /\ disk'["basis"].main = disk["basis"].main
<1>0. "basis" \in Stores /\ disk["basis"] \in Slots /\ disk \in [Stores -> Slots]
  BY DEF TypeOK, Stores
<1>1. CASE Boot
  <2>1. disk'["basis"] = LoadBasisFiles(disk["basis"]) /\ corruptions' = corruptions
    BY <1>1 DEF Boot, Stores, faults
  <2>2. QED
    BY <2>1 DEF LoadBasisFiles, BasisInv
<1>2. CASE MirrorOpen \/ MirrorFill \/ MirrorFails \/ WriteTmp \/ SaveFails
  <2>1. corruptions' = corruptions
    BY <1>2 DEF MirrorOpen, MirrorFill, MirrorFails, WriteTmp, SaveFails, faults
  <2>2. QED
    BY <1>0, <1>2, <2>1, PrimaryKept
<1>3. CASE Publish
  <2>1. corruptions' = corruptions /\ pc = "publish"
    BY <1>3 DEF Publish, faults
  <2>2. CASE store = "basis"
    <3>1. disk'["basis"].main = Good(basis.val, basis.day, TRUE)
      BY <1>0, <1>3, <2>1, <2>2 DEF Publish, Slots, BasisInv
    <3>2. ~IsLegacy(disk'["basis"].main)
      BY <3>1 DEF IsLegacy, Good
    <3>3. ~IsLegacy(disk["basis"].main)
      BY <2>1, <2>2 DEF LegacyInv, SavingBasis, Saving
    <3>4. QED
      BY <3>2, <3>3
  <2>3. CASE store = "peak"
    BY <1>0, <1>3, <2>1, <2>3, OtherStoreKept DEF Save
  <2>4. QED
    BY <2>2, <2>3 DEF TypeOK, Stores
<1>4. ASSUME NEW s \in Stores, Corrupt(s) PROVE FALSE
  BY <1>4 DEF Corrupt, TypeOK
<1>5. ASSUME \/ (\E n \in 0..MaxNav : Snapshot(n)) \/ RaisePeak \/ CheckDay \/ Return
             \/ NextDay \/ Crash \/ UNCHANGED vars
      PROVE  disk' = disk /\ corruptions' = corruptions
  BY <1>5 DEF Snapshot, RaisePeak, CheckDay, Return, NextDay, Crash, vars, faults, history
<1>6. QED
  BY <1>1, <1>2, <1>3, <1>4, <1>5 DEF Next, Fetch, Save

LEMMA LegacyInvStep == TypeOK /\ BasisInv /\ LegacyInv /\ [Next]_vars => LegacyInv'
<1> SUFFICES ASSUME TypeOK, BasisInv, LegacyInv, [Next]_vars,
                    corruptions' = 0, IsLegacy(disk'["basis"].main)
             PROVE  LegacyInv'
  BY DEF LegacyInv
<1> DEFINE main == disk["basis"].main
<1>0. /\ corruptions = 0 /\ disk'["basis"].main = main /\ IsLegacy(main)
      /\ main.day # 0 /\ (up => basis.day = main.day /\ ~basis.trusted) /\ ~SavingBasis
      /\ pc = "return" \/ out.kind = "ok" => out.day = main.day
  BY LegacyPrimary DEF LegacyInv
<1> SUFFICES /\ up' => basis'.day = main.day /\ ~basis'.trusted
             /\ ~SavingBasis'
             /\ pc' = "return" \/ out'.kind = "ok" => out'.day = main.day
  BY <1>0 DEF LegacyInv
<1>1. CASE Boot
  <2>1. basis' = BasisOnDisk(disk["basis"])
    BY <1>1 DEF Boot
  <2>2. basis'.day = main.day /\ ~basis'.trusted
    BY <1>0, <2>1 DEF BasisOnDisk, BasisFrom, IsLegacy
  <2>3. pc' = pc /\ store' = store /\ out' = out
    BY <1>1 DEF Boot
  <2>4. QED
    BY <1>0, <2>2, <2>3 DEF SavingBasis
<1>2. ASSUME NEW n \in 0..MaxNav, Snapshot(n)
      PROVE  /\ up' => basis'.day = main.day /\ ~basis'.trusted
             /\ ~SavingBasis'
             /\ pc' = "return" \/ out'.kind = "ok" => out'.day = main.day
  <2>1. up /\ basis' = basis /\ pc' \in {"idle", "peak"} /\ out'.kind # "ok"
    BY <1>2 DEF Snapshot, NoCall
  <2>2. QED
    BY <1>0, <2>1 DEF SavingBasis, Saving
<1>3. CASE RaisePeak
  <2>1. /\ up /\ basis' = basis /\ out' = out /\ pc = "peak"
        /\ pc' = "day" \/ (pc' = "mirror" /\ store' = "peak")
    BY <1>3 DEF RaisePeak
  <2>2. out.kind = "none"
    BY <2>1 DEF BasisInv
  <2>3. QED
    BY <1>0, <2>1, <2>2 DEF SavingBasis, Saving
<1>4. CASE CheckDay
  <2>1. up /\ basis.day = main.day /\ ~basis.trusted /\ basis.day # 0
    BY <1>0, <1>4 DEF CheckDay
  <2>2. CASE basis.day # day
    <3>1. basis' = basis /\ pc' = "idle" /\ out'.kind = "refused"
      BY <1>4, <2>1, <2>2 DEF CheckDay, NoCall
    <3>2. QED
      BY <2>1, <3>1 DEF SavingBasis, Saving
  <2>3. CASE basis.day = day
    <3>1. basis' = basis /\ pc' = "return" /\ out'.day = day
      BY <1>4, <2>3 DEF CheckDay, Measured
    <3>2. QED
      BY <2>1, <2>3, <3>1 DEF SavingBasis, Saving
  <2>4. QED
    BY <2>2, <2>3
<1>5. CASE Save
  <2>1. up /\ up' = up /\ basis' = basis /\ out' = out /\ store' = store /\ pc \in Saving
    BY <1>5 DEF Save, MirrorOpen, MirrorFill, MirrorFails, WriteTmp, SaveFails, Publish, Saving
  <2>2. store = "peak" /\ out.kind = "none"
    BY <1>0, <2>1 DEF SavingBasis, Saving, BasisInv, TypeOK, Stores
  <2>3. pc' # "return"
    BY <1>5, <2>2 DEF Save, MirrorOpen, MirrorFill, MirrorFails, WriteTmp, SaveFails, Publish,
                      AfterSave
  <2>4. QED
    BY <1>0, <2>1, <2>2, <2>3 DEF SavingBasis
<1>6. CASE Return
  <2>1. up /\ basis' = basis /\ pc = "return" /\ pc' = "idle" /\ out'.day = out.day
    BY <1>6 DEF Return, TypeOK
  <2>2. QED
    BY <1>0, <2>1 DEF SavingBasis, Saving
<1>7. CASE NextDay
  BY <1>0, <1>7 DEF NextDay, SavingBasis
<1>8. CASE Crash
  <2>1. ~up' /\ pc' = "idle" /\ out'.kind = "none"
    BY <1>8 DEF Crash, NoCall
  <2>2. QED
    BY <2>1 DEF SavingBasis, Saving
<1>9. ASSUME NEW s \in Stores, Corrupt(s) PROVE FALSE
  BY <1>9 DEF Corrupt, TypeOK
<1>10. CASE UNCHANGED vars
  BY <1>0, <1>10 DEF vars, SavingBasis
<1>11. QED
  BY <1>1, <1>2, <1>3, <1>4, <1>5, <1>6, <1>7, <1>8, <1>9, <1>10 DEF Next, Fetch

\* A legacy basis file blocks trading on every day but its own and is overwritten
\* by no rollover, across any number of restarts.
THEOREM UntrustedBasisStays == Spec => UntrustedBasisBlocks
<1> DEFINE Blocks == IsLegacy(disk.basis.main) /\ corruptions' = 0
          => disk'.basis.main = disk.basis.main
             /\ (out'.kind = "ok" => out'.day = disk.basis.main.day)
<1>1. TypeOK /\ BasisInv /\ LegacyInv /\ LegacyInv' /\ [Next]_vars => Blocks
  <2> SUFFICES ASSUME TypeOK, BasisInv, LegacyInv, LegacyInv', [Next]_vars,
                      IsLegacy(disk["basis"].main), corruptions' = 0
               PROVE  /\ disk'["basis"].main = disk["basis"].main
                      /\ out'.kind = "ok" => out'.day = disk["basis"].main.day
    OBVIOUS
  <2>1. disk'["basis"].main = disk["basis"].main
    BY LegacyPrimary
  <2>2. QED
    BY <2>1 DEF LegacyInv
<1>2. TypeOK /\ BasisInv /\ LegacyInv /\ [Next]_vars => LegacyInv'
  BY LegacyInvStep
<1> HIDE DEF Blocks
<1>3. Spec => [][Blocks]_vars
  BY <1>1, <1>2, LegacyInvInit, BasisInvariant, PTL DEF Spec
<1>4. QED
  BY <1>3 DEF UntrustedBasisBlocks, Blocks

-----------------------------------------------------------------------------
(* One damaged primary costs at most the last increment of the peak.         *)

MirrorHolds(v) == v = 0 \/ (disk["peak"].bak.kind = "good" /\ disk["peak"].bak.val >= v)

\* What makes OneCorruptionCostsOneStep inductive: outside a save a loader would
\* find no less than the peak before the last one, also in the mirror alone as long
\* as nothing is damaged; inside a save the mirror is one step ahead.
StepInv ==
    /\ ~up => pc = "idle"
    /\ prevDurable <= durable
    /\ pc = "publish" /\ store = "peak" => disk["peak"].tmp = Good(peak, 0, TRUE)
    /\ corruptions <= 1 /\ ~cutShort =>
           /\ up => peak >= prevDurable
           /\ ~SavingPeak => PeakOnDisk(disk["peak"]) >= prevDurable
           /\ corruptions = 0 =>
                  /\ ~SavingPeak => MirrorHolds(prevDurable)
                  /\ pc = "fill" /\ store = "peak" => held.kind = "good" /\ held.val = durable
                  /\ pc \in {"write", "publish"} /\ store = "peak" => MirrorHolds(durable)

\* A step outside the peak's save leaves the inductive form alone.
LEMMA StepInvUntouched ==
    ASSUME TypeOK, StepInv, disk'["peak"] = disk["peak"], durable' = durable,
           prevDurable' = prevDurable, up' => up, ~up' => pc' = "idle",
           corruptions' = corruptions, cutShort' = cutShort,
           up' => peak' >= peak /\ peak' \in Nat, ~SavingPeak, ~SavingPeak'
    PROVE  StepInv'
<1>1. peak \in Nat /\ prevDurable \in Nat
  BY DEF TypeOK
<1>2. up' => (peak >= prevDurable => peak' >= prevDurable)
  BY <1>1
<1>3. PeakOnDisk(disk["peak"])' = PeakOnDisk(disk["peak"])
  BY DEF PeakOnDisk
<1>4. ~(pc' = "publish" /\ store' = "peak")
  BY DEF SavingPeak, Saving
<1>5. QED
  BY <1>2, <1>3, <1>4 DEF StepInv, MirrorHolds, SavingPeak, Saving

LEMMA StepInvStep == TypeOK /\ PeakInv /\ StepInv /\ [Next]_vars => StepInv'
<1> SUFFICES ASSUME TypeOK, PeakInv, StepInv, [Next]_vars PROVE StepInv'
  OBVIOUS
<1>0. /\ "peak" \in Stores /\ disk["peak"] \in Slots /\ disk \in [Stores -> Slots]
      /\ peak \in Nat /\ durable \in Nat /\ prevDurable \in Nat /\ corruptions \in Nat
      /\ store \in {"peak", "basis"} /\ nav \in Nat /\ PeakOnDisk(disk["peak"]) \in Nat
  BY LoadTypes DEF TypeOK, Stores
<1>1. CASE Boot
  <2> DEFINE s == disk["peak"]
  <2>1. /\ disk'["peak"] = LoadPeakFiles(s) /\ peak' = PeakOnDisk(s) /\ pc' = pc /\ pc = "idle"
        /\ durable' = durable /\ prevDurable' = prevDurable /\ corruptions' = corruptions
        /\ cutShort' = cutShort /\ up'
    BY <1>1 DEF Boot, Stores, faults, StepInv
  <2>2. PeakOnDisk(LoadPeakFiles(s)) = PeakOnDisk(s)
    BY <1>0, LoadKeepsPeak
  <2>3. s.bak.kind = "good" => LoadPeakFiles(s).bak = s.bak
    BY <1>0 DEF LoadPeakFiles, Aside, Slots
  <2>4. MirrorHolds(prevDurable) => MirrorHolds(prevDurable)'
    BY <2>1, <2>3 DEF MirrorHolds
  <2>5. QED
    BY <2>1, <2>2, <2>4 DEF StepInv, SavingPeak, Saving
<1>2. ASSUME NEW n \in 0..MaxNav, Snapshot(n) PROVE StepInv'
  <2>1. /\ disk' = disk /\ peak' = peak /\ up' = up /\ up /\ pc = "idle" /\ pc' \in {"idle", "peak"}
        /\ durable' = durable /\ prevDurable' = prevDurable /\ corruptions' = corruptions
        /\ cutShort' = cutShort
    BY <1>2 DEF Snapshot, faults, history
  <2>2. QED
    BY <1>0, <2>1, StepInvUntouched DEF SavingPeak, Saving
<1>3. CASE RaisePeak
  <2>1. /\ disk' = disk /\ up' = up /\ up /\ pc = "peak"
        /\ durable' = durable /\ prevDurable' = prevDurable /\ corruptions' = corruptions
        /\ cutShort' = cutShort
    BY <1>3 DEF RaisePeak, faults, history
  <2>2. CASE nav > peak
    <3>1. peak' = nav /\ store' = "peak" /\ pc' = "mirror"
      BY <1>3, <2>2 DEF RaisePeak
    <3>2. peak >= prevDurable => peak' >= prevDurable
      BY <1>0, <2>2, <3>1
    <3>3. QED
      BY <2>1, <3>1, <3>2 DEF StepInv, SavingPeak, Saving
  <2>3. CASE ~(nav > peak)
    <3>1. peak' = peak /\ pc' = "day"
      BY <1>3, <2>3 DEF RaisePeak
    <3>2. QED
      BY <1>0, <2>1, <3>1, StepInvUntouched DEF SavingPeak, Saving
  <2>4. QED
    BY <2>2, <2>3
<1>4. CASE CheckDay
  <2>1. /\ disk' = disk /\ peak' = peak /\ up' = up /\ up /\ pc = "day"
        /\ durable' = durable /\ prevDurable' = prevDurable /\ corruptions' = corruptions
        /\ cutShort' = cutShort
        /\ pc' \in {"idle", "return"} \/ (pc' = "mirror" /\ store' = "basis")
    BY <1>4 DEF CheckDay, faults, history
  <2>2. QED
    BY <1>0, <2>1, StepInvUntouched DEF SavingPeak, Saving
\* The save of the basis.
<1>5. CASE Save /\ store = "basis"
  <2>1. disk'["peak"] = disk["peak"] /\ peak' = peak /\ up' = up /\ up /\ store' = store
        /\ corruptions' = corruptions
    BY <1>0, <1>5, OtherStoreKept
    DEF Save, MirrorOpen, MirrorFill, MirrorFails, WriteTmp, SaveFails, Publish, faults
  <2>2. durable' = durable /\ prevDurable' = prevDurable
    BY <1>5 DEF Save, MirrorOpen, MirrorFill, MirrorFails, WriteTmp, SaveFails, Publish,
                RecordPublished, history
  <2>3. CASE cutShort' = cutShort
    BY <1>0, <1>5, <2>1, <2>2, <2>3, StepInvUntouched DEF SavingPeak
  <2>4. CASE cutShort' # cutShort
    <3>1. cutShort'
      BY <1>5, <2>4 DEF Save, MirrorOpen, MirrorFill, MirrorFails, WriteTmp, SaveFails,
                        Publish, history
    <3>2. QED
      BY <1>5, <2>1, <2>2, <3>1 DEF StepInv
  <2>5. QED
    BY <2>3, <2>4
\* The save of the peak.
<1>6. CASE MirrorOpen /\ store = "peak"
  <2>1. /\ peak' = peak /\ up' = up /\ up /\ store' = store /\ pc = "mirror"
        /\ durable' = durable /\ prevDurable' = prevDurable /\ corruptions' = corruptions
        /\ cutShort' = cutShort /\ held' = disk["peak"].main
    BY <1>6 DEF MirrorOpen, faults, history
  <2>2. CASE disk["peak"].main.kind = "absent"
    <3>1. pc' = "write" /\ disk' = disk
      BY <1>6, <2>2 DEF MirrorOpen
    <3>2. corruptions = 0 => durable = 0
      BY <2>2 DEF PeakInv
    <3>3. QED
      BY <1>6, <2>1, <3>1, <3>2 DEF StepInv, SavingPeak, Saving, MirrorHolds
  <2>3. CASE disk["peak"].main.kind # "absent"
    <3>1. pc' = "fill"
      BY <1>6, <2>3 DEF MirrorOpen
    <3>2. disk["peak"].main.kind \in {"absent", "torn", "good"}
      BY <1>0 DEF Slots, Content, Kinds
    <3>3. corruptions = 0 => held'.kind = "good" /\ held'.val = durable
      BY <2>1, <2>3, <3>2 DEF PeakInv
    <3>4. QED
      BY <1>6, <2>1, <3>1, <3>3 DEF StepInv, SavingPeak, Saving
  <2>4. QED
    BY <2>2, <2>3
<1>7. CASE MirrorFill /\ store = "peak"
  <2>1. /\ peak' = peak /\ up' = up /\ up /\ store' = store /\ pc = "fill" /\ pc' = "write"
        /\ durable' = durable /\ prevDurable' = prevDurable /\ corruptions' = corruptions
        /\ cutShort' = cutShort
    BY <1>7 DEF MirrorFill, faults, history
  <2>2. disk'["peak"].bak = held
    BY <1>0, <1>7 DEF MirrorFill, Slots
  <2>3. held.kind = "good" /\ held.val = durable => MirrorHolds(durable)'
    BY <1>0, <2>1, <2>2 DEF MirrorHolds
  <2>4. QED
    BY <1>7, <2>1, <2>3 DEF StepInv, SavingPeak, Saving
<1>8. CASE (MirrorFails \/ SaveFails) /\ store = "peak"
  <2>1. cutShort' /\ up' = up /\ up /\ durable' = durable /\ prevDurable' = prevDurable
        /\ pc' \in {"write", "day"}
    BY <1>8 DEF MirrorFails, SaveFails, AfterSave
  <2>2. QED
    BY <2>1 DEF StepInv
<1>9. CASE WriteTmp /\ store = "peak"
  <2>1. /\ peak' = peak /\ up' = up /\ up /\ store' = store /\ pc = "write" /\ pc' = "publish"
        /\ durable' = durable /\ prevDurable' = prevDurable /\ corruptions' = corruptions
        /\ cutShort' = cutShort
    BY <1>9 DEF WriteTmp, faults, history
  <2>2. disk'["peak"].tmp = Good(peak, 0, TRUE) /\ disk'["peak"].bak = disk["peak"].bak
    BY <1>0, <1>9 DEF WriteTmp, Slots, Payload
  <2>3. MirrorHolds(durable) => MirrorHolds(durable)'
    BY <2>1, <2>2 DEF MirrorHolds
  <2>4. QED
    BY <1>9, <2>1, <2>2, <2>3 DEF StepInv, SavingPeak, Saving
<1>10. CASE Publish /\ store = "peak"
  <2>1. /\ peak' = peak /\ up' = up /\ up /\ store' = store /\ pc = "publish" /\ pc' = "day"
        /\ corruptions' = corruptions /\ cutShort' = cutShort
    BY <1>10 DEF Publish, AfterSave, faults
  <2>2. disk["peak"].tmp = Good(peak, 0, TRUE)
    BY <1>10, <2>1 DEF StepInv
  <2>3. disk'["peak"].main = Good(peak, 0, TRUE) /\ disk'["peak"].bak = disk["peak"].bak
    BY <1>0, <1>10, <2>2 DEF Publish, Slots
  <2>4. PeakOnDisk(disk["peak"])' = peak
    BY <2>3 DEF PeakOnDisk, Good
  <2>5. \/ peak > durable /\ durable' = peak /\ prevDurable' = durable
        \/ durable' = durable /\ prevDurable' = prevDurable
    BY <1>10, <2>2 DEF Publish, RecordPublished, Good
  <2>6. prevDurable' \in Nat /\ prevDurable' <= durable' /\ prevDurable' <= durable
        /\ (peak >= prevDurable => peak >= prevDurable')
    BY <1>0, <2>5 DEF StepInv
  <2>7. MirrorHolds(durable) => MirrorHolds(prevDurable)'
    <3>1. disk["peak"].bak.val \in Nat
      BY <1>0 DEF Slots, Content
    <3>2. QED
      BY <1>0, <2>3, <2>6, <3>1 DEF MirrorHolds
  <2>8. QED
    BY <1>10, <2>1, <2>4, <2>6, <2>7 DEF StepInv, SavingPeak, Saving
<1>11. CASE Return
  <2>1. /\ disk' = disk /\ peak' = peak /\ up' = up /\ up /\ pc = "return" /\ pc' = "idle"
        /\ durable' = durable /\ prevDurable' = prevDurable /\ corruptions' = corruptions
        /\ cutShort' = cutShort
    BY <1>11 DEF Return, faults, history
  <2>2. QED
    BY <1>0, <2>1, StepInvUntouched DEF SavingPeak, Saving
<1>12. CASE NextDay
  BY <1>12 DEF NextDay, StepInv, SavingPeak, MirrorHolds, faults
<1>13. CASE Crash
  <2>1. /\ disk' = disk /\ ~up' /\ pc' = "idle" /\ durable' = durable
        /\ prevDurable' = prevDurable /\ corruptions' = corruptions
    BY <1>13 DEF Crash
  <2>2. ~cutShort' => ~cutShort /\ pc \notin Saving
    BY <1>13 DEF Crash, Saving
  <2>3. QED
    BY <2>1, <2>2 DEF StepInv, SavingPeak, Saving, MirrorHolds
<1>14. ASSUME NEW s \in Stores, Corrupt(s) PROVE StepInv'
  <2>1. /\ peak' = peak /\ up' = up /\ pc' = pc /\ store' = store /\ held' = held
        /\ durable' = durable /\ prevDurable' = prevDurable /\ cutShort' = cutShort
        /\ corruptions' = corruptions + 1
    BY <1>14 DEF Corrupt, history
  <2>2. disk'["peak"].tmp = disk["peak"].tmp /\ disk'["peak"].bak = disk["peak"].bak
        /\ (disk'["peak"].main = disk["peak"].main \/ disk'["peak"].main = Torn)
    BY <1>0, <1>14 DEF Corrupt, Slots
  <2>3. corruptions' <= 1 => corruptions = 0 /\ corruptions' # 0
    BY <1>0, <2>1
  <2>4. PeakOnDisk(disk["peak"]) >= prevDurable /\ MirrorHolds(prevDurable)
            => PeakOnDisk(disk["peak"])' >= prevDurable
    <3>1. disk["peak"].bak.val \in Nat /\ disk["peak"].main.val \in Nat
      BY <1>0 DEF Slots, Content
    <3>2. CASE disk'["peak"].main = disk["peak"].main
      BY <2>2, <3>2 DEF PeakOnDisk
    <3>3. CASE disk'["peak"].main = Torn
      <4>1. PeakOnDisk(disk["peak"])'
                = IF disk["peak"].bak.kind = "good" THEN disk["peak"].bak.val ELSE 0
        BY <2>2, <3>3 DEF PeakOnDisk, Torn
      <4>2. QED
        BY <1>0, <3>1, <4>1 DEF MirrorHolds
    <3>4. QED
      BY <2>2, <3>2, <3>3
  <2>5. /\ ~up' => pc' = "idle"
        /\ prevDurable' <= durable'
        /\ pc' = "publish" /\ store' = "peak" => disk'["peak"].tmp = Good(peak', 0, TRUE)
    BY <2>1, <2>2 DEF StepInv
  <2>6. ASSUME corruptions' <= 1, ~cutShort'
        PROVE  /\ up' => peak' >= prevDurable'
               /\ ~SavingPeak' => PeakOnDisk(disk["peak"])' >= prevDurable'
    <3>1. corruptions = 0 /\ corruptions <= 1 /\ ~cutShort
      BY <2>1, <2>3, <2>6
    <3>2. up' => peak' >= prevDurable'
      BY <2>1, <3>1 DEF StepInv
    <3>3. ~SavingPeak => PeakOnDisk(disk["peak"])' >= prevDurable
      BY <2>4, <3>1 DEF StepInv
    <3>4. SavingPeak' = SavingPeak
      BY <2>1 DEF SavingPeak
    <3>5. QED
      BY <2>1, <3>2, <3>3, <3>4
  <2>7. corruptions' # 0
    BY <1>0, <2>1
  <2>8. QED
    BY <2>5, <2>6, <2>7 DEF StepInv
<1>15. CASE UNCHANGED vars
  BY <1>15 DEF vars, StepInv, SavingPeak, MirrorHolds, faults, history
<1>16. QED
  BY <1>0, <1>1, <1>2, <1>3, <1>4, <1>5, <1>6, <1>7, <1>8, <1>9, <1>10, <1>11, <1>12,
     <1>13, <1>14, <1>15 DEF Next, Fetch, Save

\* As long as no save was cut short, one damaged primary takes the drawdown guard
\* back by at most one published peak: the mirror is never the same file twice.
THEOREM OneStepLost == Spec => []OneCorruptionCostsOneStep
<1>1. Init => StepInv
  <2> SUFFICES ASSUME Init PROVE StepInv
    OBVIOUS
  <2>1. ~up /\ pc = "idle" /\ prevDurable = 0 /\ durable = 0 /\ disk["peak"] = EmptySlots
    BY DEF Init, Stores
  <2>2. PeakOnDisk(disk["peak"]) = 0
    BY <2>1 DEF PeakOnDisk, EmptySlots, NoFile
  <2>3. QED
    BY <2>1, <2>2 DEF StepInv, MirrorHolds
<1>2. TypeOK /\ PeakInv /\ StepInv /\ [Next]_vars => StepInv'
  BY StepInvStep
<1>3. StepInv => OneCorruptionCostsOneStep
  BY DEF StepInv, OneCorruptionCostsOneStep
<1>4. QED
  BY <1>1, <1>2, <1>3, PeakInvariant, PTL DEF Spec
=============================================================================
