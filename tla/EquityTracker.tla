--------------------------- MODULE EquityTracker ---------------------------
(***************************************************************************)
(* The two persisted risk figures of src/src/broker/tinkoff_account.py:    *)
(* the peak equity behind RISK_DD and the daily P&L basis behind           *)
(* RISK_DAILY_LOSS.  One process calls _fetch_real_portfolio_state over    *)
(* and over; it may be killed between any two writes and started again;    *)
(* a write may fail; a file may be damaged from outside.                   *)
(***************************************************************************)
EXTENDS Integers

CONSTANTS MaxNav,          \* NAV values are 0..MaxNav; 0 is an unfunded account
          MaxDay,          \* trading days 1..MaxDay; day 0 stands for None
          MaxCrashes,      \* kills of the process
          MaxFailures,     \* writes that raise OSError
          MaxCorruptions   \* primaries damaged from outside

ASSUME BoundsAssumption ==
    /\ MaxNav \in Nat /\ MaxDay \in Nat
    /\ MaxCrashes \in Nat /\ MaxFailures \in Nat /\ MaxCorruptions \in Nat

VARIABLES
    day,         \* _msk_today()
    up,          \* the process runs and its TinkoffAccount is constructed
    peak,        \* _peak_equity
    basis,       \* _previous_close_equity, _last_trading_day, _basis_trusted
    disk,        \* per store: the primary, its .bak mirror and its .tmp file
    pc,          \* where the call of _fetch_real_portfolio_state stands
    store,       \* the store being saved
    held,        \* the primary's content, read by the mirror step
    nav,         \* snapshot.cash of the call
    out,         \* what the last call returned
    crashes, failures, corruptions

\* History: the highest peak ever published, the one before it, the first
\* basis published for the current day, and whether a save was ever cut short.
VARIABLES durable, prevDurable, dayOpen, cutShort

faults  == <<crashes, failures, corruptions>>
history == <<durable, prevDurable, dayOpen, cutShort>>
vars == <<day, up, peak, basis, disk, pc, store, held, nav, out, faults, history>>

-----------------------------------------------------------------------------
(* Files.  A payload holds a value and, for the basis, a day and its trust   *)
(* marker (schema_version >= 1 and basis_valid).                             *)

Stores == {"peak", "basis"}
Kinds  == {"absent", "torn", "good"}
Content == [kind : Kinds, val : Nat, day : Nat, valid : BOOLEAN]
Slots   == [main : Content, bak : Content, tmp : Content]

NoFile == [kind |-> "absent", val |-> 0, day |-> 0, valid |-> FALSE]
Torn   == [kind |-> "torn",   val |-> 0, day |-> 0, valid |-> FALSE]
Good(v, d, ok) == [kind |-> "good", val |-> v, day |-> d, valid |-> ok]

EmptySlots == [main |-> NoFile, bak |-> NoFile, tmp |-> NoFile]

\* A basis file written before the trust marker existed.
LegacyBasis == Good(1, 1, FALSE)
IsLegacy(c) == c.kind = "good" /\ ~c.valid

\* A torn file is renamed aside, so that its path is free again.
Aside(c) == IF c.kind = "torn" THEN NoFile ELSE c

-----------------------------------------------------------------------------
(* Loading: the constructor.                                                 *)

\* Mutant: a damaged primary is taken for a cold start.
PeakOnDisk_NoBak(s) == IF s.main.kind = "good" THEN s.main.val ELSE 0

\* Mutant: an empty store is told from a zero peak by a sentinel.
PeakOnDisk_Sentinel(s) == IF s.main.kind = "good" THEN s.main.val
                          ELSE IF s.bak.kind = "good" THEN s.bak.val
                          ELSE -1

\* _load_peak_equity: the primary, else the mirror, else zero.
PeakOnDisk(s) == IF s.main.kind = "good" THEN s.main.val
                 ELSE IF s.bak.kind = "good" THEN s.bak.val
                 ELSE 0

LoadPeakFiles(s) == IF s.main.kind = "good" THEN s
                    ELSE [s EXCEPT !.main = Aside(s.main), !.bak = Aside(s.bak)]

ColdBasis == [val |-> 0, day |-> 0, trusted |-> FALSE]

\* Mutant: the trust marker is not looked at.
BasisFrom_NoMarker(c) == [val |-> c.val, day |-> c.day, trusted |-> c.val > 0]

BasisFrom(c) == [val |-> c.val, day |-> c.day,
                 trusted |-> c.valid /\ c.day # 0 /\ c.val > 0]

\* Mutant: the mirror is looked at before the primary.
BasisOnDisk_MirrorFirst(s) == IF s.bak.kind = "good" THEN BasisFrom(s.bak)
                              ELSE IF s.main.kind = "good" THEN BasisFrom(s.main)
                              ELSE ColdBasis

\* _load_daily_pnl_basis: a missing primary is a cold start whatever the mirror
\* holds; only a damaged one sends the loader to the mirror.
BasisOnDisk(s) == IF s.main.kind = "good" THEN BasisFrom(s.main)
                  ELSE IF s.main.kind = "torn" /\ s.bak.kind = "good"
                       THEN BasisFrom(s.bak)
                  ELSE ColdBasis

\* The damaged basis primary stays in place; only a damaged mirror is moved.
LoadBasisFiles(s) == IF s.main.kind = "torn" THEN [s EXCEPT !.bak = Aside(s.bak)] ELSE s

NoCall == [kind |-> "none", equity |-> 0, peak |-> 0, day |-> 0, pnl |-> 0]

Boot ==
    /\ ~up
    /\ up' = TRUE
    /\ peak' = PeakOnDisk(disk.peak)
    /\ basis' = BasisOnDisk(disk.basis)
    /\ disk' = [s \in Stores |-> IF s = "peak" THEN LoadPeakFiles(disk[s])
                                        ELSE LoadBasisFiles(disk[s])]
    /\ UNCHANGED <<day, pc, store, held, nav, out, faults,
                   durable, prevDurable, dayOpen, cutShort>>

-----------------------------------------------------------------------------
(* One call of _fetch_real_portfolio_state.                                  *)

\* get_portfolio() answers; an account worth nothing is refused.
Snapshot(n) ==
    /\ up /\ pc = "idle"
    /\ IF n = 0
       THEN /\ out' = [NoCall EXCEPT !.kind = "refused"]
            /\ UNCHANGED <<pc, nav>>
       ELSE /\ out' = NoCall
            /\ nav' = n
            /\ pc' = "peak"
    /\ UNCHANGED <<day, up, peak, basis, disk, store, held, faults, history>>

\* Mutant: the mark follows the NAV down.
RaisePeak_AnyChange ==
    /\ up /\ pc = "peak"
    /\ IF nav # peak
       THEN peak' = nav /\ store' = "peak" /\ pc' = "mirror"
       ELSE pc' = "day" /\ UNCHANGED <<peak, store>>
    /\ UNCHANGED <<day, up, basis, disk, held, nav, out, faults, history>>

RaisePeak ==
    /\ up /\ pc = "peak"
    /\ IF nav > peak
       THEN peak' = nav /\ store' = "peak" /\ pc' = "mirror"
       ELSE pc' = "day" /\ UNCHANGED <<peak, store>>
    /\ UNCHANGED <<day, up, basis, disk, held, nav, out, faults, history>>

\* daily_pnl, before the state is returned.
Measured(pnl) == [kind |-> "none", equity |-> nav, peak |-> 0, day |-> day, pnl |-> pnl]

\* The calendar decides: a new day stamps the NAV as its basis, an untrusted
\* basis on another day refuses the call, the same day measures the P&L.
CheckDay ==
    /\ up /\ pc = "day"
    /\ IF basis.day # day
       THEN IF ~basis.trusted /\ basis.day # 0
            THEN /\ out' = [NoCall EXCEPT !.kind = "refused"]
                 /\ pc' = "idle"
                 /\ UNCHANGED <<basis, store>>
            ELSE /\ basis' = [val |-> nav, day |-> day, trusted |-> TRUE]
                 /\ out' = Measured(0)
                 /\ store' = "basis" /\ pc' = "mirror"
       ELSE /\ out' = Measured(nav - basis.val)
            /\ pc' = "return"
            /\ UNCHANGED <<basis, store>>
    /\ UNCHANGED <<day, up, peak, disk, held, nav, faults, history>>

\* PortfolioState refuses a peak below the equity; the caller sees an error.
Return ==
    /\ up /\ pc = "return"
    /\ out' = [out EXCEPT !.kind = IF peak >= nav THEN "ok" ELSE "invalid", !.peak = peak]
    /\ pc' = "idle"
    /\ UNCHANGED <<day, up, peak, basis, disk, store, held, nav, faults, history>>

-----------------------------------------------------------------------------
(* Saving, the same for both stores: copy the primary to .bak (truncate,     *)
(* then write), write .tmp, rename .tmp onto the primary.                    *)

AfterSave == IF store = "peak" THEN "day" ELSE "return"

Payload == IF store = "peak" THEN Good(peak, 0, TRUE)
           ELSE Good(basis.val, basis.day, TRUE)

MirrorOpen ==
    /\ up /\ pc = "mirror"
    /\ held' = disk[store].main
    /\ IF disk[store].main.kind = "absent"
       THEN pc' = "write" /\ UNCHANGED disk
       ELSE pc' = "fill" /\ disk' = [disk EXCEPT ![store].bak = Torn]
    /\ UNCHANGED <<day, up, peak, basis, store, nav, out, faults, history>>

MirrorFill ==
    /\ up /\ pc = "fill"
    /\ disk' = [disk EXCEPT ![store].bak = held]
    /\ pc' = "write"
    /\ UNCHANGED <<day, up, peak, basis, store, held, nav, out, faults, history>>

\* The mirror is best effort: the save goes on with whatever .bak now holds.
MirrorFails ==
    /\ up /\ failures < MaxFailures
    /\ \/ pc = "mirror" /\ disk[store].main.kind # "absent"
       \/ pc = "fill"
    /\ failures' = failures + 1
    /\ cutShort' = TRUE
    /\ pc' = "write"
    /\ UNCHANGED <<day, up, peak, basis, disk, store, held, nav, out,
                   crashes, corruptions, durable, prevDurable, dayOpen>>

\* Mutant: the primary itself is truncated before the new value is written.
WriteTmp_InPlace ==
    /\ up /\ pc = "write"
    /\ disk' = [disk EXCEPT ![store].tmp = Payload, ![store].main = Torn]
    /\ pc' = "publish"
    /\ UNCHANGED <<day, up, peak, basis, store, held, nav, out, faults, history>>

WriteTmp ==
    /\ up /\ pc = "write"
    /\ disk' = [disk EXCEPT ![store].tmp = Payload]
    /\ pc' = "publish"
    /\ UNCHANGED <<day, up, peak, basis, store, held, nav, out, faults, history>>

\* OSError in the write or the rename: the .tmp is removed, the call goes on and
\* nothing is tried again.
SaveFails ==
    /\ up /\ pc \in {"write", "publish"} /\ failures < MaxFailures
    /\ failures' = failures + 1
    /\ cutShort' = TRUE
    /\ disk' = [disk EXCEPT ![store].tmp = NoFile]
    /\ pc' = AfterSave
    /\ UNCHANGED <<day, up, peak, basis, store, held, nav, out,
                   crashes, corruptions, durable, prevDurable, dayOpen>>

RecordPublished(c) ==
    /\ IF store = "peak" /\ c.val > durable
       THEN durable' = c.val /\ prevDurable' = durable
       ELSE UNCHANGED <<durable, prevDurable>>
    /\ dayOpen' = IF store = "basis" /\ c.day = day /\ dayOpen = 0 THEN c.val ELSE dayOpen

\* os.replace: the primary goes from the old content to the new one at once.
Publish ==
    /\ up /\ pc = "publish"
    /\ disk' = [disk EXCEPT ![store].main = disk[store].tmp, ![store].tmp = NoFile]
    /\ RecordPublished(disk[store].tmp)
    /\ pc' = AfterSave
    /\ UNCHANGED <<day, up, peak, basis, store, held, nav, out, faults,
                   cutShort>>

-----------------------------------------------------------------------------
(* The environment.                                                          *)

NextDay ==
    /\ day < MaxDay
    /\ day' = day + 1
    /\ dayOpen' = 0
    /\ UNCHANGED <<up, peak, basis, disk, pc, store, held, nav, out, faults,
                   durable, prevDurable, cutShort>>

Crash ==
    /\ up /\ crashes < MaxCrashes
    /\ crashes' = crashes + 1
    /\ cutShort' = (cutShort \/ pc \in {"mirror", "fill", "write", "publish"})
    /\ up' = FALSE /\ pc' = "idle"
    /\ peak' = 0 /\ basis' = ColdBasis /\ held' = NoFile /\ nav' = 0 /\ out' = NoCall
    /\ store' = "peak"
    /\ UNCHANGED <<day, disk, failures, corruptions, durable, prevDurable, dayOpen>>

Corrupt(s) ==
    /\ corruptions < MaxCorruptions
    /\ disk[s].main.kind = "good"
    /\ disk' = [disk EXCEPT ![s].main = Torn]
    /\ corruptions' = corruptions + 1
    /\ UNCHANGED <<day, up, peak, basis, pc, store, held, nav, out, crashes, failures, history>>

-----------------------------------------------------------------------------
Init ==
    /\ day = 1 /\ up = FALSE
    /\ peak = 0 /\ basis = ColdBasis
    /\ \E b \in {NoFile, LegacyBasis} :
          disk = [s \in Stores |-> IF s = "peak" THEN EmptySlots
                                    ELSE [EmptySlots EXCEPT !.main = b]]
    /\ pc = "idle" /\ store = "peak" /\ held = NoFile /\ nav = 0 /\ out = NoCall
    /\ crashes = 0 /\ failures = 0 /\ corruptions = 0
    /\ durable = 0 /\ prevDurable = 0 /\ dayOpen = 0
    /\ cutShort = FALSE

Save == MirrorOpen \/ MirrorFill \/ MirrorFails \/ WriteTmp \/ SaveFails \/ Publish

Fetch == (\E n \in 0..MaxNav : Snapshot(n)) \/ RaisePeak \/ CheckDay \/ Save \/ Return

Next == Boot \/ Fetch \/ NextDay \/ Crash \/ (\E s \in Stores : Corrupt(s))

Spec == Init /\ [][Next]_vars

-----------------------------------------------------------------------------
Pcs == {"idle", "peak", "mirror", "fill", "write", "publish", "day", "return"}

\* Every variable holds a value of its kind.
TypeOK ==
    /\ day \in Nat /\ up \in BOOLEAN /\ peak \in Nat
    /\ basis \in [val : Nat, day : Nat, trusted : BOOLEAN]
    /\ disk \in [Stores -> Slots]
    /\ pc \in Pcs /\ store \in Stores /\ held \in Content /\ nav \in Nat
    /\ out \in [kind : {"none", "ok", "refused", "invalid"}, equity : Nat, peak : Nat,
                day : Nat, pnl : Int]
    /\ crashes \in Nat /\ failures \in Nat /\ corruptions \in Nat
    /\ durable \in Nat /\ prevDurable \in Nat /\ dayOpen \in Nat
    /\ cutShort \in BOOLEAN

\* Crashes at any point of _save_peak_equity and failed writes never take the
\* mark below a value that was once renamed into place (the RISK_DD guard).
DurablePeakKept == up /\ corruptions = 0 => peak >= durable

\* What makes it inductive: as long as nothing is damaged the primary holds the
\* highest published peak, and what is about to be published is the memory's.
PeakInv ==
    corruptions = 0 =>
        /\ disk["peak"].main.kind # "torn"
        /\ disk["peak"].main.kind = "good" => disk["peak"].main.val = durable
        /\ disk["peak"].main.kind = "absent" => durable = 0 /\ disk["peak"].bak.kind # "good"
        /\ up => peak >= durable
        /\ pc = "fill" /\ store = "peak" => disk["peak"].main.kind = "good"
        /\ pc = "publish" /\ store = "peak" => disk["peak"].tmp = Good(peak, 0, TRUE)
        /\ ~up => pc = "idle"

\* The .bak mirror of _save_peak_equity: one damaged primary costs at most the
\* last increment of the peak, as long as no save was cut short or failed.
OneCorruptionCostsOneStep ==
    up /\ corruptions <= 1 /\ ~cutShort => peak >= prevDurable

\* Once a basis for today is on disk, every later call of the day measures its
\* loss from it, across restarts: RISK_DAILY_LOSS is not disarmed by a crash.
LossFromDayOpen ==
    out.kind = "ok" /\ out.day = day /\ dayOpen # 0 /\ corruptions = 0
        => out.pnl = out.equity - dayOpen

\* An untrusted basis of another day is refused: no call succeeds on it and no
\* rollover overwrites it until an operator replaces the file.
UntrustedBasisBlocks ==
    [][ IsLegacy(disk.basis.main) /\ corruptions' = 0
          => disk'.basis.main = disk.basis.main
             /\ (out'.kind = "ok" => out'.day = disk.basis.main.day) ]_vars

\* The store behind RISK_DD implements the abstract high-water mark.
HWM == INSTANCE HighWaterMark WITH
          mark <- peak, stored <- PeakOnDisk(disk.peak),
          running <- up, damaged <- corruptions > 0

ImplementsHighWaterMark == HWM!HwSpec
=============================================================================
