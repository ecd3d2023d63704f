---------------------------- MODULE WebTabsProofs ----------------------------
(***************************************************************************)
(* What holds of the pages of MCWebTabs for any numbers of tabs, texts,    *)
(* files, steps, notes, requests and versions, whatever requests, replies  *)
(* and fetches fail.                                                       *)
(*                                                                         *)
(* Each page has an inductive invariant of its own.  Nearly all of them    *)
(* say the same in their way: what a tab has of a row, in its cache, in a  *)
(* fetch or in a call, is the row itself as long as the versions are       *)
(* equal.  The last section puts the pages together.                       *)
(***************************************************************************)
EXTENDS MCWebTabs, DraftEditorProofs, Sequences, WellFoundedInduction

USE ContentsAssumption, BoundAssumption

-----------------------------------------------------------------------------
(* Personal settings: the invariant.                                        *)

\* As long as the version is that of the row, s is what the row says.
SettingsReal(r, s) == s.version <= r.version /\ (s.version = r.version => s.value = r.value)

\* One tab, with its cache, fetch, form and call: what it has was read from the row
\* or is not there, and a form that waits says what it sent.
SettingsTab(r, c, f, fo, k) ==
    /\ SettingsReal(r, c) /\ SettingsReal(r, f)
    /\ SettingsReal(r, fo.base) /\ SettingsReal(r, k.got)
    /\ c # Settings!None => c.version > 0
    /\ f # Settings!None => f.version > 0
    /\ fo.open => fo.base.version > 0
    /\ k.stage = "done" => k.got.version > 0
    /\ k.here /\ k.stage = "sent" => k.value = fo.value
    /\ k.here /\ k.stage = "done" => k.got.value = fo.value

SettingsInv ==
    /\ sRow \in Settings!Snapshot /\ sRow.version > 0
    /\ sCache \in [Editors -> Settings!Snapshot] /\ sFetch \in [Editors -> Settings!Snapshot]
    /\ sForm \in [Editors -> Settings!Form] /\ sCall \in [Editors -> Settings!Call]
    /\ \A t \in Editors : SettingsTab(sRow, sCache[t], sFetch[t], sForm[t], sCall[t])

LEMMA SettingsBlank ==
    /\ Settings!None \in Settings!Snapshot /\ Settings!None.version = 0
    /\ Settings!Closed \in Settings!Form /\ ~Settings!Closed.open
    /\ Settings!Closed.base = Settings!None
    /\ Settings!Idle \in Settings!Call /\ Settings!Idle.stage = "none"
    /\ Settings!Idle.got = Settings!None /\ Settings!Idle.here = FALSE
BY DEF Settings!None, Settings!Closed, Settings!Idle, Settings!Snapshot, Settings!Form,
    Settings!Call

LEMMA SettingsInit == Settings!Init => SettingsInv
BY SettingsBlank
DEF Settings!Init, SettingsInv, SettingsTab, SettingsReal, Settings!Snapshot

\* The row stays, or moves to the next version.
SettingsMoves == sRow' = sRow \/ (sRow' \in Settings!Snapshot /\ sRow'.version = sRow.version + 1)

\* A step of one tab that leaves it sound keeps the invariant.
LEMMA SettingsStep ==
    ASSUME SettingsInv, NEW t \in Editors, SettingsMoves,
           NEW c \in Settings!Snapshot, sCache' = [sCache EXCEPT ![t] = c],
           NEW f \in Settings!Snapshot, sFetch' = [sFetch EXCEPT ![t] = f],
           NEW fo \in Settings!Form, sForm' = [sForm EXCEPT ![t] = fo],
           NEW k \in Settings!Call, sCall' = [sCall EXCEPT ![t] = k],
           SettingsTab(sRow', c, f, fo, k)
    PROVE  SettingsInv'
<1>1. sRow' \in Settings!Snapshot /\ sRow'.version > 0
  BY DEF SettingsInv, SettingsMoves, Settings!Snapshot
<1>2. ASSUME NEW s \in Settings!Snapshot, SettingsReal(sRow, s)
      PROVE  SettingsReal(sRow', s)
  BY <1>2 DEF SettingsReal, SettingsMoves, SettingsInv, Settings!Snapshot
<1>3. ASSUME NEW u \in Editors, u # t
      PROVE  SettingsTab(sRow', sCache'[u], sFetch'[u], sForm'[u], sCall'[u])
  <2>1. /\ sCache'[u] = sCache[u] /\ sFetch'[u] = sFetch[u]
        /\ sForm'[u] = sForm[u] /\ sCall'[u] = sCall[u]
    BY <1>3 DEF SettingsInv
  <2>2. /\ sCache[u] \in Settings!Snapshot /\ sFetch[u] \in Settings!Snapshot
        /\ sForm[u].base \in Settings!Snapshot /\ sCall[u].got \in Settings!Snapshot
    BY DEF SettingsInv, Settings!Form, Settings!Call
  <2>3. SettingsTab(sRow, sCache[u], sFetch[u], sForm[u], sCall[u])
    BY DEF SettingsInv
  <2>4. QED
    BY <1>2, <2>1, <2>2, <2>3 DEF SettingsTab
<1>4. ASSUME NEW u \in Editors
      PROVE  SettingsTab(sRow', sCache'[u], sFetch'[u], sForm'[u], sCall'[u])
  BY <1>3 DEF SettingsInv
<1>5. /\ sCache' \in [Editors -> Settings!Snapshot] /\ sFetch' \in [Editors -> Settings!Snapshot]
      /\ sForm' \in [Editors -> Settings!Form] /\ sCall' \in [Editors -> Settings!Call]
  BY DEF SettingsInv
<1>6. QED
  BY <1>1, <1>4, <1>5 DEF SettingsInv

\* The tab t, with its fields; what is not written is written with itself.
LEMMA SettingsHere ==
    ASSUME SettingsInv, NEW t \in Editors
    PROVE  /\ sRow \in Settings!Snapshot /\ sRow.version \in Nat /\ sRow.version > 0
           /\ sRow.value \in Contents
           /\ sCache[t] \in Settings!Snapshot /\ sFetch[t] \in Settings!Snapshot
           /\ sForm[t] \in Settings!Form /\ sCall[t] \in Settings!Call
           /\ SettingsTab(sRow, sCache[t], sFetch[t], sForm[t], sCall[t])
           /\ sCache = [sCache EXCEPT ![t] = sCache[t]] /\ sFetch = [sFetch EXCEPT ![t] = sFetch[t]]
           /\ sForm = [sForm EXCEPT ![t] = sForm[t]] /\ sCall = [sCall EXCEPT ![t] = sCall[t]]
BY DEF SettingsInv, Settings!Snapshot

-----------------------------------------------------------------------------
(* Personal settings: the steps.                                            *)

LEMMA SettingsOpen == ASSUME SettingsInv, NEW t \in Editors, Settings!Open(t) PROVE SettingsInv'
<1> DEFINE fo == [Settings!Closed EXCEPT !.open = TRUE, !.base = sCache[t],
                                         !.value = sCache[t].value]
<1>1. fo \in Settings!Form /\ fo.base = sCache[t]
  BY SettingsHere, SettingsBlank DEF Settings!Form, Settings!Snapshot
<1>2. sForm' = [sForm EXCEPT ![t] = fo]
  BY DEF Settings!Open
<1> HIDE DEF fo
<1>3. SettingsTab(sRow, sCache[t], sFetch[t], fo, sCall[t])
  BY <1>1, SettingsHere DEF Settings!Open, Settings!Busy, SettingsTab
<1>4. QED
  BY <1>1, <1>2, <1>3, SettingsHere, SettingsStep DEF Settings!Open, SettingsMoves

LEMMA SettingsLeave == ASSUME SettingsInv, NEW t \in Editors, Settings!Leave(t) PROVE SettingsInv'
<1> DEFINE k == [sCall[t] EXCEPT !.here = FALSE]
<1>1. k \in Settings!Call /\ k.stage = sCall[t].stage /\ k.got = sCall[t].got /\ k.here = FALSE
  BY SettingsHere DEF Settings!Call
<1>2. sCall' = [sCall EXCEPT ![t] = k]
  BY DEF Settings!Leave
<1> HIDE DEF k
<1>3. SettingsTab(sRow, sCache[t], sFetch[t], Settings!Closed, k)
  BY <1>1, SettingsHere, SettingsBlank DEF SettingsTab, SettingsReal
<1>4. QED
  BY <1>1, <1>2, <1>3, SettingsHere, SettingsBlank, SettingsStep DEF Settings!Leave, SettingsMoves

LEMMA SettingsChange ==
    ASSUME SettingsInv, NEW t \in Editors, NEW value \in Contents, Settings!Change(t, value)
    PROVE  SettingsInv'
<1> DEFINE fo == [sForm[t] EXCEPT !.value = value]
<1>1. fo \in Settings!Form /\ fo.base = sForm[t].base /\ fo.open = sForm[t].open
  BY SettingsHere DEF Settings!Form
<1>2. sForm' = [sForm EXCEPT ![t] = fo]
  BY DEF Settings!Change
<1> HIDE DEF fo
<1>3. SettingsTab(sRow, sCache[t], sFetch[t], fo, sCall[t])
  BY <1>1, SettingsHere DEF SettingsTab, Settings!Change, Settings!Busy
<1>4. QED
  BY <1>1, <1>2, <1>3, SettingsHere, SettingsStep DEF Settings!Change, SettingsMoves

LEMMA SettingsSubmit == ASSUME SettingsInv, NEW t \in Editors, Settings!Submit(t) PROVE SettingsInv'
<1> DEFINE fo == [sForm[t] EXCEPT !.conflict = FALSE]
           k == [Settings!Idle EXCEPT !.stage = "sent", !.base = sForm[t].base,
                                      !.value = sForm[t].value, !.here = TRUE]
<1>1. /\ fo \in Settings!Form /\ fo.base = sForm[t].base /\ fo.open = sForm[t].open
      /\ fo.value = sForm[t].value
  BY SettingsHere DEF Settings!Form
<1>2. /\ k \in Settings!Call /\ k.stage = "sent" /\ k.got = Settings!None
      /\ k.value = sForm[t].value
  BY SettingsHere, SettingsBlank DEF Settings!Call, Settings!Form, Settings!Idle
<1>3. sForm' = [sForm EXCEPT ![t] = fo] /\ sCall' = [sCall EXCEPT ![t] = k]
  BY DEF Settings!Submit
<1> HIDE DEF fo, k
<1>4. SettingsTab(sRow, sCache[t], sFetch[t], fo, k)
  BY <1>1, <1>2, SettingsHere, SettingsBlank DEF SettingsTab, SettingsReal
<1>5. QED
  BY <1>1, <1>2, <1>3, <1>4, SettingsHere, SettingsStep DEF Settings!Submit, SettingsMoves

LEMMA SettingsReload == ASSUME SettingsInv, NEW t \in Editors, Settings!Reload(t) PROVE SettingsInv'
<1> DEFINE k == [Settings!Idle EXCEPT !.stage = "reload", !.here = TRUE]
<1>1. k \in Settings!Call /\ k.stage = "reload" /\ k.got = Settings!None
  BY SettingsBlank DEF Settings!Call, Settings!Idle
<1>2. sFetch' = [sFetch EXCEPT ![t] = Settings!None] /\ sCall' = [sCall EXCEPT ![t] = k]
  BY DEF Settings!Reload
<1> HIDE DEF k
<1>3. SettingsTab(sRow, sCache[t], Settings!None, sForm[t], k)
  BY <1>1, SettingsHere, SettingsBlank DEF SettingsTab, SettingsReal
<1>4. QED
  BY <1>1, <1>2, <1>3, SettingsHere, SettingsBlank, SettingsStep DEF Settings!Reload, SettingsMoves

\* An answer: of a save that was made the new row, which says what was sent.
LEMMA SettingsAnswer ==
    ASSUME SettingsInv, NEW t \in Editors, SettingsMoves,
           NEW stage \in {"done", "refused", "failed"}, NEW got \in Settings!Snapshot,
           IF stage = "done" THEN got = sRow' /\ got.value = sCall[t].value
                             ELSE got = Settings!None,
           sCall[t].stage = "sent" \/ stage # "done",
           Settings!Answer(t, stage, got), UNCHANGED <<sCache, sFetch, sForm>>
    PROVE  SettingsInv'
<1> DEFINE k == [Settings!Idle EXCEPT !.stage = stage, !.got = got, !.here = sCall[t].here]
<1>1. k \in Settings!Call /\ k.stage = stage /\ k.got = got /\ k.here = sCall[t].here
  BY SettingsHere, SettingsBlank DEF Settings!Call, Settings!Idle
<1>2. sCall' = [sCall EXCEPT ![t] = k]
  BY DEF Settings!Answer
<1> HIDE DEF k
<1>3. sRow' \in Settings!Snapshot /\ sRow'.version \in Nat /\ sRow'.version > 0
  BY SettingsHere DEF SettingsMoves, Settings!Snapshot
<1>4. /\ sCache[t].version \in Nat /\ sFetch[t].version \in Nat
      /\ sForm[t].base.version \in Nat /\ sRow.version \in Nat
  BY SettingsHere DEF Settings!Snapshot, Settings!Form
<1>5. SettingsTab(sRow', sCache[t], sFetch[t], sForm[t], k)
  <2>1. ASSUME NEW s, s.version \in Nat, SettingsReal(sRow, s)
        PROVE  SettingsReal(sRow', s)
    BY <1>4, <2>1 DEF SettingsReal, SettingsMoves
  <2>2. SettingsReal(sRow', got) /\ (stage = "done" => got.version > 0)
    BY <1>3, SettingsBlank DEF SettingsReal
  <2>3. QED
    BY <1>1, <1>4, <2>1, <2>2, SettingsHere DEF SettingsTab
<1>6. QED
  BY <1>1, <1>2, <1>5, SettingsHere, SettingsStep

LEMMA SettingsHandleSave ==
    ASSUME SettingsInv, NEW t \in Editors, Settings!HandleSave(t)
    PROVE  SettingsInv'
<1> DEFINE saved == [version |-> sRow.version + 1, value |-> sCall[t].value]
<1>1. saved \in Settings!Snapshot /\ saved.version = sRow.version + 1 /\ saved.value = sCall[t].value
  BY SettingsHere DEF Settings!Call, Settings!Snapshot
<1>2. CASE Settings!CurrentVersion(t)
  <2>1. sRow' = saved /\ Settings!Answer(t, "done", saved)
    BY <1>2 DEF Settings!HandleSave
  <2> HIDE DEF saved
  <2>2. QED
    BY <1>1, <2>1, SettingsAnswer DEF Settings!HandleSave, SettingsMoves
<1>3. CASE ~Settings!CurrentVersion(t)
  <2>1. UNCHANGED sRow /\ Settings!Answer(t, "refused", Settings!None)
    BY <1>3 DEF Settings!HandleSave
  <2>2. QED
    BY <2>1, SettingsBlank, SettingsAnswer DEF Settings!HandleSave, SettingsMoves
<1>4. QED
  BY <1>2, <1>3

LEMMA SettingsLose == ASSUME SettingsInv, NEW t \in Editors, Settings!LoseCall(t) PROVE SettingsInv'
BY SettingsBlank, SettingsAnswer DEF Settings!LoseCall, SettingsMoves

LEMMA SettingsSaved == ASSUME SettingsInv, NEW t \in Editors, Settings!Saved(t) PROVE SettingsInv'
<1> DEFINE got == sCall[t].got
           fo == IF sCall[t].here
                 THEN [sForm[t] EXCEPT !.base = got, !.value = got.value] ELSE sForm[t]
<1>1. got \in Settings!Snapshot /\ got.value \in Contents
  BY SettingsHere DEF Settings!Call, Settings!Snapshot
<1>2. fo \in Settings!Form /\ (fo.base = got \/ fo.base = sForm[t].base) /\ fo.open = sForm[t].open
  BY <1>1, SettingsHere DEF Settings!Form
<1>3. /\ sForm' = [sForm EXCEPT ![t] = fo] /\ sCache' = [sCache EXCEPT ![t] = got]
      /\ sCall' = [sCall EXCEPT ![t] = Settings!Idle] /\ UNCHANGED <<sRow, sFetch>>
      /\ sCall[t].stage = "done"
  BY SettingsHere DEF Settings!Saved
<1> HIDE DEF fo
<1>4. SettingsTab(sRow, got, sFetch[t], fo, Settings!Idle)
  BY <1>2, <1>3, SettingsHere, SettingsBlank DEF SettingsTab, SettingsReal
<1> HIDE DEF got
<1>5. QED
  BY <1>1, <1>2, <1>3, <1>4, SettingsHere, SettingsBlank, SettingsStep DEF SettingsMoves

LEMMA SettingsFailed == ASSUME SettingsInv, NEW t \in Editors, Settings!Failed(t) PROVE SettingsInv'
<1> DEFINE fo == [sForm[t] EXCEPT !.conflict = sCall[t].here /\ sCall[t].stage = "refused"]
<1>1. fo \in Settings!Form /\ fo.base = sForm[t].base /\ fo.open = sForm[t].open
  BY SettingsHere DEF Settings!Form, Settings!Call
<1>2. sForm' = [sForm EXCEPT ![t] = fo] /\ sCall' = [sCall EXCEPT ![t] = Settings!Idle]
  BY DEF Settings!Failed
<1> HIDE DEF fo
<1>3. SettingsTab(sRow, sCache[t], sFetch[t], fo, Settings!Idle)
  BY <1>1, SettingsHere, SettingsBlank DEF SettingsTab, SettingsReal
<1>4. QED
  BY <1>1, <1>2, <1>3, SettingsHere, SettingsBlank, SettingsStep
  DEF Settings!Failed, SettingsMoves

LEMMA SettingsFetch == ASSUME SettingsInv, NEW t \in Editors, Settings!Fetch(t) PROVE SettingsInv'
<1>1. sFetch' = [sFetch EXCEPT ![t] = sRow]
  BY DEF Settings!Fetch
<1>2. SettingsTab(sRow, sCache[t], sRow, sForm[t], sCall[t])
  BY SettingsHere DEF SettingsTab, SettingsReal
<1>3. QED
  BY <1>1, <1>2, SettingsHere, SettingsStep DEF Settings!Fetch, SettingsMoves

LEMMA SettingsArrive == ASSUME SettingsInv, NEW t \in Editors, Settings!Arrive(t) PROVE SettingsInv'
<1> DEFINE filled == [open |-> TRUE, base |-> sFetch[t], value |-> sFetch[t].value,
                      conflict |-> FALSE]
           fo == IF Settings!Refilled(t) THEN filled ELSE sForm[t]
           k == IF Settings!Reloading(t) THEN Settings!Idle ELSE sCall[t]
<1>1. filled \in Settings!Form /\ filled.base = sFetch[t]
  BY SettingsHere DEF Settings!Form, Settings!Snapshot
<1>2. /\ sCache' = [sCache EXCEPT ![t] = sFetch[t]] /\ sFetch' = [sFetch EXCEPT ![t] = Settings!None]
      /\ sForm' = [sForm EXCEPT ![t] = fo] /\ sCall' = [sCall EXCEPT ![t] = k] /\ sRow' = sRow
      /\ sFetch[t] # Settings!None
  BY SettingsHere DEF Settings!Arrive
<1> HIDE DEF filled
<1>3. /\ fo \in Settings!Form /\ k \in Settings!Call
      /\ fo = sForm[t] \/ (fo = filled /\ k = Settings!Idle)
      /\ k = sCall[t] \/ k = Settings!Idle
  BY <1>1, SettingsHere, SettingsBlank DEF Settings!Refilled
<1> HIDE DEF fo, k
<1>4. SettingsTab(sRow, sFetch[t], Settings!None, fo, k)
  BY <1>1, <1>2, <1>3, SettingsHere, SettingsBlank DEF SettingsTab, SettingsReal
<1>5. QED
  BY <1>2, <1>3, <1>4, SettingsHere, SettingsBlank, SettingsStep DEF SettingsMoves

LEMMA SettingsFetchFails ==
    ASSUME SettingsInv, NEW t \in Editors, Settings!FetchFails(t)
    PROVE  SettingsInv'
<1> DEFINE k == IF Settings!Reloading(t) THEN Settings!Idle ELSE sCall[t]
<1>1. k \in Settings!Call /\ (k = Settings!Idle \/ k = sCall[t])
  BY SettingsHere, SettingsBlank
<1>2. sFetch' = [sFetch EXCEPT ![t] = Settings!None] /\ sCall' = [sCall EXCEPT ![t] = k]
  BY SettingsHere DEF Settings!FetchFails
<1> HIDE DEF k
<1>3. SettingsTab(sRow, sCache[t], Settings!None, sForm[t], k)
  BY <1>1, SettingsHere, SettingsBlank DEF SettingsTab, SettingsReal
<1>4. QED
  BY <1>1, <1>2, <1>3, SettingsHere, SettingsBlank, SettingsStep
  DEF Settings!FetchFails, SettingsMoves

LEMMA SettingsNext == SettingsInv /\ [Settings!Next]_settingsVars => SettingsInv'
<1> SUFFICES ASSUME SettingsInv, [Settings!Next]_settingsVars
             PROVE  SettingsInv'
  OBVIOUS
<1>1. CASE UNCHANGED settingsVars
  BY <1>1 DEF settingsVars, SettingsInv
<1>2. ASSUME NEW t \in Editors,
             \/ Settings!Open(t) \/ Settings!Leave(t) \/ Settings!Submit(t) \/ Settings!Reload(t)
             \/ \E value \in Contents : Settings!Change(t, value)
             \/ Settings!HandleSave(t) \/ Settings!LoseCall(t) \/ Settings!Saved(t)
             \/ Settings!Failed(t) \/ Settings!Fetch(t) \/ Settings!Arrive(t)
             \/ Settings!FetchFails(t)
      PROVE  SettingsInv'
  BY <1>2, SettingsOpen, SettingsLeave, SettingsSubmit, SettingsReload, SettingsChange,
     SettingsHandleSave, SettingsLose, SettingsSaved, SettingsFailed, SettingsFetch,
     SettingsArrive, SettingsFetchFails
<1>3. QED
  BY <1>1, <1>2 DEF Settings!Next

-----------------------------------------------------------------------------
(* Personal settings: what follows.                                         *)

LEMMA SettingsTypes == SettingsInv => Settings!TypeOK
<1> SUFFICES ASSUME SettingsInv
             PROVE  Settings!TypeOK
  OBVIOUS
<1>1. ASSUME NEW t \in Editors, sForm[t].open
      PROVE  /\ sForm[t].base.version \in 1..sRow.version
             /\ sForm[t].base.version = sRow.version => sForm[t].base.value = sRow.value
  <2>1. sForm[t].base.version \in Nat
    BY SettingsHere DEF Settings!Form, Settings!Snapshot
  <2>2. QED
    BY <1>1, <2>1, SettingsHere DEF SettingsTab, SettingsReal
<1>2. QED
  BY <1>1 DEF SettingsInv, Settings!TypeOK

\* What was entered changes by a click of its user, by the save of it, which it
\* already says, or by a reload.
LEMMA SettingsTyping == SettingsInv /\ [Settings!Next]_settingsVars => Settings!KeepsTyping
<1> SUFFICES ASSUME SettingsInv, [Settings!Next]_settingsVars, NEW t \in Editors,
                    sForm[t].open, sForm'[t].open, sForm'[t].value # sForm[t].value
             PROVE  \/ UNCHANGED <<sCache, sCall>> /\ ~Settings!Busy(t)
                    \/ Settings!Reloading(t) /\ sForm'[t].base = sFetch[t]
  BY DEF Settings!KeepsTyping
<1>1. sForm'[t] # sForm[t] /\ sForm' # sForm
  OBVIOUS
<1>2. PICK u \in Editors :
          \/ Settings!Open(u) \/ Settings!Leave(u) \/ Settings!Submit(u)
          \/ \E value \in Contents : Settings!Change(u, value)
          \/ Settings!Saved(u) \/ Settings!Failed(u) \/ Settings!Arrive(u)
  BY <1>1 DEF settingsVars, Settings!Next, Settings!Reload, Settings!HandleSave,
      Settings!LoseCall, Settings!Fetch, Settings!FetchFails
<1>3. u = t
  BY <1>1, <1>2 DEF SettingsInv, Settings!Open, Settings!Leave, Settings!Submit,
      Settings!Change, Settings!Saved, Settings!Failed, Settings!Arrive
<1>4. sForm \in [Editors -> Settings!Form] /\ sForm[t] \in Settings!Form
  BY DEF SettingsInv
<1>5. ~Settings!Open(t)
  BY DEF Settings!Open
<1>6. ~Settings!Leave(t)
  BY <1>4 DEF Settings!Leave, Settings!Closed
<1>7. ~Settings!Submit(t)
  BY <1>4 DEF Settings!Submit, Settings!Form
<1>8. ~Settings!Failed(t)
  BY <1>4 DEF Settings!Failed, Settings!Form
<1>9. ~Settings!Saved(t)
  <2> SUFFICES ASSUME Settings!Saved(t)
               PROVE  sForm'[t].value = sForm[t].value
    OBVIOUS
  <2>1. sCall[t].here => sCall[t].got.value = sForm[t].value
    BY SettingsHere DEF SettingsTab, Settings!Saved
  <2>2. sForm'[t] = IF sCall[t].here
            THEN [sForm[t] EXCEPT !.base = sCall[t].got, !.value = sCall[t].got.value]
            ELSE sForm[t]
    BY <1>4 DEF Settings!Saved
  <2>3. QED
    BY <1>4, <2>1, <2>2 DEF Settings!Form
<1>10. CASE \E value \in Contents : Settings!Change(t, value)
  BY <1>10 DEF Settings!Change
<1>11. CASE Settings!Arrive(t)
  <2>1. sForm'[t] = IF Settings!Refilled(t)
            THEN [open |-> TRUE, base |-> sFetch[t], value |-> sFetch[t].value,
                  conflict |-> FALSE]
            ELSE sForm[t]
    BY <1>4, <1>11 DEF Settings!Arrive
  <2>2. Settings!Refilled(t)
    BY <1>1, <2>1
  <2>3. QED
    BY <2>1, <2>2 DEF Settings!Refilled
<1>12. QED
  BY <1>2, <1>3, <1>5, <1>6, <1>7, <1>8, <1>9, <1>10, <1>11

\* What a tab has before the eyes is of the contract's kind.
LEMMA SettingsBasis ==
    ASSUME NEW calls \in [Editors -> Settings!Call]
    PROVE  [t \in Editors |->
              IF calls[t].stage = "sent"
              THEN [of |-> "row", version |-> calls[t].base.version, content |-> calls[t].value]
              ELSE [of |-> "row", version |-> 0, content |-> First]]
                \in [Editors -> Settings!Contract!Basis]
<1>1. ASSUME NEW t \in Editors
      PROVE  calls[t].base.version \in Nat /\ calls[t].value \in Contents
  BY DEF Settings!Call, Settings!Snapshot
<1>2. QED
  BY <1>1 DEF Settings!Contract!Basis

LEMMA SettingsContract ==
    SettingsInv /\ SettingsInv' /\ [Settings!Next]_settingsVars
        => [Settings!Contract!Next]_(Settings!Contract!vars)
<1> SUFFICES ASSUME SettingsInv, SettingsInv', [Settings!Next]_settingsVars
             PROVE  Settings!Contract!Next
  OBVIOUS
<1>1. Settings!Basis' \in [Editors -> Settings!Contract!Basis]
  <2>1. sCall' \in [Editors -> Settings!Call]
    BY DEF SettingsInv
  <2>2. QED
    BY <2>1, SettingsBasis DEF Settings!Basis
<1>2. CASE sRow' = sRow
  BY <1>1, <1>2 DEF Settings!Contract!Next
<1>3. CASE sRow' # sRow
  <2>1. PICK t \in Editors : Settings!HandleSave(t)
    BY <1>3 DEF settingsVars, Settings!Next, Settings!Open, Settings!Leave, Settings!Submit,
        Settings!Reload, Settings!Change, Settings!LoseCall, Settings!Saved, Settings!Failed,
        Settings!Fetch, Settings!Arrive, Settings!FetchFails
  <2>2. /\ sCall[t].stage = "sent" /\ sCall[t].base.version = sRow.version
        /\ sRow' = [version |-> sRow.version + 1, value |-> sCall[t].value]
    BY <1>3, <2>1 DEF Settings!HandleSave, Settings!CurrentVersion
  <2>3. Settings!Basis[t] = [of |-> "row", version |-> sRow.version, content |-> sCall[t].value]
    BY <2>2 DEF Settings!Basis
  <2>4. Settings!Contract!Edit(t)
    <3> DEFINE new == sCall[t].value
               doc(version, content) == [d \in {"row"} |->
                   [version |-> version, content |-> content, state |-> "draft"]]
    <3>1. doc(sRow.version + 1, new) =
          [doc(sRow.version, sRow.value) EXCEPT !["row"].content = new, !["row"].version = @ + 1]
      OBVIOUS
    <3>2. sRow'.version = sRow.version + 1 /\ sRow'.value = new
      BY <2>2
    <3>3. doc(sRow'.version, sRow'.value) = doc(sRow.version + 1, new)
      BY <3>2
    <3>4. QED
      BY <2>2, <2>3, <3>1, <3>3 DEF Settings!Contract!Edit
  <2>5. QED
    BY <1>1, <2>4 DEF Settings!Contract!Next
<1>4. QED
  BY <1>2, <1>3

-----------------------------------------------------------------------------
(* Least and greatest elements.                                             *)

LEMMA Least ==
    ASSUME NEW S \in SUBSET Nat, S # {}
    PROVE  \E x \in S : \A y \in S : x <= y
<1>1. \E R : IsWellFoundedOn(R, Nat) /\ \A x, y \in Nat : <<y, x>> \in R <=> y < x
  <2>1. \A x, y \in Nat : <<y, x>> \in OpToRel(<, Nat) <=> y < x
    BY DEF OpToRel
  <2>2. QED
    BY <2>1, NatLessThanWellFounded, Zenon
<1>2. PICK R : IsWellFoundedOn(R, Nat) /\ \A x, y \in Nat : <<y, x>> \in R <=> y < x
  BY <1>1
<1>3. PICK x \in S : \A y \in S : ~(<<y, x>> \in R)
  BY <1>2, WFMin
<1>4. \A y \in S : ~(y < x)
  BY <1>2, <1>3
<1>5. QED
  BY <1>4

-----------------------------------------------------------------------------
(* The page of a task: the invariant.                                       *)

\* As long as the version is that of the task m, s is the task.
WorkReal(m, s) == s.version <= m.version /\ (s.version = m.version => s = m)

\* What a call has of the task; a request names the version that was shown.
WorkCall(m, c) ==
    /\ WorkReal(m, c.seen) /\ WorkReal(m, c.got)
    /\ c.stage = "sent" => c.version = c.seen.version

WorkCalls(m, calls) ==
    /\ calls \in [Work!Mutations -> Work!Call]
    /\ \A k \in Work!Mutations : WorkCall(m, calls[k])

WorkInv ==
    /\ tTask \in Work!Task /\ tTask.version > 0
    /\ tData \in Work!Task /\ WorkReal(tTask, tData)
    /\ tFetch \in Work!Task /\ WorkReal(tTask, tFetch)
    /\ WorkCalls(tTask, tCall)
    /\ tReading \in BOOLEAN /\ tNote \in BOOLEAN
    /\ tEvidence \in [Work!Steps -> (SUBSET Files) \cup {Unset}]
    /\ tErrors \subseteq Work!Mutations

LEMMA WorkBlank ==
    /\ Work!NewTask \in Work!Task /\ Work!NewTask.version = 1
    /\ Work!None \in Work!Task /\ Work!None.version = 0
    /\ Work!Idle \in Work!Call /\ Work!Idle.stage = "none"
    /\ Work!Idle.seen = Work!None /\ Work!Idle.got = Work!None
<1>1. Work!NewTask \in Work!Task /\ Work!NewTask.version = 1
  BY DEF Work!NewTask, Work!Task, Work!Statuses
<1>2. Work!None \in Work!Task /\ Work!None.version = 0
  BY <1>1 DEF Work!None, Work!Task
<1>3. 0 \in 0..LastStep
  BY PagesAssumption
<1>4. QED
  BY <1>1, <1>2, <1>3 DEF Work!Idle, Work!Call

LEMMA WorkInit == Work!Init => WorkInv
<1> SUFFICES ASSUME Work!Init
             PROVE  WorkInv
  OBVIOUS
<1>1. WorkReal(Work!NewTask, Work!None) /\ WorkCall(Work!NewTask, Work!Idle)
  BY WorkBlank DEF WorkCall, WorkReal
<1>2. WorkCalls(tTask, tCall)
  BY <1>1, WorkBlank DEF Work!Init, WorkCalls
<1>3. tTask.version > 0 /\ tErrors \subseteq Work!Mutations
      /\ tEvidence \in [Work!Steps -> (SUBSET Files) \cup {Unset}]
  BY WorkBlank DEF Work!Init
<1>4. tReading \in BOOLEAN /\ tNote \in BOOLEAN
  BY DEF Work!Init
<1>5. tTask = Work!NewTask /\ tData = Work!None /\ tFetch = Work!None
  BY DEF Work!Init
<1>6. QED
  BY <1>1, <1>2, <1>3, <1>4, <1>5, WorkBlank DEF WorkInv

\* The task stays, or moves to its next version.
WorkMoves == tTask' = tTask \/ (tTask' \in Work!Task /\ tTask'.version = tTask.version + 1)

\* What was read stays what was read.
LEMMA WorkGrows ==
    ASSUME WorkInv, WorkMoves
    PROVE  /\ tTask' \in Work!Task /\ tTask'.version > 0
           /\ \A s \in Work!Task : WorkReal(tTask, s) => WorkReal(tTask', s)
           /\ \A s \in Work!Task : s = Work!None => WorkReal(tTask', s)
           /\ WorkReal(tTask', tTask')
           /\ WorkCalls(tTask, tCall) => WorkCalls(tTask', tCall)
<1>1. tTask \in Work!Task /\ tTask.version \in Nat /\ tTask.version > 0
  BY DEF WorkInv, Work!Task
<1>2. tTask' \in Work!Task /\ tTask'.version > 0 /\ tTask'.version \in Nat
  BY <1>1 DEF WorkMoves, Work!Task
<1>3. ASSUME NEW s \in Work!Task, WorkReal(tTask, s)
      PROVE  WorkReal(tTask', s)
  <2>1. s.version \in Nat
    BY DEF Work!Task
  <2>2. QED
    BY <1>1, <1>3, <2>1 DEF WorkReal, WorkMoves
<1>4. \A s \in Work!Task : s = Work!None => WorkReal(tTask', s)
  BY <1>2, WorkBlank DEF WorkReal
<1>5. WorkReal(tTask', tTask')
  BY <1>2 DEF WorkReal
<1>6. WorkCalls(tTask, tCall) => WorkCalls(tTask', tCall)
  BY <1>3 DEF WorkCalls, WorkCall, Work!Call
<1>7. QED
  BY <1>2, <1>3, <1>4, <1>5, <1>6

\* A step after which what is cached, fetched and called is sound keeps the
\* invariant.
LEMMA WorkStep ==
    ASSUME WorkInv, WorkMoves,
           tData' = tData \/ (tData' \in Work!Task /\ WorkReal(tTask', tData')),
           tFetch' \in {tFetch, tTask', Work!None},
           WorkCalls(tTask, tCall') \/ WorkCalls(tTask', tCall') \/ UNCHANGED tCall,
           tReading' \in BOOLEAN, tNote' \in BOOLEAN,
           tEvidence' \in [Work!Steps -> (SUBSET Files) \cup {Unset}],
           tErrors' \subseteq Work!Mutations
    PROVE  WorkInv'
<1>1. WorkCalls(tTask', tCall')
  <2>1. ASSUME WorkCalls(tTask, tCall')
        PROVE  WorkCalls(tTask', tCall')
    BY <2>1, WorkGrows DEF WorkCalls, WorkCall, Work!Call
  <2>2. QED
    BY <2>1, WorkGrows DEF WorkInv
<1>2. tData' \in Work!Task /\ WorkReal(tTask', tData')
  BY WorkGrows DEF WorkInv
<1>3. tFetch' \in Work!Task /\ WorkReal(tTask', tFetch')
  BY WorkGrows, WorkBlank DEF WorkInv
<1>4. QED
  BY <1>1, <1>2, <1>3, WorkGrows DEF WorkInv

\* A call that is replaced by a sound one.
LEMMA WorkCallStep ==
    ASSUME NEW m, NEW calls, WorkCalls(m, calls), NEW k \in Work!Mutations,
           NEW c \in Work!Call, WorkCall(m, c)
    PROVE  WorkCalls(m, [calls EXCEPT ![k] = c])
BY DEF WorkCalls

\* The record of a call: one that was answered, and one that was reset.
LEMMA WorkCallFields ==
    ASSUME NEW c \in Work!Call
    PROVE  /\ c.seen \in Work!Task /\ c.got \in Work!Task
           /\ c.step \in 0..LastStep /\ c.files \in SUBSET Files /\ c.note \in BOOLEAN
           /\ c.watched \in BOOLEAN
           /\ \A stage \in {"done", "failed"}, row \in Work!Task :
                 LET a == [Work!Idle EXCEPT !.stage = stage, !.got = row, !.watched = c.watched]
                 IN  /\ a \in Work!Call /\ a.stage = stage /\ a.got = row
                     /\ a.seen = Work!None
           /\ LET r == [c EXCEPT !.watched = FALSE]
              IN  /\ r \in Work!Call /\ r.stage = c.stage /\ r.version = c.version
                  /\ r.seen = c.seen /\ r.got = c.got
<1>1. c.seen \in Work!Task /\ c.got \in Work!Task /\ c.step \in 0..LastStep
      /\ c.files \in SUBSET Files /\ c.note \in BOOLEAN /\ c.watched \in BOOLEAN
  BY DEF Work!Call
<1>2. ASSUME NEW stage \in {"done", "failed"}, NEW row \in Work!Task
      PROVE  LET a == [Work!Idle EXCEPT !.stage = stage, !.got = row, !.watched = c.watched]
             IN  /\ a \in Work!Call /\ a.stage = stage /\ a.got = row
                 /\ a.seen = Work!None
  BY <1>1, WorkBlank DEF Work!Idle, Work!Call
<1>3. LET r == [c EXCEPT !.watched = FALSE]
      IN  /\ r \in Work!Call /\ r.stage = c.stage /\ r.version = c.version
          /\ r.seen = c.seen /\ r.got = c.got
  BY DEF Work!Call
<1>4. QED
  BY <1>1, <1>2, <1>3

-----------------------------------------------------------------------------
(* The page of a task: the steps.                                           *)

\* A click sends what was rendered.
LEMMA WorkSend ==
    ASSUME WorkInv, NEW k \in Work!Mutations, NEW request \in Work!Call,
           request.got = Work!None, Work!Send(k, request)
    PROVE  WorkInv'
<1> DEFINE c == [request EXCEPT !.stage = "sent", !.version = tData.version,
                                !.seen = tData, !.watched = TRUE]
<1>1. /\ c \in Work!Call /\ c.stage = "sent" /\ c.version = tData.version
      /\ c.seen = tData /\ c.got = Work!None
  BY DEF WorkInv, Work!Call, Work!Task
<1>2. tCall' = [tCall EXCEPT ![k] = c]
  BY DEF Work!Send
<1> HIDE DEF c
<1>3. tTask \in Work!Task /\ tTask.version \in Nat
  BY DEF WorkInv, Work!Task
<1>4. WorkCall(tTask, c)
  BY <1>1, <1>3, WorkBlank DEF WorkCall, WorkReal, WorkInv
<1>5. WorkCalls(tTask, tCall')
  BY <1>1, <1>2, <1>4, WorkCallStep DEF WorkInv
<1>6. QED
  BY <1>5, WorkStep DEF Work!Send, WorkMoves, WorkInv

LEMMA WorkAct ==
    ASSUME WorkInv, NEW what \in {"start", "pause", "resume"}, Work!Act(what)
    PROVE  WorkInv'
<1> DEFINE request == [Work!Idle EXCEPT !.what = what]
<1>1. request \in Work!Call /\ request.got = Work!None
  BY WorkBlank DEF Work!Idle, Work!Call
<1>2. Work!Send("action", request)
  BY DEF Work!Act
<1> HIDE DEF request
<1>3. "action" \in Work!Mutations
  BY DEF Work!Mutations
<1>4. QED
  BY <1>1, <1>2, <1>3, WorkSend

\* The first step that is not completed is a step.
LEMMA CurrentStepIsStep ==
    ASSUME NEW t \in Work!Task, ~Work!AllDone(t)
    PROVE  Work!CurrentStep(t) \in Work!Steps
<1>1. Work!Steps \ t.done \in SUBSET Nat /\ Work!Steps \ t.done # {}
  <2>1. t.done \subseteq Work!Steps /\ t.done # Work!Steps
    BY DEF Work!AllDone, Work!Task
  <2>2. Work!Steps \subseteq Nat
    BY PagesAssumption DEF Work!Steps
  <2>3. QED
    BY <2>1, <2>2
<1>2. \E x \in Work!Steps \ t.done : \A y \in Work!Steps \ t.done : x <= y
  BY <1>1, Least
<1>3. Work!Min(Work!Steps \ t.done) \in Work!Steps \ t.done
  BY <1>2 DEF Work!Min
<1>4. QED
  BY <1>3 DEF Work!CurrentStep

LEMMA WorkSave == ASSUME WorkInv, Work!Save PROVE WorkInv'
<1> DEFINE i == Work!CurrentStep(tData)
           request == [Work!Idle EXCEPT !.step = i, !.files = Work!Shown(i)]
<1>1. i \in Work!Steps
  BY CurrentStepIsStep DEF Work!Save, Work!StepShown, WorkInv
<1>2. Work!Shown(i) \in SUBSET Files
  BY <1>1 DEF Work!Shown, WorkInv, Work!Task
<1>3. Work!Send("save", request)
  BY DEF Work!Save
<1>4. request \in Work!Call /\ request.got = Work!None
  <2>1. i \in 0..LastStep
    BY <1>1, PagesAssumption DEF Work!Steps
  <2> HIDE DEF i
  <2>2. QED
    BY <1>2, <2>1, WorkBlank DEF Work!Idle, Work!Call
<1> HIDE DEF request
<1>5. "save" \in Work!Mutations
  BY DEF Work!Mutations
<1>6. QED
  BY <1>3, <1>4, <1>5, WorkSend

LEMMA WorkSubmit == ASSUME WorkInv, Work!Submit PROVE WorkInv'
<1> DEFINE request == [Work!Idle EXCEPT !.note = tNote]
<1>1. request \in Work!Call /\ request.got = Work!None
  BY WorkBlank DEF Work!Idle, Work!Call, WorkInv
<1>2. Work!Send("submit", request)
  BY DEF Work!Submit
<1> HIDE DEF request
<1>3. "submit" \in Work!Mutations
  BY DEF Work!Mutations
<1>4. QED
  BY <1>1, <1>2, <1>3, WorkSend

\* What the page does without a request: files, a note, a refresh, a fetch.
LEMMA WorkEdit ==
    ASSUME WorkInv,
           \/ Work!Refresh \/ Work!Fetch \/ Work!FetchFails
           \/ \E ids \in SUBSET Files : Work!Attach(ids)
           \/ \E text \in BOOLEAN : Work!TypeNote(text)
    PROVE  WorkInv'
<1>1. CASE Work!Refresh \/ Work!Fetch \/ Work!FetchFails
  BY <1>1, WorkStep DEF WorkInv, WorkMoves, Work!Refresh, Work!Fetch, Work!FetchFails
<1>2. CASE \E ids \in SUBSET Files : Work!Attach(ids)
  BY <1>2, WorkStep DEF WorkInv, WorkMoves, Work!Attach
<1>3. CASE \E text \in BOOLEAN : Work!TypeNote(text)
  BY <1>3, WorkStep DEF WorkInv, WorkMoves, Work!TypeNote
<1>4. QED
  BY <1>1, <1>2, <1>3

\* A row of the next version.
LEMMA WorkRow ==
    ASSUME WorkInv, NEW row \in Work!Task, tTask' = [row EXCEPT !.version = tTask.version + 1]
    PROVE  WorkMoves
BY DEF WorkInv, WorkMoves, Work!Task

\* An answer, with the task if the request was permitted.
LEMMA WorkAnswer ==
    ASSUME WorkInv, WorkMoves, NEW k \in Work!Mutations, NEW stage \in {"done", "failed"},
           NEW row \in {tTask', Work!None}, Work!Answer(k, stage, row),
           UNCHANGED <<tData, tFetch, tReading, tEvidence, tNote, tErrors>>
    PROVE  WorkInv'
<1> DEFINE c == [Work!Idle EXCEPT !.stage = stage, !.got = row, !.watched = tCall[k].watched]
<1>0. row \in Work!Task /\ tCall[k] \in Work!Call /\ WorkReal(tTask', row)
  BY WorkGrows, WorkBlank DEF WorkInv, WorkCalls
<1>1. c \in Work!Call /\ c.stage = stage /\ c.got = row /\ c.seen = Work!None
  <2>1. tCall[k].watched \in BOOLEAN
    BY <1>0 DEF Work!Call
  <2>2. QED
    BY <1>0, <2>1, WorkBlank DEF Work!Idle, Work!Call
<1>2. tCall' = [tCall EXCEPT ![k] = c]
  BY DEF Work!Answer
<1> HIDE DEF c
<1>3. WorkCall(tTask', c)
  BY <1>0, <1>1, WorkGrows, WorkBlank DEF WorkCall
<1>4. WorkCalls(tTask', tCall')
  BY <1>1, <1>2, <1>3, WorkCallStep, WorkGrows DEF WorkInv
<1>5. QED
  BY <1>4, WorkStep DEF WorkInv

\* What the handlers do: the row is written under the next version, or refused.
WorkHandled(k, row) ==
    \/ tTask' = [row EXCEPT !.version = tTask.version + 1] /\ Work!Answer(k, "done", tTask')
    \/ UNCHANGED tTask /\ Work!Answer(k, "failed", Work!None)

LEMMA WorkHandle ==
    ASSUME WorkInv, NEW k \in Work!Mutations, NEW row \in Work!Task, WorkHandled(k, row),
           UNCHANGED <<tData, tFetch, tReading, tEvidence, tNote, tErrors>>
    PROVE  WorkInv'
BY WorkRow, WorkAnswer DEF WorkHandled, WorkMoves

LEMMA WorkRows ==
    ASSUME NEW t \in Work!Task
    PROVE  /\ \A s \in Work!Statuses : [t EXCEPT !.status = s] \in Work!Task
           /\ \A s \in Work!Statuses, b \in BOOLEAN :
                 [t EXCEPT !.status = s, !.handedIn = b] \in Work!Task
           /\ \A i \in Work!Steps, ids \in SUBSET Files :
                 [t EXCEPT !.done = @ \cup {i}, !.files[i] = ids] \in Work!Task
           /\ \A s \in Work!Statuses, redo \in SUBSET Work!Steps :
                 [t EXCEPT !.status = s, !.done = @ \ redo,
                      !.files = [i \in Work!Steps |-> IF i \in redo THEN {} ELSE @[i]]]
                          \in Work!Task
BY DEF Work!Task

LEMMA WorkServe == ASSUME WorkInv, Work!Serve PROVE WorkInv'
<1>0. /\ "action" \in Work!Mutations /\ "save" \in Work!Mutations /\ "submit" \in Work!Mutations
      /\ tTask \in Work!Task /\ \A k \in Work!Mutations : tCall[k] \in Work!Call
  BY DEF WorkInv, WorkCalls, Work!Mutations
<1>1. CASE Work!HandleAction
  <2> DEFINE row == [tTask EXCEPT !.status = Work!To[tCall["action"].what]]
  <2>1. tCall["action"].what \in {"start", "pause", "resume"}
    BY <1>0, <1>1 DEF Work!HandleAction, Work!Call
  <2>2. Work!To[tCall["action"].what] \in Work!Statuses
    BY <2>1 DEF Work!To, Work!Statuses
  <2>3. row \in Work!Task
    BY <1>0, <2>2, WorkRows
  <2>4. WorkHandled("action", row)
    BY <1>1 DEF Work!HandleAction, Work!Handle, WorkHandled
  <2> HIDE DEF row
  <2>5. QED
    BY <1>0, <1>1, <2>3, <2>4, WorkHandle DEF Work!HandleAction, Work!Handle
<1>2. CASE Work!HandleSave
  <2> DEFINE i == tCall["save"].step
             ids == tCall["save"].files
             row == [tTask EXCEPT !.done = @ \cup {i}, !.files[i] = ids]
  <2>1. tCall["save"] \in Work!Call /\ i # 0
    BY <1>0, <1>2 DEF Work!HandleSave
  <2>2. i \in Work!Steps /\ ids \in SUBSET Files
    <3>1. i \in 0..LastStep /\ ids \in SUBSET Files
      BY <2>1 DEF Work!Call
    <3> HIDE DEF i
    <3>2. QED
      BY <2>1, <3>1, PagesAssumption DEF Work!Steps
  <2>3. row \in Work!Task
    <3> HIDE DEF i, ids
    <3> QED
      BY <1>0, <2>2, WorkRows
  <2>4. WorkHandled("save", row)
    BY <1>2 DEF Work!HandleSave, Work!Handle, WorkHandled
  <2> HIDE DEF row
  <2>5. QED
    BY <1>0, <1>2, <2>3, <2>4, WorkHandle DEF Work!HandleSave, Work!Handle
<1>3. CASE Work!HandleSubmit
  <2> DEFINE row == [tTask EXCEPT !.status = "submitted", !.handedIn = tCall["submit"].note]
  <2>1. row \in Work!Task
    BY <1>0, WorkRows, WorkCallFields DEF Work!Statuses
  <2>2. WorkHandled("submit", row)
    BY <1>3 DEF Work!HandleSubmit, Work!Handle, WorkHandled
  <2> HIDE DEF row
  <2>3. QED
    BY <1>0, <1>3, <2>1, <2>2, WorkHandle DEF Work!HandleSubmit, Work!Handle
<1>4. QED
  BY <1>1, <1>2, <1>3 DEF Work!Serve

\* What happens to the task from elsewhere.
LEMMA WorkElsewhere ==
    ASSUME WorkInv, NEW row \in Work!Task, Work!Elsewhere(row)
    PROVE  WorkInv'
BY WorkRow, WorkStep DEF Work!Elsewhere, WorkInv

LEMMA WorkOthers ==
    ASSUME WorkInv, Work!OtherDevice \/ Work!Review \/ Work!Counselor
    PROVE  WorkInv'
<1>0. tTask \in Work!Task
  BY DEF WorkInv
<1>1. ASSUME NEW what \in DOMAIN Work!From, Work!Elsewhere([tTask EXCEPT !.status = Work!To[what]])
      PROVE  WorkInv'
  <2>1. Work!To[what] \in Work!Statuses
    BY DEF Work!From, Work!To, Work!Statuses
  <2>2. [tTask EXCEPT !.status = Work!To[what]] \in Work!Task
    BY <1>0, <2>1, WorkRows
  <2>3. QED
    BY <1>1, <2>2, WorkElsewhere
<1>2. ASSUME ~Work!AllDone(tTask), NEW ids \in SUBSET Files,
             Work!Elsewhere([tTask EXCEPT !.done = @ \cup {Work!CurrentStep(tTask)},
                                          !.files[Work!CurrentStep(tTask)] = ids])
      PROVE  WorkInv'
  <2>1. Work!CurrentStep(tTask) \in Work!Steps
    BY <1>0, <1>2, CurrentStepIsStep
  <2>2. [tTask EXCEPT !.done = @ \cup {Work!CurrentStep(tTask)},
                      !.files[Work!CurrentStep(tTask)] = ids] \in Work!Task
    BY <1>0, <2>1, WorkRows
  <2>3. QED
    BY <1>2, <2>2, WorkElsewhere
<1>3. ASSUME NEW status \in Work!Statuses, Work!Elsewhere([tTask EXCEPT !.status = status])
      PROVE  WorkInv'
  BY <1>0, <1>3, WorkRows, WorkElsewhere
<1>4. ASSUME NEW redo \in SUBSET Work!Steps,
             Work!Elsewhere([tTask EXCEPT !.status = "changes_requested", !.done = @ \ redo,
                 !.files = [i \in Work!Steps |-> IF i \in redo THEN {} ELSE @[i]]])
      PROVE  WorkInv'
  <2>1. [tTask EXCEPT !.status = "changes_requested", !.done = @ \ redo,
             !.files = [i \in Work!Steps |-> IF i \in redo THEN {} ELSE @[i]]] \in Work!Task
    BY <1>0, WorkRows DEF Work!Statuses
  <2>2. QED
    BY <1>4, <2>1, WorkElsewhere
<1>5. ASSUME Work!Elsewhere(tTask)
      PROVE  WorkInv'
  BY <1>0, <1>5, WorkElsewhere
<1>6. {"completed", "cancelled"} \subseteq Work!Statuses
  BY DEF Work!Statuses
<1>7. ASSUME NEW text \in BOOLEAN,
             Work!Elsewhere([tTask EXCEPT !.status = "submitted", !.handedIn = text])
      PROVE  WorkInv'
  <2>1. [tTask EXCEPT !.status = "submitted", !.handedIn = text] \in Work!Task
    BY <1>0, WorkRows DEF Work!Statuses
  <2>2. QED
    BY <1>7, <2>1, WorkElsewhere
<1>8. QED
  BY <1>1, <1>2, <1>3, <1>4, <1>5, <1>6, <1>7 DEF Work!OtherDevice, Work!Review, Work!Counselor

\* The calls after a refresh has read.
LEMMA WorkReset == ASSUME WorkInv PROVE WorkCalls(tTask, Work!ResetCalls)
<1>1. ASSUME NEW k \in Work!Mutations
      PROVE  Work!ResetCalls[k] \in Work!Call /\ WorkCall(tTask, Work!ResetCalls[k])
  <2>1. tCall[k] \in Work!Call /\ WorkCall(tTask, tCall[k])
    BY DEF WorkInv, WorkCalls
  <2> DEFINE r == [tCall[k] EXCEPT !.watched = FALSE]
  <2>2. r \in Work!Call /\ WorkCall(tTask, r)
    BY <2>1, WorkCallFields DEF WorkCall
  <2>3. Work!ResetCalls[k] = r \/ Work!ResetCalls[k] = Work!Idle
    BY DEF Work!ResetCalls
  <2>4. WorkCall(tTask, Work!Idle)
    BY WorkBlank, WorkGrows DEF WorkCall, WorkReal, WorkInv, Work!Task
  <2> HIDE DEF r
  <2>5. QED
    BY <2>2, <2>3, <2>4, WorkBlank
<1>2. Work!ResetCalls \in [Work!Mutations -> Work!Call]
  BY <1>1 DEF Work!ResetCalls
<1>3. QED
  BY <1>1, <1>2 DEF WorkCalls

\* A reply that was taken in leaves no call.
LEMMA WorkIdle ==
    ASSUME WorkInv, NEW calls \in {tCall, Work!ResetCalls}, NEW k \in Work!Mutations
    PROVE  WorkCalls(tTask, [calls EXCEPT ![k] = Work!Idle])
<1>1. WorkCalls(tTask, calls)
  BY WorkReset DEF WorkInv
<1>2. WorkCall(tTask, Work!Idle)
  BY WorkBlank DEF WorkCall, WorkReal, WorkInv, Work!Task
<1>3. QED
  BY <1>1, <1>2, WorkBlank, WorkCallStep

LEMMA WorkReplies ==
    ASSUME WorkInv, NEW k \in Work!Mutations,
           Work!LoseCall(k) \/ Work!Replied(k) \/ Work!Failed(k)
    PROVE  WorkInv'
<1>1. CASE Work!LoseCall(k)
  BY <1>1, WorkAnswer DEF Work!LoseCall, WorkMoves
<1>2. CASE Work!Replied(k)
  <2>1. tCall[k].got \in Work!Task /\ WorkReal(tTask, tCall[k].got)
    BY DEF WorkInv, WorkCalls, WorkCall, Work!Call
  <2>2. WorkCalls(tTask, tCall')
    BY <1>2, WorkIdle DEF Work!Replied
  <2>3. tData' = tCall[k].got
    BY <1>2 DEF Work!Replied, Work!Cached
  <2>4. QED
    BY <1>2, <2>1, <2>2, <2>3, WorkStep DEF Work!Replied, WorkInv, WorkMoves
<1>3. CASE Work!Failed(k)
  <2>1. WorkCalls(tTask, tCall')
    BY <1>3, WorkIdle DEF Work!Failed
  <2>2. tErrors' \subseteq Work!Mutations
    BY <1>3 DEF Work!Failed, WorkInv
  <2>3. QED
    BY <1>3, <2>1, <2>2, WorkStep DEF Work!Failed, WorkInv, WorkMoves
<1>4. QED
  BY <1>1, <1>2, <1>3

LEMMA WorkSubmitted == ASSUME WorkInv, Work!Submitted PROVE WorkInv'
<1>1. WorkCalls(tTask, tCall')
  <2>1. "submit" \in Work!Mutations
    BY DEF Work!Mutations
  <2>2. tCall' = [(IF tReading THEN Work!ResetCalls ELSE tCall) EXCEPT !["submit"] = Work!Idle]
    BY DEF Work!Submitted
  <2>3. (IF tReading THEN Work!ResetCalls ELSE tCall) \in {tCall, Work!ResetCalls}
    OBVIOUS
  <2>4. QED
    BY <2>1, <2>2, <2>3, WorkIdle
<1>2. tNote' \in BOOLEAN /\ tErrors' \subseteq Work!Mutations
  BY DEF Work!Submitted, WorkInv
<1>3. QED
  BY <1>1, <1>2, WorkStep DEF Work!Submitted, WorkInv, WorkMoves

LEMMA WorkArrive == ASSUME WorkInv, Work!Arrive PROVE WorkInv'
<1>1. WorkCalls(tTask, tCall') /\ tErrors' \subseteq Work!Mutations
  BY WorkReset DEF Work!Arrive, WorkInv
<1>2. QED
  BY <1>1, WorkStep DEF Work!Arrive, WorkInv, WorkMoves

LEMMA WorkNext == WorkInv /\ [Work!Next]_workVars => WorkInv'
<1> SUFFICES ASSUME WorkInv, [Work!Next]_workVars
             PROVE  WorkInv'
  OBVIOUS
<1>1. CASE UNCHANGED workVars
  BY <1>1 DEF workVars, WorkInv
<1>2. CASE \E what \in DOMAIN Work!From : Work!Act(what)
  BY <1>2, WorkAct DEF Work!From
<1>3. CASE Work!Save \/ Work!Submit \/ Work!Serve \/ Work!OtherDevice \/ Work!Review
           \/ Work!Counselor \/ Work!Submitted \/ Work!Arrive
  BY <1>3, WorkSave, WorkSubmit, WorkServe, WorkOthers, WorkSubmitted, WorkArrive
<1>4. CASE \/ Work!Refresh \/ Work!Fetch \/ Work!FetchFails
           \/ \E ids \in SUBSET Files : Work!Attach(ids)
           \/ \E text \in BOOLEAN : Work!TypeNote(text)
  BY <1>4, WorkEdit
<1>5. CASE \E k \in Work!Mutations : Work!LoseCall(k) \/ Work!Replied(k) \/ Work!Failed(k)
  BY <1>5, WorkReplies
<1>6. QED
  BY <1>1, <1>2, <1>3, <1>4, <1>5 DEF Work!Next, Work!Reply

LEMMA WorkTypes == WorkInv => Work!TypeOK
BY DEF WorkInv, WorkCalls, Work!TypeOK

\* A request that moves the task was permitted: it names the version of the task,
\* and that is the task that was shown.
LEMMA WorkSeen == WorkInv /\ [Work!Next]_workVars => Work!DoesAsSeen
<1> SUFFICES ASSUME WorkInv, [Work!Next]_workVars, NEW k \in Work!Mutations,
                    tCall[k].stage = "sent", tTask' # tTask, tCall'[k].stage = "done"
             PROVE  tTask = tCall[k].seen
  BY DEF Work!DoesAsSeen
<1>1. tCall'[k] # tCall[k] /\ tCall' # tCall
  OBVIOUS
<1>2. Work!Serve
  BY <1>1 DEF workVars, Work!Next, Work!Act, Work!Send, Work!Save, Work!Submit, Work!Refresh,
      Work!Attach, Work!TypeNote, Work!OtherDevice, Work!Review, Work!Counselor,
      Work!Elsewhere, Work!LoseCall, Work!Reply, Work!Replied, Work!Failed, Work!Submitted,
      Work!Fetch, Work!Arrive, Work!FetchFails
<1>3. \E j \in Work!Mutations : Work!Permitted(j) /\ Work!Answer(j, "done", tTask')
  BY <1>2 DEF Work!Serve, Work!HandleAction, Work!HandleSave, Work!HandleSubmit, Work!Handle,
      Work!Mutations
<1>4. PICK j \in Work!Mutations : Work!Permitted(j) /\ Work!Answer(j, "done", tTask')
  BY <1>3
<1>5. j = k
  BY <1>1, <1>4 DEF Work!Answer, WorkInv, WorkCalls
<1>6. tCall[k].version = tTask.version /\ WorkCall(tTask, tCall[k])
  BY <1>4, <1>5 DEF Work!Permitted, WorkInv, WorkCalls
<1>7. QED
  BY <1>6 DEF WorkCall, WorkReal

-----------------------------------------------------------------------------
(* The counselor's desk: the invariant.                                     *)

\* As long as the version is that of the task m, s is the task.
DeskReal(m, s) == s.version <= m.version /\ (s.version = m.version => s = m)

DeskCalls(m, calls) ==
    /\ calls \in [Desk!Mutations -> Desk!Call]
    /\ \A k \in Desk!Mutations : DeskReal(m, calls[k].seen)

\* What the learner has been sent is what the feedback lists: nothing before the
\* review.
DeskFeedback(m, notes, listed) ==
    /\ notes \in [Notes -> {"none", "draft", "published"}] /\ listed \in SUBSET Notes
    /\ {n \in Notes : notes[n] = "published"} = listed
    /\ ~m.reviewed => listed = {}

DeskInv ==
    /\ rTask \in Desk!Row /\ rTask.version > 0
    /\ DeskFeedback(rTask, rNote, rFeedback)
    /\ rAt \in Desk!Pages /\ rBroken \in BOOLEAN /\ rForm \in Desk!Form
    /\ rData \in [Desk!Pages -> Desk!Row] /\ \A p \in Desk!Pages : DeskReal(rTask, rData[p])
    /\ rFetch \in Desk!Row /\ DeskReal(rTask, rFetch)
    /\ DeskCalls(rTask, rCall)

LEMMA DeskBlank ==
    /\ Desk!None \in Desk!Row /\ Desk!None.version = 0
    /\ Desk!NewForm \in Desk!Form
    /\ Desk!Idle \in Desk!Call /\ Desk!Idle.seen = Desk!None /\ Desk!Idle.stage = "none"
    /\ "review" \in Desk!Mutations /\ "draw" \in Desk!Mutations
    /\ "override" \in Desk!Mutations /\ "cancel" \in Desk!Mutations
BY DEF Desk!None, Desk!Row, Desk!NewForm, Desk!Form, Desk!Idle, Desk!Call, Desk!Mutations

LEMMA DeskInit == Desk!Init => DeskInv
<1> SUFFICES ASSUME Desk!Init
             PROVE  DeskInv
  OBVIOUS
<1>1. rTask \in Desk!Row /\ rTask.version = 1
  BY DEF Desk!Init, Desk!Row
<1>2. DeskReal(rTask, Desk!None)
  BY <1>1, DeskBlank DEF DeskReal
<1>3. DeskCalls(rTask, rCall)
  BY <1>2, DeskBlank DEF Desk!Init, DeskCalls
<1>4. DeskFeedback(rTask, rNote, rFeedback)
  BY DEF Desk!Init, DeskFeedback
<1>5. rAt \in Desk!Pages /\ rBroken \in BOOLEAN
  BY DEF Desk!Init, Desk!Pages
<1>6. rData = [p \in Desk!Pages |-> Desk!None] /\ rFetch = Desk!None /\ rForm = Desk!NewForm
  BY DEF Desk!Init
<1>7. QED
  BY <1>1, <1>2, <1>3, <1>4, <1>5, <1>6, DeskBlank DEF DeskInv

\* The task stays, or moves to its next version.
DeskMoves == rTask' = rTask \/ (rTask' \in Desk!Row /\ rTask'.version = rTask.version + 1)

LEMMA DeskGrows ==
    ASSUME DeskInv, DeskMoves
    PROVE  /\ rTask' \in Desk!Row /\ rTask'.version > 0
           /\ \A s \in Desk!Row : DeskReal(rTask, s) => DeskReal(rTask', s)
           /\ DeskReal(rTask', rTask') /\ DeskReal(rTask', Desk!None)
           /\ \A calls : DeskCalls(rTask, calls) => DeskCalls(rTask', calls)
<1>1. rTask \in Desk!Row /\ rTask.version \in Nat /\ rTask.version > 0
  BY DEF DeskInv, Desk!Row
<1>2. rTask' \in Desk!Row /\ rTask'.version > 0 /\ rTask'.version \in Nat
  BY <1>1 DEF DeskMoves, Desk!Row
<1>3. ASSUME NEW s \in Desk!Row, DeskReal(rTask, s)
      PROVE  DeskReal(rTask', s)
  <2>1. s.version \in Nat
    BY DEF Desk!Row
  <2>2. QED
    BY <1>1, <1>3, <2>1 DEF DeskReal, DeskMoves
<1>4. DeskReal(rTask', rTask') /\ DeskReal(rTask', Desk!None)
  BY <1>2, DeskBlank DEF DeskReal
<1>5. ASSUME NEW calls, DeskCalls(rTask, calls)
      PROVE  DeskCalls(rTask', calls)
  BY <1>3, <1>5 DEF DeskCalls, Desk!Call
<1>6. QED
  BY <1>2, <1>3, <1>4, <1>5

\* A step after which calls and notes are sound and only what was read is cached
\* keeps the invariant.
LEMMA DeskStep ==
    ASSUME DeskInv, DeskMoves,
           DeskFeedback(rTask', rNote', rFeedback'),
           rAt' \in Desk!Pages, rBroken' \in BOOLEAN, rForm' \in Desk!Form,
           rData' = rData \/ rData' = [rData EXCEPT ![rAt] = rFetch],
           rFetch' \in {rFetch, rTask, Desk!None},
           DeskCalls(rTask, rCall')
    PROVE  DeskInv'
<1>1. rData' \in [Desk!Pages -> Desk!Row] /\ \A p \in Desk!Pages : DeskReal(rTask, rData'[p])
  BY DEF DeskInv
<1>2. rFetch' \in Desk!Row /\ DeskReal(rTask, rFetch')
  <2>1. DeskReal(rTask, rTask) /\ DeskReal(rTask, Desk!None)
    BY DeskBlank DEF DeskReal, DeskInv, Desk!Row
  <2>2. QED
    BY <2>1, DeskBlank DEF DeskInv
<1>3. QED
  BY <1>1, <1>2, DeskGrows DEF DeskInv

\* Calls: one that is replaced, and those of components that are gone.
LEMMA DeskCallStep ==
    ASSUME DeskInv, NEW k \in Desk!Mutations, NEW c \in Desk!Call, DeskReal(rTask, c.seen),
           rCall' = [rCall EXCEPT ![k] = c]
    PROVE  DeskCalls(rTask, rCall')
BY DEF DeskInv, DeskCalls

LEMMA DeskUnmounted == ASSUME DeskInv PROVE DeskCalls(rTask, Desk!Unmounted)
<1>1. ASSUME NEW k \in Desk!Mutations
      PROVE  Desk!Unmounted[k] \in Desk!Call /\ DeskReal(rTask, Desk!Unmounted[k].seen)
  <2>1. rCall[k] \in Desk!Call /\ DeskReal(rTask, rCall[k].seen)
    BY DEF DeskInv, DeskCalls
  <2>2. Desk!Unmounted[k] \in {rCall[k], [rCall[k] EXCEPT !.here = FALSE]}
    BY DEF Desk!Unmounted
  <2>3. /\ [rCall[k] EXCEPT !.here = FALSE] \in Desk!Call
        /\ [rCall[k] EXCEPT !.here = FALSE].seen = rCall[k].seen
    BY <2>1 DEF Desk!Call
  <2>4. QED
    BY <2>1, <2>2, <2>3
<1>2. Desk!Unmounted \in [Desk!Mutations -> Desk!Call]
  BY <1>1 DEF Desk!Unmounted
<1>3. QED
  BY <1>1, <1>2 DEF DeskCalls

-----------------------------------------------------------------------------
(* The counselor's desk: the steps.                                         *)

LEMMA DeskClicks ==
    ASSUME DeskInv,
           \/ \E p \in Desk!Pages : Desk!Go(p)
           \/ \E verdict \in (SUBSET ReviewSteps) \cup {Unready} : Desk!Decide(verdict)
           \/ \E marked \in BOOLEAN : Desk!Mark(marked)
    PROVE  DeskInv'
<1>1. CASE \E p \in Desk!Pages : Desk!Go(p)
  BY <1>1, DeskBlank, DeskUnmounted, DeskStep DEF Desk!Go, DeskInv, DeskMoves, Desk!server
<1>2. ASSUME rForm' \in Desk!Form, UNCHANGED <<Desk!server, rAt, Desk!queries, rCall>>
      PROVE  DeskInv'
  BY <1>2, DeskStep DEF DeskInv, DeskMoves, Desk!server, Desk!queries
<1>3. CASE \E verdict \in (SUBSET ReviewSteps) \cup {Unready} : Desk!Decide(verdict)
  <2>1. rForm' \in Desk!Form
    BY <1>3 DEF Desk!Decide, DeskInv, Desk!Form
  <2>2. QED
    BY <1>2, <1>3, <2>1 DEF Desk!Decide
<1>4. CASE \E marked \in BOOLEAN : Desk!Mark(marked)
  <2>1. rForm' \in Desk!Form
    BY <1>4 DEF Desk!Mark, DeskInv, Desk!Form
  <2>2. QED
    BY <1>2, <1>4, <2>1 DEF Desk!Mark
<1>5. QED
  BY <1>1, <1>3, <1>4

\* A click sends what is rendered.
LEMMA DeskSend ==
    ASSUME DeskInv, NEW k \in Desk!Mutations, NEW request \in Desk!Call, Desk!Send(k, request)
    PROVE  DeskInv'
<1> DEFINE row == rData[Desk!PageOf(k)]
           c == [request EXCEPT !.stage = "sent", !.seen = row, !.here = TRUE]
<1>1. row \in Desk!Row /\ DeskReal(rTask, row)
  BY DEF DeskInv, Desk!PageOf, Desk!Pages
<1>2. rCall' = [rCall EXCEPT ![k] = c]
  BY DEF Desk!Send
<1> HIDE DEF row
<1>3. c \in Desk!Call /\ c.seen = row
  BY <1>1 DEF Desk!Call
<1> HIDE DEF c
<1>4. DeskCalls(rTask, rCall')
  BY <1>1, <1>2, <1>3, DeskCallStep
<1>5. QED
  BY <1>4, DeskStep DEF Desk!Send, DeskInv, DeskMoves, Desk!server, Desk!queries

LEMMA DeskSends ==
    ASSUME DeskInv,
           \/ Desk!SaveMarkers \/ Desk!SubmitReview
           \/ \E k \in {"override", "cancel"} : Desk!Order(k)
    PROVE  DeskInv'
<1>1. CASE Desk!SaveMarkers \/ \E k \in {"override", "cancel"} : Desk!Order(k)
  BY <1>1, DeskBlank, DeskSend DEF Desk!SaveMarkers, Desk!Order
<1>2. CASE Desk!SubmitReview
  <2> DEFINE request == [Desk!Idle EXCEPT !.verdict = rForm.verdict, !.notes = rForm.notes]
  <2>1. request \in Desk!Call
    BY DeskBlank DEF DeskInv, Desk!Idle, Desk!Call, Desk!Form
  <2>2. Desk!Send("review", request)
    BY <1>2 DEF Desk!SubmitReview
  <2> HIDE DEF request
  <2>3. QED
    BY <2>1, <2>2, DeskBlank, DeskSend
<1>3. QED
  BY <1>1, <1>2

\* An answer brings nothing of the task.
LEMMA DeskAnswer ==
    ASSUME DeskInv, NEW k \in Desk!Mutations, NEW stage \in {"done", "failed"},
           NEW made \in SUBSET Notes, Desk!Answer(k, stage, made)
    PROVE  DeskCalls(rTask, rCall')
<1> DEFINE c == [Desk!Idle EXCEPT !.stage = stage, !.made = made, !.here = rCall[k].here]
<1>1. c \in Desk!Call /\ c.seen = Desk!None
  <2>1. rCall[k].here \in BOOLEAN
    BY DEF DeskInv, DeskCalls, Desk!Call
  <2>2. QED
    BY <2>1, DeskBlank DEF Desk!Idle, Desk!Call
<1>2. rCall' = [rCall EXCEPT ![k] = c]
  BY DEF Desk!Answer
<1> HIDE DEF c
<1>3. DeskReal(rTask, c.seen)
  BY <1>1, DeskBlank DEF DeskReal, DeskInv, Desk!Row
<1>4. QED
  BY <1>1, <1>2, <1>3, DeskCallStep

\* The rows that a review and an order write are of the next version.
LEMMA DeskRows ==
    ASSUME DeskInv
    PROVE  /\ \A verdict : rTask' = Desk!AfterReview(verdict) => DeskMoves /\ rTask'.reviewed
           /\ \A k : rTask' = Desk!AfterOrder(k) =>
                  DeskMoves /\ rTask'.reviewed = rTask.reviewed
<1>1. rTask \in Desk!Row /\ rTask.version \in Nat
  BY DEF DeskInv, Desk!Row
<1>2. ASSUME NEW verdict, rTask' = Desk!AfterReview(verdict)
      PROVE  DeskMoves /\ rTask'.reviewed
  BY <1>1, <1>2 DEF DeskMoves, Desk!AfterReview, Desk!Row
<1>3. ASSUME NEW k, rTask' = Desk!AfterOrder(k)
      PROVE  DeskMoves /\ rTask'.reviewed = rTask.reviewed
  <2> DEFINE status == IF k = "cancel" THEN "cancelled" ELSE rTask.status
             next == [rTask EXCEPT !.version = rTask.version + 1]
  <2>1. rTask' = [next EXCEPT !.status = status]
    BY <1>3, Zenon DEF Desk!AfterOrder
  <2>2. status \in {"submitted", "completed", "changes_requested", "cancelled"}
    BY <1>1 DEF Desk!Row
  <2>3. /\ next \in Desk!Row /\ next.version = rTask.version + 1
        /\ next.reviewed = rTask.reviewed
    BY <1>1 DEF Desk!Row
  <2> HIDE DEF status, next
  <2>4. QED
    BY <1>1, <2>1, <2>2, <2>3 DEF DeskMoves, Desk!Row
<1>4. QED
  BY <1>2, <1>3

LEMMA DeskReview == ASSUME DeskInv, Desk!HandleReview PROVE DeskInv'
<1>1. CASE Desk!Permitted("review") /\ Desk!Reviewable
  <2> DEFINE notes == rCall["review"].notes
  <2>1. /\ rTask' = Desk!AfterReview(rCall["review"].verdict) /\ rFeedback' = notes
        /\ rNote' = [n \in Notes |-> IF n \in notes THEN "published" ELSE rNote[n]]
        /\ Desk!Answer("review", "done", {})
        /\ UNCHANGED <<rAt, Desk!queries, rForm>>
    BY <1>1 DEF Desk!HandleReview, Desk!Publish
  <2>2. DeskMoves /\ rTask'.reviewed /\ ~rTask.reviewed
    BY <1>1, <2>1, DeskRows DEF Desk!Reviewable
  <2>3. notes \in SUBSET Notes
    BY DeskBlank DEF DeskInv, DeskCalls, Desk!Call
  <2>4. DeskFeedback(rTask', rNote', rFeedback')
    BY <2>1, <2>2, <2>3 DEF DeskInv, DeskFeedback
  <2>5. DeskCalls(rTask, rCall')
    BY <2>1, DeskBlank, DeskAnswer
  <2>6. QED
    BY <2>1, <2>2, <2>4, <2>5, DeskStep DEF DeskInv, Desk!queries
<1>2. CASE ~(Desk!Permitted("review") /\ Desk!Reviewable)
  <2>1. /\ Desk!Answer("review", "failed", {})
        /\ UNCHANGED <<rTask, rFeedback, rNote, rAt, Desk!queries, rForm>>
    BY <1>2 DEF Desk!HandleReview, Desk!server
  <2>2. DeskCalls(rTask, rCall')
    BY <2>1, DeskBlank, DeskAnswer
  <2>3. QED
    BY <2>1, <2>2, DeskStep DEF DeskInv, DeskMoves, Desk!queries
<1>3. QED
  BY <1>1, <1>2

LEMMA DeskDraw == ASSUME DeskInv, Desk!HandleDraw PROVE DeskInv'
<1>1. CASE \E n \in Notes : /\ rNote[n] = "none" /\ rNote' = [rNote EXCEPT ![n] = "draft"]
                            /\ Desk!Answer("draw", "done", {n})
  <2>1. PICK n \in Notes : /\ rNote[n] = "none" /\ rNote' = [rNote EXCEPT ![n] = "draft"]
                           /\ Desk!Answer("draw", "done", {n})
    BY <1>1
  <2>2. DeskFeedback(rTask, rNote', rFeedback)
    BY <2>1 DEF DeskInv, DeskFeedback
  <2>3. DeskCalls(rTask, rCall')
    BY <2>1, DeskBlank, DeskAnswer
  <2>4. QED
    BY <2>2, <2>3, DeskStep DEF Desk!HandleDraw, DeskInv, DeskMoves, Desk!queries
<1>2. CASE Desk!Answer("draw", "failed", {}) /\ UNCHANGED rNote
  <2>1. DeskCalls(rTask, rCall')
    BY <1>2, DeskBlank, DeskAnswer
  <2>2. QED
    BY <1>2, <2>1, DeskStep DEF Desk!HandleDraw, DeskInv, DeskMoves, Desk!queries
<1>3. QED
  BY <1>1, <1>2 DEF Desk!HandleDraw

LEMMA DeskOrder ==
    ASSUME DeskInv, NEW k \in {"override", "cancel"}, Desk!HandleOrder(k)
    PROVE  DeskInv'
<1>0. k \in Desk!Mutations
  BY DeskBlank
<1>1. DeskCalls(rTask, rCall')
  BY <1>0, DeskAnswer DEF Desk!HandleOrder
<1>2. DeskMoves /\ rTask'.reviewed = rTask.reviewed
  BY DeskRows DEF Desk!HandleOrder, DeskMoves
<1>3. DeskFeedback(rTask', rNote', rFeedback')
  BY <1>2 DEF Desk!HandleOrder, DeskInv, DeskFeedback
<1>4. QED
  BY <1>1, <1>2, <1>3, DeskStep DEF Desk!HandleOrder, DeskInv, Desk!queries

LEMMA DeskColleague == ASSUME DeskInv, Desk!Colleague PROVE DeskInv'
<1>1. DeskMoves /\ (rTask'.reviewed \/ rTask'.reviewed = rTask.reviewed)
  BY DeskRows DEF Desk!Colleague
<1>2. rTask.reviewed => rTask'.reviewed
  BY DeskRows DEF Desk!Colleague
<1>3. DeskFeedback(rTask', rNote', rFeedback')
  BY <1>1, <1>2 DEF Desk!Colleague, DeskInv, DeskFeedback
<1>4. QED
  BY <1>1, <1>3, DeskStep DEF Desk!Colleague, DeskInv, Desk!queries

LEMMA DeskIdle ==
    ASSUME DeskInv, NEW k \in Desk!Mutations, rCall' = [rCall EXCEPT ![k] = Desk!Idle]
    PROVE  DeskCalls(rTask, rCall')
<1>1. DeskReal(rTask, Desk!Idle.seen)
  BY DeskBlank DEF DeskReal, DeskInv, Desk!Row
<1>2. QED
  BY <1>1, DeskBlank, DeskCallStep

LEMMA DeskReplies ==
    ASSUME DeskInv, NEW k \in Desk!Mutations,
           Desk!LoseCall(k) \/ Desk!Succeeded(k) \/ Desk!Failed(k)
    PROVE  DeskInv'
<1>1. CASE Desk!LoseCall(k)
  <2>1. DeskCalls(rTask, rCall')
    BY <1>1, DeskAnswer DEF Desk!LoseCall
  <2>2. QED
    BY <1>1, <2>1, DeskStep
    DEF Desk!LoseCall, DeskInv, DeskMoves, Desk!queries, Desk!server
<1>2. CASE Desk!Succeeded(k)
  <2>1. DeskCalls(rTask, rCall')
    BY <1>2, DeskIdle DEF Desk!Succeeded
  <2>2. Desk!Cleared(k) \in Desk!Form
    <3>1. rCall["draw"].made \in SUBSET Notes
      BY DeskBlank DEF DeskInv, DeskCalls, Desk!Call
    <3>2. Desk!Listed(rForm) \in Desk!Form
      BY <3>1 DEF Desk!Listed, DeskInv, Desk!Form
    <3>3. QED
      BY <3>2 DEF Desk!Cleared, DeskInv
  <2>3. QED
    BY <1>2, <2>1, <2>2, DeskStep DEF Desk!Succeeded, DeskInv, DeskMoves, Desk!server
<1>3. CASE Desk!Failed(k)
  <2>1. DeskCalls(rTask, rCall')
    BY <1>3, DeskIdle DEF Desk!Failed
  <2>2. QED
    BY <1>3, <2>1, DeskStep DEF Desk!Failed, DeskInv, DeskMoves, Desk!queries, Desk!server
<1>4. QED
  BY <1>1, <1>2, <1>3

LEMMA DeskFetches ==
    ASSUME DeskInv, Desk!Fetch \/ Desk!Arrive \/ Desk!FetchFails
    PROVE  DeskInv'
<1>1. CASE Desk!Fetch
  BY <1>1, DeskStep DEF Desk!Fetch, DeskInv, DeskMoves, Desk!server
<1>2. CASE Desk!Arrive
  <2>1. rForm' \in Desk!Form /\ DeskCalls(rTask, rCall')
    BY <1>2, DeskBlank, DeskUnmounted DEF Desk!Arrive, DeskInv
  <2>2. QED
    BY <1>2, <2>1, DeskStep DEF Desk!Arrive, DeskInv, DeskMoves, Desk!server
<1>3. CASE Desk!FetchFails
  BY <1>3, DeskBlank, DeskUnmounted, DeskStep
  DEF Desk!FetchFails, DeskInv, DeskMoves, Desk!server
<1>4. QED
  BY <1>1, <1>2, <1>3

LEMMA DeskNext == DeskInv /\ [Desk!Next]_deskVars => DeskInv'
<1> SUFFICES ASSUME DeskInv, [Desk!Next]_deskVars
             PROVE  DeskInv'
  OBVIOUS
<1>1. CASE UNCHANGED deskVars
  BY <1>1 DEF deskVars, DeskInv, DeskFeedback, DeskCalls
<1>2. CASE Desk!Next
  BY <1>2, DeskClicks, DeskSends, DeskReview, DeskDraw, DeskOrder, DeskColleague, DeskReplies,
     DeskFetches
  DEF Desk!Next
<1>3. QED
  BY <1>1, <1>2

LEMMA DeskTypes == DeskInv => Desk!TypeOK
<1> SUFFICES ASSUME DeskInv
             PROVE  Desk!TypeOK
  OBVIOUS
<1>1. rTask \in Desk!Row /\ rAt \in Desk!Pages /\ rFetch \in Desk!Row /\ rForm \in Desk!Form
  BY DEF DeskInv
<1>2. rData \in [Desk!Pages -> Desk!Row] /\ rBroken \in BOOLEAN
  BY DEF DeskInv
<1>3. rFeedback \in SUBSET Notes /\ rNote \in [Notes -> {"none", "draft", "published"}]
  BY DEF DeskInv, DeskFeedback
<1>4. rCall \in [Desk!Mutations -> Desk!Call]
  BY DEF DeskInv, DeskCalls
<1>5. QED
  BY <1>1, <1>2, <1>3, <1>4 DEF Desk!TypeOK

\* A request that changes the task names its version, so it is the task that was
\* shown.
LEMMA DeskSeen == DeskInv /\ [Desk!Next]_deskVars => Desk!ReviewsSeen
<1> SUFFICES ASSUME DeskInv, [Desk!Next]_deskVars
             PROVE  Desk!ReviewsSeen
  OBVIOUS
<1>1. {n \in Notes : rNote'[n] = "published"} = rFeedback'
  BY DeskNext DEF DeskInv, DeskFeedback
<1>2. ASSUME NEW k \in Desk!Mutations, rCall[k].stage = "sent", rCall'[k].stage = "done",
             rTask' # rTask
      PROVE  rTask = rCall[k].seen
  <2>1. rCall' # rCall /\ rCall'[k] # rCall[k]
    BY <1>2
  <2>2. Desk!HandleReview \/ \E j \in {"override", "cancel"} : Desk!HandleOrder(j)
    BY <1>2, <2>1 DEF deskVars, Desk!server, Desk!queries, Desk!Next, Desk!Go, Desk!Decide,
        Desk!Mark, Desk!SaveMarkers, Desk!SubmitReview, Desk!Order, Desk!Send,
        Desk!HandleDraw, Desk!Colleague, Desk!LoseCall, Desk!Succeeded, Desk!Failed,
        Desk!Fetch, Desk!Arrive, Desk!FetchFails
  <2>3. PICK j \in Desk!Mutations : Desk!Permitted(j) /\ Desk!Answer(j, "done", {})
    BY <1>2, <2>2, DeskBlank DEF Desk!HandleReview, Desk!HandleOrder, Desk!server
  <2>4. j = k
    BY <2>1, <2>3 DEF Desk!Answer, DeskInv, DeskCalls
  <2>5. rCall[k].seen.version = rTask.version /\ DeskReal(rTask, rCall[k].seen)
    BY <2>3, <2>4 DEF Desk!Permitted, DeskInv, DeskCalls
  <2>6. QED
    BY <2>5 DEF DeskReal
<1>3. QED
  BY <1>1, <1>2 DEF Desk!ReviewsSeen

-----------------------------------------------------------------------------
(* Requests for help: the invariant.                                        *)

\* A request in a state that its version can have: not there before the first.
HelpRow == {r \in Help!Row : /\ r.state = "absent" <=> r.version = 0
                             /\ r.state = "queued" => r.version = 1
                             /\ r.state = "accepted" => r.version = 2}

\* As long as the version is that of the request m, s is the request.
HelpReal(m, s) == s.version <= m.version /\ (s.version = m.version => s = m)

\* The text stands among the messages.
Says(messages, text) == \E i \in DOMAIN messages : messages[i] = text

\* What has been cached of the request m.
HelpView(m, w) == w \in Help!View /\ HelpReal(m, w.row)

\* A call about the request m with the messages t, of which w is on the screen:
\* a reply that was answered stands in the thread, and once its promise is resolved
\* on the screen, too, or an error does.
HelpCall(m, t, w, c) ==
    /\ c \in Help!Call /\ HelpReal(m, c.seen)
    /\ c.kind = "send" => c.text \in Texts
    /\ c.kind = "send" /\ c.stage \in {"done", "refresh", "settled"} => Says(t, c.text)
    /\ c.stage \in {"refresh", "settled"} => c.kind = "send"
    /\ c.stage = "settled" => Says(w.said, c.text) \/ "messages" \in w.broken

HelpServer(requests, threads) ==
    /\ requests \in [Help!Ids -> HelpRow] /\ threads \in [Help!Ids -> Seq(Texts)]
    /\ \A p, q \in Help!Ids : Help!Open(requests[p]) /\ Help!Open(requests[q]) => p = q

HelpCreate == [stage: {"none", "sent", "done", "failed"}, got: Help!Ids \cup {0}]

HelpInv ==
    /\ HelpServer(hRequest, hThread)
    /\ hRole \in {"learner", "counselor"} /\ hList \in Help!List
    /\ hSelected \in Help!Ids \cup {0} /\ hDraft \in Texts \cup {Blank}
    /\ hCreate \in HelpCreate
    /\ hView \in [Help!Ids -> Help!View] /\ hCall \in [Help!Ids -> Help!Call]
    /\ \A q \in Help!Ids : /\ HelpView(hRequest[q], hView[q])
                           /\ HelpCall(hRequest[q], hThread[q], hView[q], hCall[q])

LEMMA HelpBlank ==
    /\ Help!NoRow \in HelpRow /\ Help!New \in HelpRow /\ ~Help!Open(Help!NoRow)
    /\ Help!NoRow.version = 0 /\ Help!NoRow.state = "absent" /\ Help!New.version = 1
    /\ HelpRow \subseteq Help!Row /\ \A r \in HelpRow : r.version \in Nat
    /\ Help!Empty \in Help!List
    /\ Help!NoView \in Help!View /\ Help!NoView.row = Help!NoRow
    /\ Help!Idle \in Help!Call /\ Help!Idle.seen = Help!NoRow /\ Help!Idle.stage = "none"
    /\ Help!Idle.kind = "none"
    /\ Help!Ids \subseteq Nat /\ 1 \in Help!Ids /\ 0 \notin Help!Ids
<1>1. Help!NoRow \in HelpRow /\ Help!New \in HelpRow /\ ~Help!Open(Help!NoRow)
  BY DEF Help!NoRow, Help!New, HelpRow, Help!Row, Help!States, Help!Open
<1>2. /\ Help!NoRow.version = 0 /\ Help!NoRow.state = "absent" /\ Help!New.version = 1
      /\ HelpRow \subseteq Help!Row
  BY DEF Help!NoRow, Help!New, HelpRow
<1>3. \A r \in HelpRow : r.version \in Nat
  BY DEF HelpRow, Help!Row
<1>4. Help!Empty \in Help!List
  BY DEF Help!Empty, Help!List
<1>5. Help!NoView \in Help!View /\ Help!NoView.row = Help!NoRow
  BY <1>1, <1>2 DEF Help!NoView, Help!View
<1>6. /\ Help!Idle \in Help!Call /\ Help!Idle.seen = Help!NoRow /\ Help!Idle.stage = "none"
      /\ Help!Idle.kind = "none"
  BY <1>1, <1>2 DEF Help!Idle, Help!Call
<1>7. Help!Ids \subseteq Nat /\ 1 \in Help!Ids /\ 0 \notin Help!Ids
  BY PagesAssumption DEF Help!Ids
<1>8. QED
  BY <1>1, <1>2, <1>3, <1>4, <1>5, <1>6, <1>7

\* What was read of a request, or nothing, is real.
LEMMA HelpReads ==
    ASSUME NEW m \in HelpRow
    PROVE  HelpReal(m, m) /\ HelpReal(m, Help!NoRow)
<1>1. m.version \in Nat /\ (m.version = 0 <=> m.state = "absent") /\ m \in Help!Row
  BY DEF HelpRow, Help!Row
<1>2. m.version = 0 => m = Help!NoRow
  BY <1>1 DEF Help!Row, Help!NoRow
<1>3. QED
  BY <1>1, <1>2, HelpBlank DEF HelpReal

LEMMA HelpIdle ==
    ASSUME NEW m \in HelpRow, NEW t, NEW w
    PROVE  HelpCall(m, t, w, Help!Idle)
BY HelpReads, HelpBlank DEF HelpCall

LEMMA HelpInit == Help!Init => HelpInv
<1> SUFFICES ASSUME Help!Init
             PROVE  HelpInv
  OBVIOUS
<1>1. hRequest = [q \in Help!Ids |-> IF q = 1 THEN Help!New ELSE Help!NoRow]
  BY DEF Help!Init
<1>2. hRequest \in [Help!Ids -> HelpRow]
  BY <1>1, HelpBlank
<1>3. \A q \in Help!Ids : Help!Open(hRequest[q]) => q = 1
  BY <1>1, HelpBlank
<1>4. hThread \in [Help!Ids -> Seq(Texts)]
  BY DEF Help!Init
<1>5. HelpServer(hRequest, hThread)
  BY <1>2, <1>3, <1>4 DEF HelpServer
<1>6. hView = [q \in Help!Ids |-> Help!NoView] /\ hCall = [q \in Help!Ids |-> Help!Idle]
  BY DEF Help!Init
<1>7. \A q \in Help!Ids : /\ HelpView(hRequest[q], hView[q])
                          /\ HelpCall(hRequest[q], hThread[q], hView[q], hCall[q])
  BY <1>2, <1>6, HelpReads, HelpIdle, HelpBlank DEF HelpView
<1>8. hCreate \in HelpCreate
  BY DEF Help!Init, HelpCreate
<1>9. /\ hRole \in {"learner", "counselor"} /\ hList \in Help!List
      /\ hSelected \in Help!Ids \cup {0} /\ hDraft \in Texts \cup {Blank}
  BY HelpBlank DEF Help!Init
<1>10. QED
  BY <1>5, <1>6, <1>7, <1>8, <1>9, HelpBlank DEF HelpInv

\* The greatest of finitely many numbers.
LEMMA Greatest ==
    ASSUME NEW n \in Nat, NEW S \in SUBSET (0..n), S # {}
    PROVE  \E x \in S : \A y \in S : x >= y
<1> DEFINE T == {n - y : y \in S}
<1>1. T \in SUBSET Nat /\ T # {}
  <2>1. \A y \in S : n - y \in Nat
    OBVIOUS
  <2>2. \A z \in T : z \in Nat
    BY <2>1
  <2>3. PICK y \in S : TRUE
    OBVIOUS
  <2>4. n - y \in T
    OBVIOUS
  <2>5. QED
    BY <2>2, <2>4
<1>2. PICK x \in T : \A y \in T : x <= y
  BY <1>1, Least
<1>3. PICK g \in S : x = n - g
  BY <1>2
<1>4. \A y \in S : n - g <= n - y
  BY <1>2, <1>3
<1>5. QED
  BY <1>3, <1>4

\* What is shown is a request, or nothing.
LEMMA HelpShown ==
    ASSUME HelpInv, NEW choice \in Help!Ids \cup {0}, NEW rows \in Help!List
    PROVE  Help!ShownOf(choice, rows) \in Help!Ids \cup {0}
<1> DEFINE S == {0} \cup rows.open
<1>1. S \in SUBSET (0..MaxRequests) /\ S # {}
  BY PagesAssumption DEF Help!List, Help!Ids
<1>2. \E x \in S : \A y \in S : x >= y
  BY <1>1, PagesAssumption, Greatest
<1>3. Help!Max(S) \in S
  BY <1>2 DEF Help!Max
<1>4. Help!Max(S) \in Help!Ids \cup {0}
  BY <1>3 DEF Help!List
<1>5. Help!ShownOf(choice, rows) \in {choice, Help!Max(S)}
  BY DEF Help!ShownOf, Help!Active
<1>6. QED
  BY <1>4, <1>5

\* What is created is a request that was not there.
LEMMA HelpCreatable ==
    ASSUME HelpInv, Help!Creatable # {}
    PROVE  Help!Min(Help!Creatable) \in Help!Creatable
<1>1. Help!Creatable \in SUBSET Nat
  BY HelpBlank DEF Help!Creatable
<1>2. \E x \in Help!Creatable : \A y \in Help!Creatable : x <= y
  BY <1>1, Least
<1>3. QED
  BY <1>2 DEF Help!Min

\* The requests stay or move to later versions, and the threads keep their messages.
HelpMoves ==
    /\ HelpServer(hRequest', hThread')
    /\ \A q \in Help!Ids :
          /\ hRequest'[q] = hRequest[q] \/ hRequest'[q].version > hRequest[q].version
          /\ \A text \in Texts : Says(hThread[q], text) => Says(hThread'[q], text)

LEMMA HelpGrows ==
    ASSUME HelpInv, HelpMoves, NEW q \in Help!Ids, NEW w
    PROVE  /\ HelpView(hRequest[q], w) => HelpView(hRequest'[q], w)
           /\ \A c : HelpCall(hRequest[q], hThread[q], w, c) =>
                         HelpCall(hRequest'[q], hThread'[q], w, c)
<1>1. hRequest[q].version \in Nat /\ hRequest'[q].version \in Nat
  BY HelpBlank DEF HelpInv, HelpMoves, HelpServer
<1>2. ASSUME NEW s \in Help!Row, HelpReal(hRequest[q], s)
      PROVE  HelpReal(hRequest'[q], s)
  <2>1. s.version \in Nat
    BY DEF Help!Row
  <2>2. hRequest'[q] = hRequest[q] \/ hRequest'[q].version > hRequest[q].version
    BY DEF HelpMoves
  <2>3. QED
    BY <1>1, <1>2, <2>1, <2>2 DEF HelpReal
<1>3. HelpView(hRequest[q], w) => HelpView(hRequest'[q], w)
  BY <1>2 DEF HelpView, Help!View
<1>4. ASSUME NEW c, HelpCall(hRequest[q], hThread[q], w, c)
      PROVE  HelpCall(hRequest'[q], hThread'[q], w, c)
  <2>1. c \in Help!Call /\ c.seen \in Help!Row
    BY <1>4 DEF HelpCall, Help!Call
  <2>2. HelpReal(hRequest'[q], c.seen)
    BY <1>2, <1>4, <2>1 DEF HelpCall
  <2>3. c.kind = "send" => (Says(hThread[q], c.text) => Says(hThread'[q], c.text))
    BY <1>4 DEF HelpCall, HelpMoves
  <2>4. QED
    BY <1>4, <2>1, <2>2, <2>3 DEF HelpCall
<1>5. QED
  BY <1>3, <1>4

\* A step of others: what the page has is as real as before.
LEMMA HelpElsewhere ==
    ASSUME HelpInv, HelpMoves, hCreate' \in HelpCreate,
           UNCHANGED <<hRole, hList, hView, hSelected, hDraft, hCall>>
    PROVE  HelpInv'
BY HelpGrows DEF HelpInv, HelpMoves

\* A step of the page that touches one call at most.
LEMMA HelpOne ==
    ASSUME HelpInv, UNCHANGED <<hRole, hRequest, hThread, hList, hView, hSelected>>,
           hDraft' \in Texts \cup {Blank}, hCreate' \in HelpCreate,
           NEW q \in Help!Ids, NEW c, HelpCall(hRequest[q], hThread[q], hView[q], c),
           hCall' = [hCall EXCEPT ![q] = c]
    PROVE  HelpInv'
<1>1. c \in Help!Call
  BY DEF HelpCall
<1>2. hCall' \in [Help!Ids -> Help!Call]
  BY <1>1 DEF HelpInv
<1>3. \A p \in Help!Ids : HelpCall(hRequest[p], hThread[p], hView[p], hCall'[p])
  BY DEF HelpInv
<1>4. QED
  BY <1>2, <1>3 DEF HelpInv

\* A call of the page moves on to another stage.
LEMMA HelpStaged ==
    ASSUME HelpInv, NEW q \in Help!Ids, NEW m, NEW t, NEW w,
           HelpCall(m, t, w, hCall[q]), NEW stage \in {"sent", "done", "failed", "refresh", "settled"},
           stage \in {"done", "refresh", "settled"} =>
               (hCall[q].kind = "send" => Says(t, hCall[q].text)),
           stage \in {"refresh", "settled"} => hCall[q].kind = "send",
           stage = "settled" => Says(w.said, hCall[q].text) \/ "messages" \in w.broken
    PROVE  HelpCall(m, t, w, [hCall[q] EXCEPT !.stage = stage])
<1> DEFINE c == [hCall[q] EXCEPT !.stage = stage]
<1>1. hCall[q] \in Help!Call
  BY DEF HelpInv
<1>2. /\ c \in Help!Call /\ c.kind = hCall[q].kind /\ c.seen = hCall[q].seen
      /\ c.text = hCall[q].text /\ c.stage = stage
  BY <1>1 DEF Help!Call
<1> HIDE DEF c
<1>3. HelpCall(m, t, w, c)
  BY <1>2 DEF HelpCall
<1>4. QED
  BY <1>3 DEF c

-----------------------------------------------------------------------------
(* Requests for help: the steps of the page.                                *)

LEMMA HelpType == ASSUME HelpInv, NEW text \in Texts \cup {Blank}, Help!Type(text) PROVE HelpInv'
BY DEF Help!Type, HelpInv, HelpServer

LEMMA HelpAsk == ASSUME HelpInv, Help!Ask PROVE HelpInv'
<1>1. hCreate' \in HelpCreate
  BY DEF Help!Ask, HelpInv, HelpCreate
<1>2. QED
  BY <1>1 DEF Help!Ask, HelpInv, HelpServer

\* A click sends what is on the screen.
LEMMA HelpBegin ==
    ASSUME HelpInv, NEW kind \in Help!Actions \cup {"send"}, NEW text \in Texts \cup {Blank},
           kind = "send" => text \in Texts, Help!Begin(kind, text)
    PROVE  HelpInv'
<1> DEFINE q == Help!Shown
           c == [kind |-> kind, seen |-> hView[q].row, text |-> text, here |-> TRUE,
                 stage |-> "sent"]
<1>1. q \in Help!Ids
  BY HelpShown DEF Help!Begin, Help!Detail, Help!Shown, HelpInv
<1>2. /\ hCall' = [hCall EXCEPT ![q] = c]
      /\ UNCHANGED <<hRole, hRequest, hThread, hList, hView, hSelected, hDraft, hCreate>>
  BY DEF Help!Begin
<1> HIDE DEF q
<1>3. hView[q].row \in Help!Row /\ HelpReal(hRequest[q], hView[q].row)
  BY <1>1 DEF HelpInv, HelpView, Help!View
<1>4. /\ c \in Help!Call /\ c.kind = kind /\ c.seen = hView[q].row /\ c.text = text
      /\ c.stage = "sent"
  BY <1>3 DEF Help!Call, Help!Actions
<1> HIDE DEF c
<1>5. HelpCall(hRequest[q], hThread[q], hView[q], c)
  BY <1>3, <1>4 DEF HelpCall
<1>6. QED
  BY <1>1, <1>2, <1>5, HelpOne DEF HelpInv

LEMMA HelpClicks ==
    ASSUME HelpInv, Help!Reply \/ \E kind \in Help!Actions : Help!Act(kind)
    PROVE  HelpInv'
<1>1. CASE Help!Reply
  <2>1. hDraft \in Texts /\ Help!Begin("send", hDraft)
    BY <1>1 DEF Help!Reply, HelpInv
  <2>2. QED
    BY <2>1, HelpBegin
<1>2. CASE \E kind \in Help!Actions : Help!Act(kind)
  <2>1. PICK kind \in Help!Actions : Help!Act(kind)
    BY <1>2
  <2>2. Help!Begin(kind, Blank) /\ kind # "send"
    BY <2>1 DEF Help!Act, Help!Actions
  <2>3. QED
    BY <2>2, HelpBegin
<1>3. QED
  BY <1>1, <1>2

\* Another request is shown.
LEMMA HelpShow ==
    ASSUME HelpInv, NEW choice \in Help!Ids \cup {0}, NEW rows \in Help!List,
           Help!Show(choice, rows), hCreate' \in HelpCreate,
           UNCHANGED <<hRole, hRequest, hThread, hView>>
    PROVE  HelpInv'
<1>1. ASSUME NEW q \in Help!Ids
      PROVE  HelpCall(hRequest[q], hThread[q], hView[q], [hCall[q] EXCEPT !.here = FALSE])
  <2> DEFINE c == [hCall[q] EXCEPT !.here = FALSE]
  <2>1. hCall[q] \in Help!Call /\ HelpCall(hRequest[q], hThread[q], hView[q], hCall[q])
    BY DEF HelpInv
  <2>2. /\ c \in Help!Call /\ c.kind = hCall[q].kind /\ c.seen = hCall[q].seen
        /\ c.text = hCall[q].text /\ c.stage = hCall[q].stage
    BY <2>1 DEF Help!Call
  <2> HIDE DEF c
  <2>3. HelpCall(hRequest[q], hThread[q], hView[q], c)
    BY <2>1, <2>2 DEF HelpCall
  <2>4. QED
    BY <2>3 DEF c
<1>2. \A q \in Help!Ids : HelpCall(hRequest[q], hThread[q], hView[q], Help!Idle)
  BY HelpIdle DEF HelpInv, HelpServer
<1>3. CASE UNCHANGED <<hDraft, hCall>>
  BY <1>3 DEF Help!Show, HelpInv, HelpServer
<1>4. CASE /\ hDraft' = Blank
           /\ hCall' = [q \in Help!Ids |->
                  CASE hCall[q].stage \in {"none", "refresh", "settled"} -> Help!Idle
                    [] OTHER -> [hCall[q] EXCEPT !.here = FALSE]]
  <2>1. ASSUME NEW q \in Help!Ids
        PROVE  HelpCall(hRequest[q], hThread[q], hView[q], hCall'[q])
    <3>1. hCall'[q] \in {Help!Idle, [hCall[q] EXCEPT !.here = FALSE]}
      BY <1>4
    <3>2. QED
      BY <1>1, <1>2, <3>1
  <2>2. \A q \in Help!Ids : hCall'[q] \in Help!Call
    BY <2>1 DEF HelpCall
  <2>3. hCall' \in [Help!Ids -> Help!Call]
    BY <1>4, <2>2
  <2>4. QED
    BY <1>4, <2>1, <2>3 DEF Help!Show, HelpInv, HelpServer
<1>5. QED
  BY <1>3, <1>4, Zenon DEF Help!Show

LEMMA HelpShows ==
    ASSUME HelpInv, Help!Created \/ Help!ReadList \/ \E q \in Help!Ids : Help!Select(q)
    PROVE  HelpInv'
<1>1. CASE Help!Created
  <2>1. hCreate' \in HelpCreate
    BY <1>1 DEF Help!Created, HelpCreate
  <2>2. CASE hCreate.stage = "done"
    <3>1. hCreate.got \in Help!Ids \cup {0} /\ hList \in Help!List
      BY DEF HelpInv, HelpCreate
    <3>2. QED
      BY <1>1, <2>1, <2>2, <3>1, HelpShow DEF Help!Created
  <2>3. CASE hCreate.stage # "done"
    BY <1>1, <2>1, <2>3 DEF Help!Created, HelpInv, HelpServer
  <2>4. QED
    BY <2>2, <2>3
<1>2. CASE Help!ReadList
  <2> DEFINE rows == [ids |-> {q \in Help!Ids : hRequest[q] # Help!NoRow},
                      open |-> {q \in Help!Ids : Help!Open(hRequest[q])}]
  <2>1. rows \in Help!List
    BY DEF Help!List
  <2>2. Help!Show(hSelected, rows) /\ UNCHANGED <<hRole, hRequest, hThread, hView, hCreate>>
    BY <1>2 DEF Help!ReadList
  <2> HIDE DEF rows
  <2>3. QED
    BY <2>1, <2>2, HelpShow DEF HelpInv
<1>3. CASE \E q \in Help!Ids : Help!Select(q)
  BY <1>3, HelpShow DEF Help!Select, HelpInv
<1>4. QED
  BY <1>1, <1>2, <1>3

-----------------------------------------------------------------------------
(* Requests for help: the server, the answers and the queries.              *)

\* An action is taken from an open request only, and leads to its next version.
LEMMA HelpChanged ==
    ASSUME NEW row \in HelpRow, NEW kind \in Help!Actions, row.state \in Help!From[kind]
    PROVE  /\ Help!Changed(row, kind) \in HelpRow
           /\ Help!Changed(row, kind).version = row.version + 1
           /\ Help!Open(row)
<1>1. row.version \in Nat /\ row.state \in Help!States
  BY DEF HelpRow, Help!Row
<1>2. CASE kind = "accept"
  BY <1>1, <1>2 DEF Help!From, Help!To, Help!Changed, HelpRow, Help!Row, Help!States, Help!Open
<1>3. CASE kind = "resolve"
  BY <1>1, <1>3 DEF Help!From, Help!To, Help!Changed, HelpRow, Help!Row, Help!States, Help!Open
<1>4. CASE kind = "cancel"
  BY <1>1, <1>4 DEF Help!From, Help!To, Help!Changed, HelpRow, Help!Row, Help!States, Help!Open
<1>5. QED
  BY <1>2, <1>3, <1>4 DEF Help!Actions

LEMMA HelpActed ==
    ASSUME HelpInv, NEW q \in Help!Ids, NEW kind \in Help!Actions,
           hRequest[q].state \in Help!From[kind],
           hRequest' = [hRequest EXCEPT ![q] = Help!Changed(hRequest[q], kind)],
           hThread' = hThread
    PROVE  HelpMoves
<1> DEFINE row == Help!Changed(hRequest[q], kind)
<1>1. row \in HelpRow /\ row.version = hRequest[q].version + 1 /\ Help!Open(hRequest[q])
  BY HelpChanged DEF HelpInv, HelpServer
<1>2. hRequest[q].version \in Nat
  BY HelpBlank DEF HelpInv, HelpServer
<1> HIDE DEF row
<1>3. hRequest' \in [Help!Ids -> HelpRow]
  BY <1>1 DEF HelpInv, HelpServer, row
<1>4. \A p \in Help!Ids : Help!Open(hRequest'[p]) => p = q
  BY <1>1 DEF HelpInv, HelpServer
<1>5. \A p \in Help!Ids : hRequest'[p] = hRequest[p] \/ hRequest'[p].version > hRequest[p].version
  BY <1>1, <1>2 DEF HelpInv, HelpServer, row
<1>6. HelpServer(hRequest', hThread')
  BY <1>3, <1>4 DEF HelpInv, HelpServer
<1>7. QED
  BY <1>5, <1>6 DEF HelpMoves

LEMMA HelpMade == ASSUME HelpInv, Help!Make, hThread' = hThread PROVE HelpMoves
<1> DEFINE q == Help!Min(Help!Creatable)
<1>1. q \in Help!Creatable
  BY HelpCreatable DEF Help!Make
<1>2. hRequest' = [hRequest EXCEPT ![q] = Help!New]
  BY DEF Help!Make
<1> HIDE DEF q
<1>3. /\ q \in Help!Ids /\ hRequest[q].state = "absent"
      /\ \A p \in Help!Ids : ~Help!Open(hRequest[p])
  BY <1>1 DEF Help!Creatable
<1>4. hRequest[q].version = 0
  BY <1>3 DEF HelpInv, HelpServer, HelpRow
<1>5. hRequest' \in [Help!Ids -> HelpRow]
  BY <1>2, <1>3, HelpBlank DEF HelpInv, HelpServer
<1>6. \A p \in Help!Ids : Help!Open(hRequest'[p]) => p = q
  BY <1>2, <1>3 DEF HelpInv, HelpServer
<1>7. \A p \in Help!Ids : hRequest'[p] = hRequest[p] \/ hRequest'[p].version > hRequest[p].version
  BY <1>2, <1>3, <1>4, HelpBlank DEF HelpInv, HelpServer
<1>8. HelpServer(hRequest', hThread')
  BY <1>5, <1>6 DEF HelpInv, HelpServer
<1>9. QED
  BY <1>7, <1>8 DEF HelpMoves

\* An answer about a request that moved, or got the message.
LEMMA HelpAnswer ==
    ASSUME HelpInv, HelpMoves, NEW q \in Help!Ids, NEW stage \in {"done", "failed"},
           stage = "done" /\ hCall[q].kind = "send" => Says(hThread'[q], hCall[q].text),
           Help!Answer(q, stage)
    PROVE  HelpInv'
<1> DEFINE c == [hCall[q] EXCEPT !.stage = stage]
<1>1. \A p \in Help!Ids : /\ HelpView(hRequest'[p], hView[p])
                          /\ HelpCall(hRequest'[p], hThread'[p], hView[p], hCall[p])
  BY HelpGrows DEF HelpInv
<1>2. HelpCall(hRequest'[q], hThread'[q], hView[q], c)
  BY <1>1, HelpStaged
<1>3. hCall' = [hCall EXCEPT ![q] = c]
  BY DEF Help!Answer
<1> HIDE DEF c
<1>4. hCall' \in [Help!Ids -> Help!Call]
  BY <1>2, <1>3 DEF HelpCall, HelpInv
<1>5. \A p \in Help!Ids : HelpCall(hRequest'[p], hThread'[p], hView[p], hCall'[p])
  BY <1>1, <1>2, <1>3 DEF HelpInv
<1>6. QED
  BY <1>1, <1>4, <1>5 DEF HelpInv, HelpMoves, Help!Answer

LEMMA HelpSame == ASSUME HelpInv, UNCHANGED <<hRequest, hThread>> PROVE HelpMoves
BY DEF HelpInv, HelpServer, HelpMoves

LEMMA HelpHandles ==
    ASSUME HelpInv, NEW q \in Help!Ids,
           Help!HandleAction(q) \/ Help!HandleSend(q) \/ Help!LoseCall(q)
    PROVE  HelpInv'
<1>1. ASSUME UNCHANGED <<hRequest, hThread>>, Help!Answer(q, "failed")
      PROVE  HelpInv'
  BY <1>1, HelpSame, HelpAnswer
<1>2. CASE Help!HandleAction(q)
  <2> DEFINE kind == hCall[q].kind
  <2>1. kind \in Help!Actions /\ kind # "send" /\ UNCHANGED hThread
    BY <1>2 DEF Help!HandleAction, Help!Actions
  <2>2. CASE Help!Permitted(q) /\ hRequest[q].state \in Help!From[kind]
    <3>1. /\ hRequest' = [hRequest EXCEPT ![q] = Help!Changed(hRequest[q], kind)]
          /\ Help!Answer(q, "done")
      BY <1>2, <2>2 DEF Help!HandleAction
    <3>2. HelpMoves
      BY <2>1, <2>2, <3>1, HelpActed
    <3>3. QED
      BY <2>1, <3>1, <3>2, HelpAnswer
  <2>3. CASE ~(Help!Permitted(q) /\ hRequest[q].state \in Help!From[kind])
    BY <1>1, <1>2, <2>3 DEF Help!HandleAction
  <2>4. QED
    BY <2>2, <2>3
<1>3. CASE Help!HandleSend(q)
  <2> DEFINE t == Append(hThread[q], hCall[q].text)
  <2>1. hCall[q].text \in Texts /\ hThread[q] \in Seq(Texts)
    BY <1>3 DEF Help!HandleSend, HelpInv, HelpCall, HelpServer
  <2>2. /\ t \in Seq(Texts) /\ Says(t, hCall[q].text)
        /\ \A text \in Texts : Says(hThread[q], text) => Says(t, text)
    <3>1. /\ DOMAIN t = 1..(Len(hThread[q]) + 1) /\ DOMAIN hThread[q] = 1..Len(hThread[q])
          /\ Len(hThread[q]) \in Nat /\ t[Len(hThread[q]) + 1] = hCall[q].text
          /\ \A i \in 1..Len(hThread[q]) : t[i] = hThread[q][i]
          /\ t \in Seq(Texts)
      BY <2>1
    <3> HIDE DEF t
    <3>2. QED
      BY <3>1 DEF Says
  <2>3. CASE Help!Open(hRequest[q])
    <3>1. hThread' = [hThread EXCEPT ![q] = t] /\ Help!Answer(q, "done") /\ hRequest' = hRequest
      BY <1>3, <2>3 DEF Help!HandleSend
    <3> HIDE DEF t
    <3>2. hThread'[q] = t /\ hThread' \in [Help!Ids -> Seq(Texts)]
      BY <2>2, <3>1 DEF HelpInv, HelpServer
    <3>3. \A p \in Help!Ids, text \in Texts : Says(hThread[p], text) => Says(hThread'[p], text)
      BY <2>2, <3>1 DEF HelpInv, HelpServer
    <3>4. HelpMoves
      BY <3>1, <3>2, <3>3 DEF HelpMoves, HelpInv, HelpServer
    <3>5. QED
      BY <2>2, <3>1, <3>2, <3>4, HelpAnswer
  <2>4. CASE ~Help!Open(hRequest[q])
    BY <1>1, <1>3, <2>4 DEF Help!HandleSend
  <2>5. QED
    BY <2>3, <2>4
<1>4. CASE Help!LoseCall(q)
  BY <1>1, <1>4 DEF Help!LoseCall
<1>5. QED
  BY <1>2, <1>3, <1>4

LEMMA HelpOthers == ASSUME HelpInv, Help!HandleCreate \/ Help!Elsewhere PROVE HelpInv'
<1>1. CASE Help!HandleCreate
  <2>1. HelpMoves
    BY <1>1, HelpMade, HelpSame DEF Help!HandleCreate
  <2>2. hCreate' \in HelpCreate
    <3>1. CASE Help!Make /\ hCreate' = [stage |-> "done", got |-> Help!Min(Help!Creatable)]
      <4>1. Help!Min(Help!Creatable) \in Help!Ids
        BY <3>1, HelpCreatable DEF Help!Make, Help!Creatable
      <4>2. QED
        BY <3>1, <4>1 DEF HelpCreate
    <3>2. CASE hCreate' = [hCreate EXCEPT !.stage = "failed"]
      BY <3>2 DEF HelpInv, HelpCreate
    <3>3. QED
      BY <1>1, <3>1, <3>2 DEF Help!HandleCreate
  <2>3. QED
    BY <1>1, <2>1, <2>2, HelpElsewhere DEF Help!HandleCreate
<1>2. CASE Help!Elsewhere
  <2>1. hThread' = hThread
    BY <1>2 DEF Help!Elsewhere
  <2>2. HelpMoves
    BY <1>2, <2>1, HelpMade, HelpActed DEF Help!Elsewhere
  <2>3. QED
    BY <1>2, <2>2, HelpElsewhere DEF Help!Elsewhere, HelpInv
<1>3. QED
  BY <1>1, <1>2

LEMMA HelpReplies ==
    ASSUME HelpInv, NEW q \in Help!Ids, Help!Done(q) \/ Help!Failed(q) \/ Help!Settle(q)
    PROVE  HelpInv'
<1>1. HelpCall(hRequest[q], hThread[q], hView[q], Help!Idle)
  BY HelpIdle DEF HelpInv, HelpServer
<1>2. HelpCall(hRequest[q], hThread[q], hView[q], hCall[q])
  BY DEF HelpInv
<1>3. CASE Help!Done(q)
  <2>1. HelpCall(hRequest[q], hThread[q], hView[q], Help!AfterDone(hCall[q]))
    <3>1. CASE hCall[q].kind = "send" /\ hCall[q].here
      <4>1. Says(hThread[q], hCall[q].text)
        BY <1>2, <1>3, <3>1 DEF Help!Done, HelpCall
      <4>2. HelpCall(hRequest[q], hThread[q], hView[q], [hCall[q] EXCEPT !.stage = "refresh"])
        BY <1>2, <3>1, <4>1, HelpStaged
      <4>3. QED
        BY <3>1, <4>2 DEF Help!AfterDone
    <3>2. CASE ~(hCall[q].kind = "send" /\ hCall[q].here)
      BY <1>1, <3>2 DEF Help!AfterDone
    <3>3. QED
      BY <3>1, <3>2
  <2>2. QED
    BY <1>3, <2>1, HelpOne DEF Help!Done, HelpInv
<1>4. CASE Help!Failed(q) \/ Help!Settle(q)
  BY <1>1, <1>4, HelpOne DEF Help!Failed, Help!Settle, HelpInv
<1>5. QED
  BY <1>3, <1>4

\* A GET of one request: it touches what is cached of it, and the call about it.
LEMMA HelpRead ==
    ASSUME HelpInv, NEW q \in Help!Ids, NEW w, NEW c, HelpView(hRequest[q], w),
           HelpCall(hRequest[q], hThread[q], w, c),
           hView' = [hView EXCEPT ![q] = w], hCall' = [hCall EXCEPT ![q] = c],
           UNCHANGED <<hRole, hRequest, hThread, hList, hSelected, hDraft, hCreate>>
    PROVE  HelpInv'
<1>1. w \in Help!View /\ c \in Help!Call
  BY DEF HelpView, HelpCall
<1>2. hView' \in [Help!Ids -> Help!View] /\ hCall' \in [Help!Ids -> Help!Call]
  BY <1>1 DEF HelpInv
<1>3. \A p \in Help!Ids : /\ HelpView(hRequest[p], hView'[p])
                          /\ HelpCall(hRequest[p], hThread[p], hView'[p], hCall'[p])
  BY DEF HelpInv
<1>4. QED
  BY <1>2, <1>3 DEF HelpInv, HelpServer

\* A call that waited for the messages is settled when they are there, or broken.
LEMMA HelpEnded ==
    ASSUME HelpInv, NEW q \in Help!Ids, NEW w,
           \/ w.said = hThread[q]
           \/ "messages" \in w.broken
    PROVE  HelpCall(hRequest[q], hThread[q], w, Help!Ended(hCall[q]))
<1>1. HelpCall(hRequest[q], hThread[q], hView[q], hCall[q])
  BY DEF HelpInv
<1>2. HelpCall(hRequest[q], hThread[q], w, hCall[q])
  BY <1>1 DEF HelpCall
<1>3. CASE hCall[q].stage = "refresh"
  <2>1. hCall[q].kind = "send" /\ Says(hThread[q], hCall[q].text)
    BY <1>1, <1>3 DEF HelpCall
  <2>2. HelpCall(hRequest[q], hThread[q], w, [hCall[q] EXCEPT !.stage = "settled"])
    BY <1>2, <2>1, HelpStaged
  <2>3. QED
    BY <1>3, <2>2 DEF Help!Ended
<1>4. CASE hCall[q].stage # "refresh"
  BY <1>2, <1>4 DEF Help!Ended
<1>5. QED
  BY <1>3, <1>4

LEMMA HelpReadRequest == ASSUME HelpInv, NEW q \in Help!Ids, Help!ReadRequest(q) PROVE HelpInv'
<1> DEFINE w == [row |-> hRequest[q], said |-> hView[q].said,
                 loaded |-> hView[q].loaded \cup {"request"},
                 broken |-> hView[q].broken \ {"request"}]
<1>1. hView[q] \in Help!View /\ hRequest[q] \in Help!Row /\ HelpReal(hRequest[q], hRequest[q])
  BY HelpReads, HelpBlank DEF HelpInv, HelpServer
<1>2. hView' = [hView EXCEPT ![q] = w]
  <2> DEFINE u1 == [hView[q] EXCEPT !.row = hRequest[q]]
             v1 == [hView EXCEPT ![q] = u1]
             u2 == [v1[q] EXCEPT !.loaded = hView[q].loaded \cup {"request"}]
             v2 == [v1 EXCEPT ![q] = u2]
             u3 == [v2[q] EXCEPT !.broken = hView[q].broken \ {"request"}]
  <2>1. hView' = [v2 EXCEPT ![q] = u3]
    BY DEF Help!ReadRequest
  <2>2. u1 = [row |-> hRequest[q], said |-> hView[q].said, loaded |-> hView[q].loaded,
              broken |-> hView[q].broken]
    BY <1>1 DEF Help!View
  <2>3. u1 \in Help!View /\ hView \in [Help!Ids -> Help!View]
    BY <1>1, <2>2 DEF Help!View, HelpInv
  <2> HIDE DEF u1
  <2>4. v1[q] = u1
    BY <2>3
  <2>5. u2 = [row |-> u1.row, said |-> u1.said, loaded |-> hView[q].loaded \cup {"request"},
              broken |-> u1.broken]
    <3>1. u2 = [u1 EXCEPT !.loaded = hView[q].loaded \cup {"request"}]
      BY <2>4, Zenon
    <3>2. \A x : [u1 EXCEPT !.loaded = x] =
                     [row |-> u1.row, said |-> u1.said, loaded |-> x, broken |-> u1.broken]
      BY <2>3 DEF Help!View
    <3>3. QED
      BY <3>1, <3>2, Zenon
  <2>6. u2 \in Help!View
    BY <1>1, <2>3, <2>5 DEF Help!View, Help!Queries
  <2> HIDE DEF u2
  <2>7. v2[q] = u2
    BY <2>3
  <2>8. u3 = [row |-> u2.row, said |-> u2.said, loaded |-> u2.loaded,
              broken |-> hView[q].broken \ {"request"}]
    <3>1. u3 = [u2 EXCEPT !.broken = hView[q].broken \ {"request"}]
      BY <2>7, Zenon
    <3>2. \A x : [u2 EXCEPT !.broken = x] =
                     [row |-> u2.row, said |-> u2.said, loaded |-> u2.loaded, broken |-> x]
      BY <2>6 DEF Help!View
    <3>3. QED
      BY <3>1, <3>2, Zenon
  <2>9. u3 = w
    BY <2>2, <2>5, <2>8
  <2> HIDE DEF u3, w
  <2>10. QED
    BY <2>1, <2>3, <2>9
<1>3. w \in Help!View
  BY <1>1 DEF Help!View, Help!Queries
<1>4. /\ w.row = hRequest[q] /\ w.said = hView[q].said
      /\ "messages" \in hView[q].broken => "messages" \in w.broken
  OBVIOUS
<1> HIDE DEF w
<1>5. HelpView(hRequest[q], w)
  BY <1>1, <1>3, <1>4 DEF HelpView
<1>6. HelpCall(hRequest[q], hThread[q], w, hCall[q])
  BY <1>4 DEF HelpInv, HelpCall
<1>7. hCall' = [hCall EXCEPT ![q] = hCall[q]]
  BY DEF Help!ReadRequest, HelpInv
<1>8. QED
  BY <1>2, <1>5, <1>6, <1>7, HelpRead DEF Help!ReadRequest

LEMMA HelpReadMessages == ASSUME HelpInv, NEW q \in Help!Ids, Help!ReadMessages(q) PROVE HelpInv'
<1> DEFINE w == [row |-> hView[q].row, said |-> hThread[q],
                 loaded |-> hView[q].loaded \cup {"messages"},
                 broken |-> hView[q].broken \ {"messages"}]
<1>1. hView[q] \in Help!View /\ hThread[q] \in Seq(Texts) /\ HelpReal(hRequest[q], hView[q].row)
  BY DEF HelpInv, HelpServer, HelpView
<1>2. hView' = [hView EXCEPT ![q] = w]
  <2> DEFINE u1 == [hView[q] EXCEPT !.said = hThread[q]]
             v1 == [hView EXCEPT ![q] = u1]
             u2 == [v1[q] EXCEPT !.loaded = hView[q].loaded \cup {"messages"}]
             v2 == [v1 EXCEPT ![q] = u2]
             u3 == [v2[q] EXCEPT !.broken = hView[q].broken \ {"messages"}]
  <2>1. hView' = [v2 EXCEPT ![q] = u3]
    BY DEF Help!ReadMessages
  <2>2. u1 = [row |-> hView[q].row, said |-> hThread[q], loaded |-> hView[q].loaded,
              broken |-> hView[q].broken]
    BY <1>1 DEF Help!View
  <2>3. u1 \in Help!View /\ hView \in [Help!Ids -> Help!View]
    BY <1>1, <2>2 DEF Help!View, HelpInv
  <2> HIDE DEF u1
  <2>4. v1[q] = u1
    BY <2>3
  <2>5. u2 = [row |-> u1.row, said |-> u1.said, loaded |-> hView[q].loaded \cup {"messages"},
              broken |-> u1.broken]
    <3>1. u2 = [u1 EXCEPT !.loaded = hView[q].loaded \cup {"messages"}]
      BY <2>4, Zenon
    <3>2. \A x : [u1 EXCEPT !.loaded = x] =
                     [row |-> u1.row, said |-> u1.said, loaded |-> x, broken |-> u1.broken]
      BY <2>3 DEF Help!View
    <3>3. QED
      BY <3>1, <3>2, Zenon
  <2>6. u2 \in Help!View
    BY <1>1, <2>3, <2>5 DEF Help!View, Help!Queries
  <2> HIDE DEF u2
  <2>7. v2[q] = u2
    BY <2>3
  <2>8. u3 = [row |-> u2.row, said |-> u2.said, loaded |-> u2.loaded,
              broken |-> hView[q].broken \ {"messages"}]
    <3>1. u3 = [u2 EXCEPT !.broken = hView[q].broken \ {"messages"}]
      BY <2>7, Zenon
    <3>2. \A x : [u2 EXCEPT !.broken = x] =
                     [row |-> u2.row, said |-> u2.said, loaded |-> u2.loaded, broken |-> x]
      BY <2>6 DEF Help!View
    <3>3. QED
      BY <3>1, <3>2, Zenon
  <2>9. u3 = w
    BY <2>2, <2>5, <2>8
  <2> HIDE DEF u3, w
  <2>10. QED
    BY <2>1, <2>3, <2>9
<1>3. w \in Help!View
  BY <1>1 DEF Help!View, Help!Queries
<1>4. w.row = hView[q].row /\ w.said = hThread[q]
  OBVIOUS
<1> HIDE DEF w
<1>5. HelpView(hRequest[q], w)
  BY <1>1, <1>3, <1>4 DEF HelpView
<1>6. HelpCall(hRequest[q], hThread[q], w, Help!Ended(hCall[q]))
  BY <1>4, HelpEnded
<1>7. hCall' = [hCall EXCEPT ![q] = Help!Ended(hCall[q])]
  BY DEF Help!ReadMessages
<1>8. QED
  BY <1>2, <1>5, <1>6, <1>7, HelpRead DEF Help!ReadMessages

LEMMA HelpReadFails ==
    ASSUME HelpInv, NEW q \in Help!Ids, NEW query \in Help!Queries, Help!ReadFails(q, query)
    PROVE  HelpInv'
<1> DEFINE w == [row |-> hView[q].row, said |-> hView[q].said, loaded |-> hView[q].loaded,
                 broken |-> hView[q].broken \cup {query}]
           c == IF query = "messages" THEN Help!Ended(hCall[q]) ELSE hCall[q]
<1>1. hView[q] \in Help!View /\ HelpReal(hRequest[q], hView[q].row)
  BY DEF HelpInv, HelpView
<1>2. hView' = [hView EXCEPT ![q] = w]
  <2>1. hView' = [hView EXCEPT ![q] = [hView[q] EXCEPT !.broken = hView[q].broken \cup {query}]]
    BY DEF Help!ReadFails
  <2>2. \A x : [hView[q] EXCEPT !.broken = x] =
                   [row |-> hView[q].row, said |-> hView[q].said, loaded |-> hView[q].loaded,
                    broken |-> x]
    BY <1>1 DEF Help!View
  <2>3. QED
    BY <2>1, <2>2, Zenon
<1>3. w \in Help!View
  BY <1>1 DEF Help!View
<1>4. /\ w.row = hView[q].row /\ w.said = hView[q].said
      /\ hView[q].broken \subseteq w.broken /\ query \in w.broken
  OBVIOUS
<1> HIDE DEF w
<1>5. HelpView(hRequest[q], w)
  BY <1>1, <1>3, <1>4 DEF HelpView
<1>6. HelpCall(hRequest[q], hThread[q], w, c)
  <2>1. CASE query = "messages"
    BY <1>4, <2>1, HelpEnded
  <2>2. CASE query # "messages"
    BY <1>4, <2>2 DEF HelpInv, HelpCall
  <2>3. QED
    BY <2>1, <2>2
<1>7. hCall' = [hCall EXCEPT ![q] = c]
  BY DEF Help!ReadFails
<1> HIDE DEF c
<1>8. QED
  BY <1>2, <1>5, <1>6, <1>7, HelpRead DEF Help!ReadFails

LEMMA HelpNext == HelpInv /\ [Help!Next]_helpVars => HelpInv'
<1> SUFFICES ASSUME HelpInv, [Help!Next]_helpVars
             PROVE  HelpInv'
  OBVIOUS
<1>1. CASE UNCHANGED helpVars
  BY <1>1 DEF helpVars, HelpInv, HelpServer
<1>2. CASE Help!Next
  BY <1>2, HelpType, HelpClicks, HelpAsk, HelpOthers, HelpShows, HelpHandles, HelpReplies,
     HelpReadRequest, HelpReadMessages, HelpReadFails
  DEF Help!Next
<1>3. QED
  BY <1>1, <1>2

LEMMA HelpTypes == HelpInv => Help!TypeOK
<1> SUFFICES ASSUME HelpInv
             PROVE  Help!TypeOK
  OBVIOUS
<1>1. hRequest \in [Help!Ids -> Help!Row] /\ hThread \in [Help!Ids -> Seq(Texts)]
  BY HelpBlank DEF HelpInv, HelpServer
<1>2. hCreate \in [stage: {"none", "sent", "done", "failed"}, got: Help!Ids \cup {0}]
  BY DEF HelpInv, HelpCreate
<1>3. QED
  BY <1>1, <1>2 DEF HelpInv, Help!TypeOK

LEMMA HelpOneOpen == HelpInv => Help!OneOpen
BY DEF HelpInv, HelpServer, Help!OneOpen

\* An action that succeeds was permitted: it names the version of the request, and
\* that is the request that was on the screen.
LEMMA HelpSeen == HelpInv /\ [Help!Next]_helpVars => Help!DoesAsSeen
<1> SUFFICES ASSUME HelpInv, [Help!Next]_helpVars, NEW q \in Help!Ids,
                    hCall[q].kind \in Help!Actions, hCall[q].stage = "sent",
                    hCall'[q].stage = "done"
             PROVE  hCall[q].seen = hRequest[q]
  BY DEF Help!DoesAsSeen
<1>1. hCall'[q] # hCall[q] /\ hCall' # hCall
  OBVIOUS
<1>2. hCall[q].kind # "send" /\ HelpReal(hRequest[q], hCall[q].seen)
  BY DEF HelpInv, HelpCall, Help!Actions
<1>3. Help!Next
  BY <1>1 DEF helpVars
<1>4. Help!Permitted(q)
  <2>1. ASSUME NEW choice, NEW rows, Help!Show(choice, rows)
        PROVE  FALSE
    <3>1. hCall'[q] = CASE hCall[q].stage \in {"none", "refresh", "settled"} -> Help!Idle
                        [] OTHER -> [hCall[q] EXCEPT !.here = FALSE]
      BY <1>1, <2>1 DEF Help!Show
    <3>2. hCall'[q] = [hCall[q] EXCEPT !.here = FALSE]
      BY <3>1
    <3>3. hCall'[q].stage = "sent"
      BY <3>2 DEF HelpInv, Help!Call
    <3>4. QED
      BY <3>3
  <2>2. ASSUME NEW p \in Help!Ids, NEW c, hCall' = [hCall EXCEPT ![p] = c]
        PROVE  p = q /\ c.stage = "done"
    BY <1>1, <2>2 DEF HelpInv
  <2>3. ASSUME NEW p \in Help!Ids, Help!HandleAction(p)
        PROVE  Help!Permitted(q)
    <3>1. CASE Help!Permitted(p) /\ hRequest[p].state \in Help!From[hCall[p].kind]
      <4>1. hCall' = [hCall EXCEPT ![p] = [hCall[p] EXCEPT !.stage = "done"]]
        BY <2>3, <3>1 DEF Help!HandleAction, Help!Answer
      <4>2. QED
        BY <2>2, <3>1, <4>1
    <3>2. CASE ~(Help!Permitted(p) /\ hRequest[p].state \in Help!From[hCall[p].kind])
      <4>1. hCall' = [hCall EXCEPT ![p] = [hCall[p] EXCEPT !.stage = "failed"]]
        BY <2>3, <3>2 DEF Help!HandleAction, Help!Answer
      <4>2. [hCall[p] EXCEPT !.stage = "failed"].stage = "failed"
        BY DEF HelpInv, Help!Call
      <4>3. QED
        BY <2>2, <4>1, <4>2
    <3>3. QED
      BY <3>1, <3>2
  <2>4. ASSUME NEW p \in Help!Ids,
               Help!HandleSend(p) \/ Help!LoseCall(p) \/ Help!Done(p) \/ Help!Failed(p)
                 \/ Help!Settle(p) \/ Help!ReadRequest(p) \/ Help!ReadMessages(p)
                 \/ \E query \in Help!Queries : Help!ReadFails(p, query)
        PROVE  FALSE
    <3>1. PICK c : hCall' = [hCall EXCEPT ![p] = c]
      BY <1>1, <2>4 DEF Help!HandleSend, Help!LoseCall, Help!Done, Help!Failed, Help!Settle,
          Help!ReadRequest, Help!ReadMessages, Help!ReadFails, Help!Answer
    <3>2. p = q
      BY <2>2, <3>1
    <3>3. \/ \E stage \in {"failed", "refresh", "settled"} :
                hCall'[q] = [hCall[q] EXCEPT !.stage = stage]
          \/ hCall'[q] \in {hCall[q], Help!Idle}
      BY <1>1, <1>2, <2>4, <3>2
      DEF HelpInv, Help!HandleSend, Help!LoseCall, Help!Done, Help!Failed, Help!Settle,
          Help!ReadRequest, Help!ReadMessages, Help!ReadFails, Help!Answer, Help!AfterDone,
          Help!Ended
    <3>4. hCall[q] \in Help!Call
      BY DEF HelpInv
    <3>5. \A stage \in {"failed", "refresh", "settled"} :
              [hCall[q] EXCEPT !.stage = stage].stage = stage
      BY <3>4 DEF Help!Call
    <3>6. QED
      BY <1>1, <3>3, <3>5, HelpBlank
  <2>6. ASSUME NEW kind, NEW text, Help!Begin(kind, text)
        PROVE  FALSE
    <3>1. Help!Shown \in Help!Ids
      BY <2>6, HelpShown DEF Help!Begin, Help!Detail, Help!Shown, HelpInv
    <3>2. PICK c : hCall' = [hCall EXCEPT ![Help!Shown] = c] /\ c.stage = "sent"
      BY <2>6 DEF Help!Begin
    <3>3. QED
      BY <2>2, <3>1, <3>2
  <2>7. ~Help!Reply /\ \A kind \in Help!Actions : ~Help!Act(kind)
    BY <2>6 DEF Help!Reply, Help!Act
  <2>8. ~Help!ReadList /\ \A p \in Help!Ids : ~Help!Select(p)
    BY <2>1 DEF Help!ReadList, Help!Select
  <2>9. ~Help!Created
    BY <1>1, <2>1 DEF Help!Created
  <2>10. /\ \A text \in Texts \cup {Blank} : ~Help!Type(text)
         /\ ~Help!Ask /\ ~Help!HandleCreate /\ ~Help!Elsewhere
    BY <1>1 DEF Help!Type, Help!Ask, Help!HandleCreate, Help!Elsewhere
  <2>11. QED
    BY <1>3, <2>3, <2>4, <2>7, <2>8, <2>9, <2>10 DEF Help!Next
<1>5. QED
  BY <1>2, <1>4 DEF Help!Permitted, HelpReal

\* A call that is settled put its text on the screen, or an error.
LEMMA HelpCleared == HelpInv => Help!ShownWhenCleared
BY DEF HelpInv, HelpCall, Says, Help!ShownWhenCleared

-----------------------------------------------------------------------------
(* All pages together: the module's own page and the settings always have a *)
(* state, another page has one while it is shown.                           *)

\* The lemmas about MatchEditor, of the match of MCWebTabs.
MP == INSTANCE MatchEditorProofs WITH
    match <- mMatch, data <- mData, fetch <- mFetch, form <- mForm, call <- mCall,
    Faults <- MatchFaults

\* The lemmas about ClientSession, of the three sessions of MCWebTabs.
SP == INSTANCE ClientSessionProofs
HP == INSTANCE ClientSessionProofs WITH Happens <- {"elsewhere"}
WP == INSTANCE ClientSessionProofs WITH Happens <- {"write"}

\* Only the page that is shown moves, by a step of its module.
LEMMA WebSteps ==
    ASSUME [WebNext]_webVars
    PROVE  /\ site' = site
           /\ [Next]_vars /\ [Settings!Next]_settingsVars
           /\ site = "match" => [Match!Next]_matchVars
           /\ site = "session" => [Session!Next]_sessionVars
           /\ site = "shared" => [Shared!Next]_sessionVars
           /\ site = "writing" => [Writing!Next]_sessionVars
           /\ site = "work" => [Work!Next]_workVars
           /\ site = "desk" => [Desk!Next]_deskVars
           /\ site = "help" => [Help!Next]_helpVars
<1>1. CASE UNCHANGED webVars
  BY <1>1 DEF webVars, sopVars, vars, settingsVars, matchVars, sessionVars, workVars, deskVars,
      helpVars
<1>2. CASE WebNext
  BY <1>2, Zenon DEF WebNext, sopVars, vars
<1>3. QED
  BY <1>1, <1>2

\* The steps of the match are those that the lemmas speak of.
LEMMA MatchSame ==
    /\ Match!Init => MP!Init
    /\ [Match!Next]_matchVars => [MP!Next]_(MP!vars)
    /\ MP!ConfirmsReviewed => Match!ConfirmsReviewed
    /\ MP!ReplacesOwnBase => Match!ReplacesOwnBase
    /\ MP!KeepsTyping => Match!KeepsTyping
    /\ MP!TypeOK => Match!TypeOK
    /\ MP!FirstAssumption
<1>1. Match!Init => MP!Init
  BY DEF Match!Init, MP!Init, Match!None, MP!None, Match!NoForm, MP!NoForm, Match!Idle, MP!Idle
<1>2. Match!Next => MP!Next
  BY DEF Match!Type, Match!Editable, Match!Busy, Match!Send, Match!SaveDraft,
      Match!Dirty, Match!BaseVersion, Match!Clean, Match!ConfirmSaved, Match!Reload,
      Match!Answer, Match!Handle, Match!HandleSave, Match!HandleConfirm,
      Match!LoseCall, Match!Done, Match!Failed, Match!Settle, Match!Fetch,
      Match!Ended, Match!Arrive, Match!Fill, Match!Sync, Match!FetchFails,
      Match!PageFails, Match!Awaited, Match!Next, Match!None, Match!NoForm, Match!Idle, MP!Type,
      MP!Editable, MP!Busy, MP!Send, MP!SaveDraft, MP!Dirty, MP!BaseVersion,
      MP!Clean, MP!ConfirmSaved, MP!Reload, MP!Answer, MP!Handle, MP!HandleSave,
      MP!HandleConfirm, MP!LoseCall, MP!Done, MP!Failed, MP!Settle, MP!Fetch,
      MP!Ended, MP!Arrive, MP!Fill, MP!Sync, MP!FetchFails, MP!PageFails, MP!Awaited,
      MP!Next, MP!None, MP!NoForm, MP!Idle
<1>3. MP!vars = matchVars
  BY DEF MP!vars, matchVars
<1>4. /\ MP!ConfirmsReviewed => Match!ConfirmsReviewed
      /\ MP!ReplacesOwnBase => Match!ReplacesOwnBase
      /\ MP!KeepsTyping => Match!KeepsTyping
  BY DEF MP!ConfirmsReviewed, Match!ConfirmsReviewed, MP!ReplacesOwnBase, Match!ReplacesOwnBase,
      MP!KeepsTyping, Match!KeepsTyping, MP!PageFails, Match!PageFails, MP!Fill,
      Match!Fill, MP!NoForm, Match!NoForm, MP!None, Match!None, MP!Idle, Match!Idle
<1>5. MP!TypeOK => Match!TypeOK
  <2>1. /\ MP!Snapshot = Match!Snapshot /\ MP!None = Match!None
    BY DEF MP!Snapshot, Match!Snapshot, MP!None, Match!None
  <2>2. MP!Form = Match!Form /\ MP!Call = Match!Call /\ MP!Idle = Match!Idle
    BY <2>1 DEF MP!Form, Match!Form, MP!Call, Match!Call, MP!Idle, Match!Idle
  <2>3. QED
    BY <2>1, <2>2, Zenon DEF MP!TypeOK, Match!TypeOK
<1>6. MP!FirstAssumption
  BY DEF MP!FirstAssumption
<1>7. [Match!Next]_matchVars => [MP!Next]_(MP!vars)
  BY <1>2 DEF MP!vars, matchVars
<1>8. QED
  BY <1>1, <1>7, <1>4, <1>5, <1>6

\* The steps of a session are those that the lemmas speak of.
LEMMA SessionSame ==
    /\ Session!Init => SP!Init
    /\ [Session!Next]_sessionVars => [SP!Next]_(SP!vars)
    /\ SP!TypeOK => Session!TypeOK
    /\ SP!StrangersByWrite => Session!StrangersByWrite
    /\ SP!ConstantsAssumption
<1>1. Session!Init => SP!Init
  BY DEF Session!Init, SP!Init, Session!Sessions, SP!Sessions, Session!Idle, SP!Idle,
      Session!NoReply, SP!NoReply
<1>2. Session!Next => SP!Next
  BY Zenon DEF Session!serverVars, SP!serverVars, Session!tabVars, SP!tabVars, Session!Sessions,
      SP!Sessions, Session!Anybody, SP!Anybody, Session!Tokens, SP!Tokens, Session!NoReply,
      SP!NoReply, Session!Idle, SP!Idle, Session!Live, SP!Live, Session!SignedIn, SP!SignedIn,
      Session!CsrfTarget, SP!CsrfTarget, Session!ServeCsrf, SP!ServeCsrf, Session!CsrfReply,
      SP!CsrfReply, Session!CookieOf, SP!CookieOf, Session!Verdict, SP!Verdict,
      Session!ServeLogin, SP!ServeLogin, Session!LoginReply, SP!LoginReply,
      Session!CommandVerdict, SP!CommandVerdict, Session!ServeLogout, SP!ServeLogout,
      Session!LogoutReply, SP!LogoutReply, Session!Abandoned, SP!Abandoned,
      Session!CancelQueries, SP!CancelQueries, Session!Cleared, SP!Cleared, Session!Expired,
      SP!Expired, Session!ExpiredBeside, SP!ExpiredBeside, Session!MayLeave, SP!MayLeave,
      Session!GoLogin, SP!GoLogin, Session!GoBack, SP!GoBack, Session!LoadMe, SP!LoadMe,
      Session!LoadCsrf, SP!LoadCsrf, Session!LoadRefused, SP!LoadRefused, Session!LoadDone,
      SP!LoadDone, Session!LoadLost, SP!LoadLost, Session!Settled, SP!Settled, Session!AuthCsrf,
      SP!AuthCsrf, Session!AuthToken, SP!AuthToken, Session!AuthPost, SP!AuthPost,
      Session!LoginDone, SP!LoginDone, Session!LogoutDone, SP!LogoutDone, Session!AuthFailed,
      SP!AuthFailed, Session!AuthLost, SP!AuthLost, Session!Working, SP!Working, Session!Read,
      SP!Read, Session!ReadDone, SP!ReadDone, Session!Write, SP!Write, Session!ServeWrite,
      SP!ServeWrite, Session!WriteDone, SP!WriteDone, Session!Rotate, SP!Rotate,
      Session!Elsewhere, SP!Elsewhere, Session!ElsewhereOut, SP!ElsewhereOut, Session!Revoke,
      SP!Revoke, Session!Next, SP!Next
<1>3. [Session!Next]_sessionVars => [SP!Next]_(SP!vars)
  BY <1>2 DEF SP!vars, SP!serverVars, SP!tabVars, sessionVars
<1>4. SP!TypeOK => Session!TypeOK
  <2>1. /\ SP!Sessions = Session!Sessions /\ SP!Anybody = Session!Anybody
        /\ SP!Tokens = Session!Tokens
    BY DEF SP!Sessions, Session!Sessions, SP!Anybody, Session!Anybody, SP!Tokens, Session!Tokens
  <2>2. SP!Row = Session!Row /\ SP!Reply = Session!Reply
    BY <2>1 DEF SP!Row, Session!Row, SP!Reply, Session!Reply
  <2>3. SP!Flow = Session!Flow
    BY <2>1, <2>2 DEF SP!Flow, Session!Flow
  <2>4. QED
    BY <2>1, <2>2, <2>3, Zenon DEF SP!TypeOK, Session!TypeOK
<1>5. SP!StrangersByWrite => Session!StrangersByWrite
  <2>1. SP!Idle = Session!Idle
    BY DEF SP!Idle, Session!Idle, SP!NoReply, Session!NoReply
  <2>2. QED
    BY <2>1 DEF SP!StrangersByWrite, Session!StrangersByWrite, SP!Strangers, Session!Strangers,
        SP!Written, Session!Written
<1>6. SP!ConstantsAssumption
  BY PagesAssumption DEF SP!ConstantsAssumption
<1>7. QED
  BY <1>1, <1>3, <1>4, <1>5, <1>6

\* Those beside another tab that logs in and out.
LEMMA SharedSame ==
    /\ Session!Init => HP!Init
    /\ [Shared!Next]_sessionVars => [HP!Next]_(HP!vars)
    /\ HP!TypeOK => Session!TypeOK
    /\ HP!StrangersByWrite => Shared!StrangersByWrite
    /\ HP!ConstantsAssumption
<1>1. Session!Init => HP!Init
  BY DEF Session!Init, HP!Init, Session!Sessions, HP!Sessions, Session!Idle, HP!Idle,
      Session!NoReply, HP!NoReply
<1>2. Shared!Next => HP!Next
  BY Zenon DEF Shared!serverVars, HP!serverVars, Shared!tabVars, HP!tabVars, Shared!Sessions,
      HP!Sessions, Shared!Anybody, HP!Anybody, Shared!Tokens, HP!Tokens, Shared!NoReply,
      HP!NoReply, Shared!Idle, HP!Idle, Shared!Live, HP!Live, Shared!SignedIn, HP!SignedIn,
      Shared!CsrfTarget, HP!CsrfTarget, Shared!ServeCsrf, HP!ServeCsrf, Shared!CsrfReply,
      HP!CsrfReply, Shared!CookieOf, HP!CookieOf, Shared!Verdict, HP!Verdict, Shared!ServeLogin,
      HP!ServeLogin, Shared!LoginReply, HP!LoginReply, Shared!CommandVerdict, HP!CommandVerdict,
      Shared!ServeLogout, HP!ServeLogout, Shared!LogoutReply, HP!LogoutReply, Shared!Abandoned,
      HP!Abandoned, Shared!CancelQueries, HP!CancelQueries, Shared!Cleared, HP!Cleared,
      Shared!Expired, HP!Expired, Shared!ExpiredBeside, HP!ExpiredBeside, Shared!MayLeave,
      HP!MayLeave, Shared!GoLogin, HP!GoLogin, Shared!GoBack, HP!GoBack, Shared!LoadMe,
      HP!LoadMe, Shared!LoadCsrf, HP!LoadCsrf, Shared!LoadRefused, HP!LoadRefused,
      Shared!LoadDone, HP!LoadDone, Shared!LoadLost, HP!LoadLost, Shared!Settled, HP!Settled,
      Shared!AuthCsrf, HP!AuthCsrf, Shared!AuthToken, HP!AuthToken, Shared!AuthPost, HP!AuthPost,
      Shared!LoginDone, HP!LoginDone, Shared!LogoutDone, HP!LogoutDone, Shared!AuthFailed,
      HP!AuthFailed, Shared!AuthLost, HP!AuthLost, Shared!Working, HP!Working, Shared!Read,
      HP!Read, Shared!ReadDone, HP!ReadDone, Shared!Write, HP!Write, Shared!ServeWrite,
      HP!ServeWrite, Shared!WriteDone, HP!WriteDone, Shared!Rotate, HP!Rotate, Shared!Elsewhere,
      HP!Elsewhere, Shared!ElsewhereOut, HP!ElsewhereOut, Shared!Revoke, HP!Revoke, Shared!Next,
      HP!Next
<1>3. [Shared!Next]_sessionVars => [HP!Next]_(HP!vars)
  BY <1>2 DEF HP!vars, HP!serverVars, HP!tabVars, sessionVars
<1>4. HP!TypeOK => Session!TypeOK
  <2>1. /\ HP!Sessions = Session!Sessions /\ HP!Anybody = Session!Anybody
        /\ HP!Tokens = Session!Tokens
    BY DEF HP!Sessions, Session!Sessions, HP!Anybody, Session!Anybody, HP!Tokens, Session!Tokens
  <2>2. HP!Row = Session!Row /\ HP!Reply = Session!Reply
    BY <2>1 DEF HP!Row, Session!Row, HP!Reply, Session!Reply
  <2>3. HP!Flow = Session!Flow
    BY <2>1, <2>2 DEF HP!Flow, Session!Flow
  <2>4. QED
    BY <2>1, <2>2, <2>3, Zenon DEF HP!TypeOK, Session!TypeOK
<1>5. HP!StrangersByWrite => Shared!StrangersByWrite
  <2>1. HP!Idle = Shared!Idle
    BY DEF HP!Idle, Shared!Idle, HP!NoReply, Shared!NoReply
  <2>2. QED
    BY <2>1 DEF HP!StrangersByWrite, Shared!StrangersByWrite, HP!Strangers, Shared!Strangers,
        HP!Written, Shared!Written
<1>6. HP!ConstantsAssumption
  BY PagesAssumption DEF HP!ConstantsAssumption
<1>7. QED
  BY <1>1, <1>3, <1>4, <1>5, <1>6

\* And those of the session with writes, where nothing else happens.
LEMMA WritingSame ==
    /\ Session!Init => WP!Init
    /\ [Writing!Next]_sessionVars => [WP!Next]_(WP!vars)
    /\ WP!TypeOK => Session!TypeOK
    /\ (WP!LoginFits => Writing!LoginFits) /\ (WP!IdentityAgrees => Writing!IdentityAgrees)
    /\ WP!ConstantsAssumption
<1>1. Session!Init => WP!Init
  BY DEF Session!Init, WP!Init, Session!Sessions, WP!Sessions, Session!Idle, WP!Idle,
      Session!NoReply, WP!NoReply
<1>2. Writing!Next => WP!Next
  BY Zenon DEF Writing!serverVars, WP!serverVars, Writing!tabVars, WP!tabVars, Writing!Sessions,
      WP!Sessions, Writing!Anybody, WP!Anybody, Writing!Tokens, WP!Tokens, Writing!NoReply,
      WP!NoReply, Writing!Idle, WP!Idle, Writing!Live, WP!Live, Writing!SignedIn, WP!SignedIn,
      Writing!CsrfTarget, WP!CsrfTarget, Writing!ServeCsrf, WP!ServeCsrf, Writing!CsrfReply,
      WP!CsrfReply, Writing!CookieOf, WP!CookieOf, Writing!Verdict, WP!Verdict,
      Writing!ServeLogin, WP!ServeLogin, Writing!LoginReply, WP!LoginReply,
      Writing!CommandVerdict, WP!CommandVerdict, Writing!ServeLogout, WP!ServeLogout,
      Writing!LogoutReply, WP!LogoutReply, Writing!Abandoned, WP!Abandoned,
      Writing!CancelQueries, WP!CancelQueries, Writing!Cleared, WP!Cleared, Writing!Expired,
      WP!Expired, Writing!ExpiredBeside, WP!ExpiredBeside, Writing!MayLeave, WP!MayLeave,
      Writing!GoLogin, WP!GoLogin, Writing!GoBack, WP!GoBack, Writing!LoadMe, WP!LoadMe,
      Writing!LoadCsrf, WP!LoadCsrf, Writing!LoadRefused, WP!LoadRefused, Writing!LoadDone,
      WP!LoadDone, Writing!LoadLost, WP!LoadLost, Writing!Settled, WP!Settled, Writing!AuthCsrf,
      WP!AuthCsrf, Writing!AuthToken, WP!AuthToken, Writing!AuthPost, WP!AuthPost,
      Writing!LoginDone, WP!LoginDone, Writing!LogoutDone, WP!LogoutDone, Writing!AuthFailed,
      WP!AuthFailed, Writing!AuthLost, WP!AuthLost, Writing!Working, WP!Working, Writing!Read,
      WP!Read, Writing!ReadDone, WP!ReadDone, Writing!Write, WP!Write, Writing!ServeWrite,
      WP!ServeWrite, Writing!WriteDone, WP!WriteDone, Writing!Rotate, WP!Rotate,
      Writing!Elsewhere, WP!Elsewhere, Writing!ElsewhereOut, WP!ElsewhereOut, Writing!Revoke,
      WP!Revoke, Writing!Next, WP!Next
<1>3. [Writing!Next]_sessionVars => [WP!Next]_(WP!vars)
  BY <1>2 DEF WP!vars, WP!serverVars, WP!tabVars, sessionVars
<1>4. WP!TypeOK => Session!TypeOK
  <2>1. /\ WP!Sessions = Session!Sessions /\ WP!Anybody = Session!Anybody
        /\ WP!Tokens = Session!Tokens
    BY DEF WP!Sessions, Session!Sessions, WP!Anybody, Session!Anybody, WP!Tokens, Session!Tokens
  <2>2. WP!Row = Session!Row /\ WP!Reply = Session!Reply
    BY <2>1 DEF WP!Row, Session!Row, WP!Reply, Session!Reply
  <2>3. WP!Flow = Session!Flow
    BY <2>1, <2>2 DEF WP!Flow, Session!Flow
  <2>4. QED
    BY <2>1, <2>2, <2>3, Zenon DEF WP!TypeOK, Session!TypeOK
<1>5. (WP!LoginFits => Writing!LoginFits) /\ (WP!IdentityAgrees => Writing!IdentityAgrees)
  BY DEF WP!LoginFits, Writing!LoginFits, WP!IdentityAgrees, Writing!IdentityAgrees,
      WP!SignedIn, Writing!SignedIn, WP!Live, Writing!Live
<1>6. WP!ConstantsAssumption
  BY PagesAssumption DEF WP!ConstantsAssumption
<1>7. QED
  BY <1>1, <1>3, <1>4, <1>5, <1>6

WebInv ==
    /\ IInv /\ EditsInv /\ SettingsInv
    /\ site = "match" => MP!IInv
    /\ site = "session" => SP!TabInv
    /\ site = "shared" => HP!TabInv
    /\ site = "writing" => WP!SessionInv /\ WP!Undisturbed
    /\ site = "work" => WorkInv
    /\ site = "desk" => DeskInv
    /\ site = "help" => HelpInv

LEMMA WebInvInit == WebInit => WebInv
<1> SUFFICES ASSUME WebInit
             PROVE  WebInv
  OBVIOUS
<1>1. IInv /\ EditsInv /\ SettingsInv
  BY IInvInit, EditsInvInit, SettingsInit DEF WebInit
<1>2. site = "match" => MP!IInv
  BY MatchSame, MP!IInvInit DEF WebInit
<1>3. /\ site = "session" => SP!TabInv
      /\ site = "shared" => HP!TabInv
  BY SessionSame, SharedSame, SP!SessionInit, HP!SessionInit DEF WebInit
<1>4. site = "writing" => WP!SessionInv /\ WP!Undisturbed
  BY WritingSame, WP!SessionInit, WP!UndisturbedInit DEF WebInit
<1>5. /\ site = "work" => WorkInv
      /\ site = "desk" => DeskInv
      /\ site = "help" => HelpInv
  BY WorkInit, DeskInit, HelpInit DEF WebInit
<1>6. QED
  BY <1>1, <1>2, <1>3, <1>4, <1>5 DEF WebInv

LEMMA WebInvNext == WebInv /\ [WebNext]_webVars => WebInv'
<1> SUFFICES ASSUME WebInv, [WebNext]_webVars
             PROVE  WebInv'
  OBVIOUS
<1>1. site' = site
  BY WebSteps
<1>2. IInv' /\ EditsInv' /\ SettingsInv'
  BY WebSteps, IInvNext, EditsInvNext, SettingsNext DEF WebInv, IInv
<1>3. site = "match" => MP!IInv'
  BY WebSteps, MatchSame, MP!IInvNext DEF WebInv
<1>4. site = "session" => SP!TabInv'
  BY WebSteps, SessionSame, SP!TabNext DEF WebInv
<1>5. site = "shared" => HP!TabInv'
  BY WebSteps, SharedSame, HP!TabNext DEF WebInv
<1>6. site = "writing" => WP!SessionInv' /\ WP!Undisturbed'
  <2>1. WP!Calm
    BY DEF WP!Calm
  <2>2. QED
    BY <2>1, WebSteps, WritingSame, WP!SessionNext, WP!UndisturbedNext DEF WebInv
<1>7. /\ site = "work" => WorkInv'
      /\ site = "desk" => DeskInv'
      /\ site = "help" => HelpInv'
  BY WebSteps, WorkNext, DeskNext, HelpNext DEF WebInv
<1>8. QED
  BY <1>1, <1>2, <1>3, <1>4, <1>5, <1>6, <1>7 DEF WebInv

LEMMA WebInvariant == WebSpec => []WebInv
BY WebInvInit, WebInvNext, PTL DEF WebSpec

\* Whichever page is shown, its state has the types of its module.
THEOREM WebTypes == WebSpec => []WebTypeOK
<1>1. WebInv => WebTypeOK
  <2> SUFFICES ASSUME WebInv
               PROVE  WebTypeOK
    OBVIOUS
  <2>1. TypeOK
    BY DEF WebInv, IInv
  <2>2. site = "match" => Match!TypeOK
    BY MatchSame, MP!InvTypes DEF WebInv
  <2>3. site \in {"session", "shared", "writing"} => Session!TypeOK
    <3>1. SP!TabInv \/ HP!TabInv \/ WP!SessionInv => SP!Base \/ HP!Base \/ WP!Base
      BY DEF SP!TabInv, HP!TabInv, WP!SessionInv, WP!Base
    <3>2. QED
      BY <3>1, SessionSame, SharedSame, WritingSame, SP!SessionTypes, HP!SessionTypes,
          WP!SessionTypes DEF WebInv
  <2>4. /\ site = "settings" => Settings!TypeOK
        /\ site = "work" => Work!TypeOK
        /\ site = "desk" => Desk!TypeOK
        /\ site = "help" => Help!TypeOK
    BY SettingsTypes, WorkTypes, DeskTypes, HelpTypes DEF WebInv
  <2>5. QED
    BY <2>1, <2>2, <2>3, <2>4 DEF WebTypeOK
<1>2. QED
  BY <1>1, WebInvariant, PTL

\* Whatever is under way, lost or late, and whoever logs in or out beside: a login, a
\* logout or a 401 that changes whom the tab shows leaves nothing private in its cache.
\* In a browser whose other tabs log nobody in or out, only a write that succeeds
\* after its user has gone puts back what is not the tab's own.
THEOREM PrivateCache == WebSpec => CacheIsPrivate
<1> DEFINE Step == /\ site = "session" => Session!StrangersByWrite
                   /\ site = "shared" => Shared!StrangersByWrite
<1>1. WebInv /\ [WebNext]_webVars => Step
  <2> SUFFICES ASSUME WebInv, [WebNext]_webVars
               PROVE  Step
    OBVIOUS
  <2>1. site = "session" => Session!StrangersByWrite
    BY WebSteps, SessionSame, SP!PrivateStep DEF WebInv
  <2>2. site = "shared" => Shared!StrangersByWrite
    BY WebSteps, SharedSame, HP!PrivateStep DEF WebInv
  <2>3. QED
    BY <2>1, <2>2
<1>2. WebSpec => [][Step]_webVars
  BY <1>1, WebInvariant, PTL DEF WebSpec
<1>3. QED
  BY <1>2 DEF CacheIsPrivate

\* With nothing lost or late and nobody else at work, the tab shows as signed in whom the server
\* knows under its cookie; and a login leaves cookie and token of its session.
THEOREM TabAgrees == WebSpec => SessionAgrees
<1> DEFINE Step == site = "writing" => Writing!LoginFits /\ Writing!IdentityAgrees'
           Now == site = "writing" => Writing!IdentityAgrees
<1>1. WebInv => Now
  BY WritingSame, WP!Agree DEF WebInv
<1>2. WebInv /\ Now' /\ [WebNext]_webVars => Step
  <2> SUFFICES ASSUME WebInv, Now', [WebNext]_webVars, site = "writing"
               PROVE  Writing!LoginFits /\ Writing!IdentityAgrees'
    OBVIOUS
  <2>1. Writing!LoginFits
    <3>1. {"write"} \cap {"leave", "elsewhere"} = {}
      OBVIOUS
    <3>2. QED
      BY <3>1, WebSteps, WritingSame, WP!LoginStep DEF WebInv
  <2>2. QED
    BY <2>1, WebSteps
<1>3. WebSpec => [][Step]_webVars
  BY <1>1, <1>2, WebInvariant, PTL DEF WebSpec
<1>4. QED
  BY <1>3 DEF SessionAgrees

\* A click on the page of a task or of a request for help does what was on the
\* screen then, and a task has one open request for help at most.
THEOREM DoneAsSeen == WebSpec => SeenIsDone
<1> DEFINE Step == /\ site = "work" => Work!DoesAsSeen
                   /\ site = "help" => Help!DoesAsSeen /\ Help!OneOpen'
<1>1. WebInv /\ [WebNext]_webVars => Step
  <2> SUFFICES ASSUME WebInv, [WebNext]_webVars
               PROVE  Step
    OBVIOUS
  <2>1. site = "work" => Work!DoesAsSeen
    BY WebSteps, WorkSeen DEF WebInv
  <2>2. site = "help" => Help!DoesAsSeen
    BY WebSteps, HelpSeen DEF WebInv
  <2>3. site = "help" => HelpInv'
    BY WebSteps, HelpNext DEF WebInv
  <2>4. HelpInv' => Help!OneOpen'
    BY DEF HelpInv, HelpServer, Help!OneOpen
  <2>5. QED
    BY <2>1, <2>2, <2>3, <2>4
<1>2. WebSpec => [][Step]_webVars
  BY <1>1, WebInvariant, PTL DEF WebSpec
<1>3. QED
  BY <1>2 DEF SeenIsDone

\* A counselor's click changes the task as it was on the screen then, and the
\* learner is sent what the feedback lists.
THEOREM ReviewedAsSeen == WebSpec => ReviewOfSeen
<1>1. WebInv /\ [WebNext]_webVars => (site = "desk" => Desk!ReviewsSeen)
  BY WebSteps, DeskSeen DEF WebInv
<1>2. WebSpec => [][site = "desk" => Desk!ReviewsSeen]_webVars
  BY <1>1, WebInvariant, PTL DEF WebSpec
<1>3. QED
  BY <1>2 DEF ReviewOfSeen

\* A match that is confirmed says what its counselor saw, and the save before it
\* replaces what the form was filled from.
THEOREM ConfirmedAsSeen == WebSpec => ConfirmedIsReviewed
<1>1. WebInv /\ [WebNext]_webVars =>
          (site = "match" => Match!ConfirmsReviewed /\ Match!ReplacesOwnBase)
  BY WebSteps, MatchSame, MP!ReviewedStep, MP!OwnBaseStep DEF WebInv
<1>2. WebSpec => [][site = "match" => Match!ConfirmsReviewed /\ Match!ReplacesOwnBase]_webVars
  BY <1>1, WebInvariant, PTL DEF WebSpec
<1>3. QED
  BY <1>2 DEF ConfirmedIsReviewed

\* The settings page implements the contract of the editing pages.
THEOREM SettingsKept == WebSpec => SettingsByTheBook
<1>1. WebInit => Settings!Contract!Init
  BY WebInvInit DEF WebInv, SettingsInv, Settings!Contract!Init, Settings!Basis,
      Settings!Contract!Document, Settings!Contract!Basis, Settings!Snapshot, Settings!Form,
      Settings!Call
<1>2. WebInv /\ WebInv' /\ [WebNext]_webVars => [Settings!Contract!Next]_(Settings!Contract!vars)
  BY WebSteps, SettingsContract DEF WebInv
<1>3. WebSpec => Settings!Contract!Spec
  BY <1>1, <1>2, WebInvariant, PTL DEF WebSpec, Settings!Contract!Spec
<1>4. QED
  BY <1>3 DEF SettingsByTheBook, Settings!EditsByTheBook

\* Whatever requests and fetches fail: what was typed into a draft, the match or the
\* settings leaves its form only by typing on, by a save of it or by a reload that was
\* asked for, or with its whole editor, when that is taken away by a failing fetch
\* above it, by a newer revision, a publication or by going to another page (a file
\* attached to a draft meanwhile: by the reply to its save or reload); and the box of a
\* reply is emptied when the reply, or an error, can be read.
THEOREM TypingStays == WebSpec => TypingKept
<1> DEFINE Step == /\ site = "sop" => KeepsTyping
                   /\ site = "match" => Match!KeepsTyping
                   /\ site = "settings" => Settings!KeepsTyping
                   /\ site = "help" => Help!ShownWhenCleared
<1>1. WebInv /\ [WebNext]_webVars => Step
  <2> SUFFICES ASSUME WebInv, [WebNext]_webVars
               PROVE  Step
    OBVIOUS
  <2>1. KeepsTyping
    BY WebSteps, EditsInvNext DEF WebInv, IInv
  <2>2. site = "match" => Match!KeepsTyping
    <3>1. CASE site = "match" /\ MP!Next
      BY <3>1, MatchSame, MP!TypingStep DEF WebInv
    <3>2. CASE site = "match" /\ ~MP!Next
      <4>1. mForm' = mForm
        BY <3>2, WebSteps, MatchSame DEF MP!vars
      <4>2. QED
        BY <4>1 DEF Match!KeepsTyping
    <3>3. QED
      BY <3>1, <3>2
  <2>3. Settings!KeepsTyping
    BY WebSteps, SettingsTyping DEF WebInv
  <2>4. site = "help" => Help!ShownWhenCleared
    BY HelpCleared DEF WebInv
  <2>5. QED
    BY <2>1, <2>2, <2>3, <2>4
<1>2. WebSpec => [][Step]_webVars
  BY <1>1, WebInvariant, PTL DEF WebSpec
<1>3. QED
  BY <1>2 DEF TypingKept

=============================================================================
