------------------------- MODULE DocsRegistryProofs -------------------------
(***************************************************************************)
(* What holds of docs.json for any documents and any processes, proved     *)
(* from one inductive invariant: AloneInv says how the two files and the   *)
(* single process updating them relate as long as no two updates were      *)
(* ever under way together.                                                *)
(***************************************************************************)
EXTENDS DocsRegistry, TLAPS

AloneInv ==
  ~overlap =>
    /\ json \in Registries
    /\ \A p, q \in Procs : phase[p] # "idle" /\ phase[q] # "idle" => p = q
    /\ \A p \in Procs :
         /\ phase[p] = "opened" => fd[p] = "tmp" /\ tmp = Blank
         /\ phase[p] = "written" => tmp = snap[p]
         /\ phase[p] # "idle" => snap[p] \in Atomic!Results(json)

(* Each registry operation maps registries to registries.                  *)
LEMMA OperationsTyped ==
  ASSUME NEW reg \in Registries
  PROVE  /\ \A d \in Docs, s \in Statuses : Upsert(reg, d, s) \in Registries
         /\ \A d \in Docs : Remove(reg, d) \in Registries
         /\ \A D \in SUBSET Docs : Reindex(reg, D) \in Registries
  BY DEF Upsert, Remove, Reindex, Registries, Entry, Statuses

LEMMA EmptyTyped == EmptyRegistry \in Registries
  BY DEF EmptyRegistry, Registries, Entry

(* Whatever docs.json holds, reading it yields a registry.                 *)
LEMMA LoadTyped == \A c : Load(c) \in Registries
  BY EmptyTyped DEF Load

(* What an operation makes of reg is a result of the atomic registry.      *)
LEMMA OperationsAtomic ==
  ASSUME NEW reg
  PROVE  /\ \A d \in Docs, s \in Statuses : Upsert(reg, d, s) \in Atomic!Results(reg)
         /\ \A d \in Docs : Remove(reg, d) \in Atomic!Results(reg)
         /\ \A D \in SUBSET Docs : Reindex(reg, D) \in Atomic!Results(reg)
<1>1. ASSUME NEW d \in Docs, NEW s \in Statuses
      PROVE  Upsert(reg, d, s) \in Atomic!Results(reg)
  <2>1. Upsert(reg, d, s) = Atomic!Upsert(reg, d, s)
    BY DEF Upsert, Atomic!Upsert
  <2>2. QED
    BY <2>1 DEF Atomic!Results, Atomic!Statuses, Statuses
<1>2. ASSUME NEW d \in Docs PROVE Remove(reg, d) \in Atomic!Results(reg)
  <2>1. Remove(reg, d) = Atomic!Remove(reg, d)
    BY DEF Remove, Atomic!Remove
  <2>2. QED
    BY <2>1 DEF Atomic!Results
<1>3. ASSUME NEW D \in SUBSET Docs PROVE Reindex(reg, D) \in Atomic!Results(reg)
  <2>1. Reindex(reg, D) = Atomic!Reindex(reg, D)
    BY DEF Reindex, Atomic!Reindex
  <2>2. QED
    BY <2>1 DEF Atomic!Results
<1>4. QED
  BY <1>1, <1>2, <1>3

(* A process of the registry alone begins with an operation of the module. *)
BeginsOperation(p) == \E new \in Atomic!Results(Load(json)) \cap Registries : Begin(p, new)

LEMMA StepCases ==
  ASSUME NEW p \in Procs, RegStep(p)
  PROVE  \/ BeginsOperation(p) \/ OpenTmp(p) \/ WriteTmp(p) \/ Replace(p)
         \/ ReplaceRaises(p) \/ (phase[p] # "idle" /\ Kill({p}))
<1>1. CASE UpsertDoc(p)
  BY <1>1, LoadTyped, OperationsTyped, OperationsAtomic DEF UpsertDoc, BeginsOperation
<1>2. CASE DeleteDocEntry(p)
  BY <1>2, LoadTyped, OperationsTyped, OperationsAtomic DEF DeleteDocEntry, BeginsOperation
<1>3. CASE ReindexDocs(p)
  BY <1>3, LoadTyped, OperationsTyped, OperationsAtomic DEF ReindexDocs, BeginsOperation
<1>4. QED
  BY <1>1, <1>2, <1>3 DEF RegStep, Crash

-----------------------------------------------------------------------------
(* One update step keeps the types: used here and for the pipeline.        *)
LEMMA StepTyped ==
  ASSUME NEW p \in Procs, NEW P \in SUBSET Procs, NEW new \in Registries, RegTypeOK,
         \/ Begin(p, new) \/ OpenTmp(p) \/ WriteTmp(p) \/ Replace(p)
         \/ ReplaceRaises(p) \/ Kill(P)
  PROVE  RegTypeOK'
<1> USE DEF RegTypeOK, Phases
<1>1. EmptyRegistry \in Registries
  BY EmptyTyped
<1>2. CASE Begin(p, new)
  BY <1>2 DEF Begin
<1>3. CASE OpenTmp(p)
  BY <1>3 DEF OpenTmp
<1>4. CASE WriteTmp(p)
  BY <1>4 DEF WriteTmp, Overwrite
<1>5. CASE Replace(p)
  <2>1. \A q \in Procs : Renamed(fd[q]) \in {"none", "tmp", "json", "gone"}
    BY DEF Renamed
  <2>2. QED
    BY <1>1, <1>5, <2>1 DEF Replace, EndWindow
<1>6. CASE ReplaceRaises(p)
  BY <1>1, <1>6 DEF ReplaceRaises, EndWindow
<1>7. CASE Kill(P)
  BY <1>1, <1>7 DEF Kill
<1>8. QED
  BY <1>2, <1>3, <1>4, <1>5, <1>6, <1>7

LEMMA RegNextTyped == RegTypeOK /\ [RegNext]_regVars => RegTypeOK'
<1> SUFFICES ASSUME RegTypeOK, [RegNext]_regVars PROVE RegTypeOK'
  OBVIOUS
<1>1. ASSUME NEW p \in Procs, RegStep(p) PROVE RegTypeOK'
  <2>1. EmptyRegistry \in Registries
    BY EmptyTyped
  <2>2. CASE BeginsOperation(p)
    BY <2>2, StepTyped DEF BeginsOperation
  <2>3. CASE OpenTmp(p) \/ WriteTmp(p) \/ Replace(p) \/ ReplaceRaises(p)
    BY <2>1, <2>3, StepTyped
  <2>4. CASE Kill({p})
    BY <2>1, <2>4, StepTyped
  <2>5. QED
    BY <1>1, <2>2, <2>3, <2>4, StepCases
<1>2. CASE UNCHANGED regVars
  BY <1>2 DEF regVars, RegTypeOK
<1>3. QED
  BY <1>1, <1>2 DEF RegNext

(* The variables of the registry keep their types.                         *)
THEOREM RegTyped == RegSpec => []RegTypeOK
<1>1. RegInit => RegTypeOK
  BY EmptyTyped DEF RegInit, RegTypeOK, Phases
<1>2. QED
  BY <1>1, RegNextTyped, PTL DEF RegSpec

(* What has met has met.                                                   *)
LEMMA OverlapStays ==
  ASSUME [RegNext]_regVars, ~overlap'
  PROVE  ~overlap
<1>1. ASSUME NEW p \in Procs, RegStep(p) PROVE ~overlap
  BY <1>1, StepCases DEF BeginsOperation, Begin, OpenTmp, WriteTmp, Replace, ReplaceRaises,
                         EndWindow, Kill
<1>2. QED
  BY <1>1 DEF RegNext, regVars

-----------------------------------------------------------------------------
(* AloneInv is inductive.                                                  *)
LEMMA AloneStep ==
  ASSUME RegTypeOK, AloneInv, NEW p \in Procs, RegStep(p)
  PROVE  AloneInv'
<1> SUFFICES ASSUME ~overlap' PROVE AloneInv!2'
  BY DEF AloneInv
<1>1. ~overlap
  BY StepCases DEF BeginsOperation, Begin, OpenTmp, WriteTmp, Replace, ReplaceRaises,
                   EndWindow, Kill
<1>2. AloneInv!2
  BY <1>1 DEF AloneInv
<1>3. CASE BeginsOperation(p)
  <2>1. PICK new \in Atomic!Results(Load(json)) \cap Registries : Begin(p, new)
    BY <1>3 DEF BeginsOperation
  <2>2. \A q \in Procs \ {p} : phase[q] = "idle"
    BY <2>1 DEF Begin
  <2>3. Load(json) = json
    BY <1>2 DEF Load
  <2>4. QED
    BY <1>2, <2>1, <2>2, <2>3 DEF Begin, RegTypeOK, Phases
<1>4. CASE OpenTmp(p)
  BY <1>2, <1>4 DEF OpenTmp, RegTypeOK, Phases
<1>5. CASE WriteTmp(p)
  <2>1. fd[p] = "tmp" /\ tmp = Blank
    BY <1>2, <1>5 DEF WriteTmp
  <2>2. tmp' = snap[p] /\ json' = json
    BY <1>5, <2>1 DEF WriteTmp, Overwrite
  <2>3. QED
    BY <1>2, <1>5, <2>2 DEF WriteTmp, RegTypeOK, Phases
<1>6. CASE Replace(p)
  <2>1. json' = snap[p] /\ phase[p] = "written"
    BY <1>2, <1>6 DEF Replace, EndWindow
  <2>2. \A q \in Procs : phase'[q] = "idle"
    BY <1>2, <1>6, <2>1 DEF Replace, EndWindow, RegTypeOK, Phases
  <2>3. QED
    BY <2>1, <2>2 DEF RegTypeOK
<1>7. CASE ReplaceRaises(p)
  BY <1>2, <1>7 DEF ReplaceRaises, EndWindow, RegTypeOK, Phases
<1>8. CASE phase[p] # "idle" /\ Kill({p})
  BY <1>2, <1>8 DEF Kill, RegTypeOK, Phases
<1>9. QED
  BY <1>3, <1>4, <1>5, <1>6, <1>7, <1>8, StepCases

(* docs.json relates to the update under way as AloneInv says.             *)
THEOREM AloneSafe == RegSpec => []AloneInv
<1>1. RegInit => AloneInv
  BY EmptyTyped DEF RegInit, AloneInv
<1>2. RegTypeOK /\ AloneInv /\ [RegNext]_regVars => AloneInv'
  <2> SUFFICES ASSUME RegTypeOK, AloneInv, [RegNext]_regVars PROVE AloneInv'
    OBVIOUS
  <2>1. CASE RegNext
    BY <2>1, AloneStep DEF RegNext
  <2>2. CASE UNCHANGED regVars
    BY <2>2 DEF regVars, AloneInv
  <2>3. QED
    BY <2>1, <2>2
<1>3. QED
  BY <1>1, <1>2, RegTyped, PTL DEF RegSpec

(* For any documents and processes: until updates overlap, no crash leaves *)
(* an unparseable docs.json.                                               *)
THEOREM NeverTorn == RegSpec => []NeverTornAlone
<1>1. AloneInv => NeverTornAlone
  BY DEF AloneInv, NeverTornAlone
<1>2. QED
  BY <1>1, AloneSafe, PTL

(* For any documents and processes: save_docs_registry finds its docs.tmp  *)
(* unless updates overlapped.                                              *)
THEOREM SavesSucceed == RegSpec => []NoSpuriousError
<1>1. RegTypeOK /\ AloneInv => NoSpuriousError
  BY FileValues DEF AloneInv, NoSpuriousError, RegTypeOK
<1>2. QED
  BY <1>1, AloneSafe, RegTyped, PTL

(* A step changes docs.json only by renaming a complete operation over it. *)
LEMMA ChangeIsOperation ==
  ASSUME RegTypeOK, AloneInv, NEW p \in Procs, RegStep(p), ~overlap', json' # json
  PROVE  json' \in Atomic!Results(json)
<1>1. ~overlap
  BY StepCases DEF BeginsOperation, Begin, OpenTmp, WriteTmp, Replace, ReplaceRaises,
                   EndWindow, Kill
<1>2. ~WriteTmp(p)
  BY <1>1 DEF AloneInv, WriteTmp
<1>3. Replace(p)
  BY <1>2, StepCases DEF BeginsOperation, Begin, OpenTmp, ReplaceRaises, Kill
<1>4. QED
  BY <1>1, <1>3 DEF AloneInv, Replace, EndWindow

(* For any documents and processes, crashes in the middle of their updates *)
(* included: docs.json implements the atomic registry.  A rename maps to   *)
(* one operation, the begin that meets another update to Meet, and every   *)
(* other step to a stutter.                                                *)
THEOREM ImplementsAtomic == RegSpec => AtomicSpec
<1>1. RegInit => Atomic!Init
  BY EmptyTyped DEF RegInit, Atomic!Init, Atomic!EmptyRegistry, Load, EmptyRegistry
<1>2. RegTypeOK /\ AloneInv /\ AloneInv' /\ [RegNext]_regVars => [Atomic!Next]_(Atomic!vars)
  <2> SUFFICES ASSUME RegTypeOK, AloneInv, AloneInv', [RegNext]_regVars
               PROVE  [Atomic!Next]_(Atomic!vars)
    OBVIOUS
  <2>1. CASE overlap'
    <3>1. overlap' = TRUE
      BY <2>1, RegNextTyped DEF RegTypeOK
    <3>2. QED
      BY <3>1 DEF Atomic!Next, Atomic!Meet
  <2>2. CASE ~overlap'
    <3>1. ~overlap /\ overlap' = overlap
      BY <2>2, OverlapStays, RegNextTyped DEF RegTypeOK
    <3>2. CASE json' = json
      BY <3>1, <3>2 DEF Load, Atomic!vars
    <3>3. CASE json' # json
      <4>1. json' \in Atomic!Results(json)
        BY <2>2, <3>3, ChangeIsOperation DEF RegNext, regVars
      <4>2. Load(json) = json /\ Load(json)' = json'
        BY <2>2, <3>1 DEF AloneInv, Load
      <4>3. QED
        BY <3>1, <4>1, <4>2 DEF Atomic!Next, Atomic!Operation
    <3>4. QED
      BY <3>2, <3>3
  <2>3. QED
    BY <2>1, <2>2
<1>3. QED
  BY <1>1, <1>2, AloneSafe, RegTyped, PTL DEF RegSpec, AtomicSpec, Atomic!Spec

-----------------------------------------------------------------------------
(* A process that has the registry to itself never overlaps anything: for  *)
(* it the file is the atomic registry without condition.                   *)
SoleProcess == \A p, q \in Procs : p = q

THEOREM SoleNeverMeets == SoleProcess => (RegSpec => []~overlap)
<1> SUFFICES ASSUME SoleProcess PROVE RegSpec => []~overlap
  OBVIOUS
<1>1. RegInit => ~overlap
  BY DEF RegInit
<1>2. ~overlap /\ [RegNext]_regVars => ~overlap'
  <2> SUFFICES ASSUME ~overlap, [RegNext]_regVars PROVE ~overlap'
    OBVIOUS
  <2>1. ASSUME NEW p \in Procs, RegStep(p) PROVE ~overlap'
    BY <2>1, StepCases DEF SoleProcess, BeginsOperation, Begin, OpenTmp, WriteTmp, Replace,
                           ReplaceRaises, EndWindow, Kill
  <2>2. QED
    BY <2>1 DEF RegNext, regVars
<1>3. QED
  BY <1>1, <1>2, PTL DEF RegSpec
=============================================================================
