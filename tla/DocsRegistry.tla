---------------------------- MODULE DocsRegistry ----------------------------
(***************************************************************************)
(* takctl/services/docs_registry.py: the registry file docs.json, shared   *)
(* by the threads of the web process (uploads on the event loop, deletes   *)
(* on the thread pool, the docs worker) and by the command line tools.     *)
(*                                                                         *)
(* Every operation is a read-modify-write of the whole file with no lock:  *)
(* read docs.json, change the copy, write it to docs.tmp, a name all       *)
(* processes share, and rename docs.tmp over docs.json.  The model keeps   *)
(* the steps another process can come between: read, open (which truncates *)
(* docs.tmp), write, rename.  An open descriptor follows its inode: after  *)
(* another process renamed docs.tmp, a writer that had it open writes into *)
(* docs.json itself, and its own rename finds no docs.tmp.                 *)
(***************************************************************************)
EXTENDS Naturals, FiniteSets

CONSTANTS
  Docs,      \* document ids
  Procs,     \* threads and processes that use the registry
  Blank,     \* content of a file just truncated
  Torn,      \* content left by two writers of one inode: not parseable
  NoFile     \* docs.tmp does not exist

Statuses == {"queued", "processing", "ready", "failed"}
Entry == Statuses \cup {"absent"}
Registries == [Docs -> Entry]
EmptyRegistry == [d \in Docs |-> "absent"]

ASSUME FileValues ==
  /\ Blank \notin Registries /\ Torn \notin Registries /\ NoFile \notin Registries
  /\ Blank # Torn /\ Blank # NoFile /\ Torn # NoFile

VARIABLES
  json,      \* content of docs.json (a missing file reads as the empty registry)
  tmp,       \* content of docs.tmp, or NoFile
  phase,     \* how far each process is in its read-modify-write
  fd,        \* the file each process has open for writing
  snap,      \* the registry each process is about to write
  overlap    \* history: two read-modify-writes were once under way together

regVars == <<json, tmp, phase, fd, snap, overlap>>

Phases == {"idle", "loaded", "opened", "written"}

\* load_docs_registry: what does not parse is read as an empty registry.
Load(content) == IF content \in Registries THEN content ELSE EmptyRegistry

\* Slip (mutant): the entry is saved without the others.
UpsertAlone(reg, d, s) == [EmptyRegistry EXCEPT ![d] = s]

\* upsert_doc: the entry is replaced, or appended.
Upsert(reg, d, s) == [reg EXCEPT ![d] = s]
Remove(reg, d) == [reg EXCEPT ![d] = "absent"]
Reindex(reg, D) == [d \in Docs |-> IF d \in D /\ reg[d] # "absent" THEN "ready" ELSE reg[d]]

RegInit ==
  /\ json = EmptyRegistry
  /\ tmp = NoFile
  /\ phase = [p \in Procs |-> "idle"]
  /\ fd = [p \in Procs |-> "none"]
  /\ snap = [p \in Procs |-> EmptyRegistry]
  /\ overlap = FALSE

-----------------------------------------------------------------------------
(* One read-modify-write of process p, in four steps.                      *)

\* The file is read and the copy changed: new is the registry to be saved.
Begin(p, new) ==
  /\ phase[p] = "idle"
  /\ phase' = [phase EXCEPT ![p] = "loaded"]
  /\ snap' = [snap EXCEPT ![p] = new]
  /\ overlap' = (overlap \/ \E q \in Procs \ {p} : phase[q] # "idle")
  /\ UNCHANGED <<json, tmp, fd>>

\* write_text opens docs.tmp: created if missing, truncated if not.
OpenTmp(p) ==
  /\ phase[p] = "loaded"
  /\ phase' = [phase EXCEPT ![p] = "opened"]
  /\ fd' = [fd EXCEPT ![p] = "tmp"]
  /\ tmp' = Blank
  /\ UNCHANGED <<json, snap, overlap>>

\* A file another writer already filled keeps that writer's tail when the new
\* text is shorter; nothing is left of a blank one.
Overwrite(old, new) == IF old = Blank THEN {new} ELSE {new, Torn}

\* The text is written, and the descriptor closed, wherever its inode now is:
\* still docs.tmp, renamed to docs.json, or replaced and unlinked ("gone").
WriteTmp(p) ==
  /\ phase[p] = "opened"
  /\ phase' = [phase EXCEPT ![p] = "written"]
  /\ fd' = [fd EXCEPT ![p] = "none"]
  /\ tmp' \in IF fd[p] = "tmp" THEN Overwrite(tmp, snap[p]) ELSE {tmp}
  /\ json' \in IF fd[p] = "json" THEN Overwrite(json, snap[p]) ELSE {json}
  /\ UNCHANGED <<snap, overlap>>

\* docs.tmp becomes docs.json; descriptors follow their inodes.
Renamed(f) == CASE f = "tmp" -> "json" [] f = "json" -> "gone" [] OTHER -> f

\* Slips (mutants): the rename comes before the write; the rename is tried again.
EndWindowEarly(p) ==
  /\ phase[p] \in {"opened", "written"}
  /\ phase' = [phase EXCEPT ![p] = "idle"]
  /\ UNCHANGED <<snap, overlap>>
EndWindowAgain(p) == phase[p] = "written" /\ UNCHANGED <<phase, snap, overlap>>

\* The update is over, saved or not.
EndWindow(p) ==
  /\ phase[p] = "written"
  /\ phase' = [phase EXCEPT ![p] = "idle"]
  /\ snap' = [snap EXCEPT ![p] = EmptyRegistry]
  /\ UNCHANGED overlap

Replace(p) ==
  /\ EndWindow(p)
  /\ tmp # NoFile
  /\ json' = tmp
  /\ tmp' = NoFile
  /\ fd' = [q \in Procs |-> Renamed(fd[q])]

\* Another process renamed docs.tmp first: FileNotFoundError.
ReplaceRaises(p) ==
  /\ EndWindow(p)
  /\ tmp = NoFile
  /\ UNCHANGED <<json, tmp, fd>>

\* The processes of P die: their descriptors close, the files stay.
Kill(P) ==
  /\ phase' = [p \in Procs |-> IF p \in P THEN "idle" ELSE phase[p]]
  /\ fd' = [p \in Procs |-> IF p \in P THEN "none" ELSE fd[p]]
  /\ snap' = [p \in Procs |-> IF p \in P THEN EmptyRegistry ELSE snap[p]]
  /\ UNCHANGED <<json, tmp, overlap>>

-----------------------------------------------------------------------------
(* The registry by itself: any process runs any operation at any time.     *)

UpsertDoc(p) == \E d \in Docs, s \in Statuses : Begin(p, Upsert(Load(json), d, s))
DeleteDocEntry(p) == \E d \in Docs : Begin(p, Remove(Load(json), d))
ReindexDocs(p) == \E D \in SUBSET Docs : Begin(p, Reindex(Load(json), D))
Crash(p) == phase[p] # "idle" /\ Kill({p})

RegStep(p) ==
  \/ UpsertDoc(p) \/ DeleteDocEntry(p) \/ ReindexDocs(p)
  \/ OpenTmp(p) \/ WriteTmp(p) \/ Replace(p) \/ ReplaceRaises(p)
  \/ Crash(p)

RegNext == \E p \in Procs : RegStep(p)
RegSpec == RegInit /\ [][RegNext]_regVars

-----------------------------------------------------------------------------
(* Types: every value the six variables take.                              *)
RegTypeOK ==
  /\ json \in Registries \cup {Blank, Torn}
  /\ tmp \in Registries \cup {Blank, Torn, NoFile}
  /\ phase \in [Procs -> Phases]
  /\ fd \in [Procs -> {"none", "tmp", "json", "gone"}]
  /\ snap \in [Procs -> Registries]
  /\ overlap \in BOOLEAN

(* As long as no two read-modify-writes were ever under way together,      *)
(* docs.json parses, whatever crashed in the middle of save_docs_registry. *)
NeverTornAlone == ~overlap => json \in Registries

(* An operation that overlapped no other finds docs.tmp when it renames:   *)
(* save_docs_registry raises FileNotFoundError only after an overlap.      *)
NoSpuriousError == \A p \in Procs : phase[p] = "written" /\ tmp = NoFile => overlap

Atomic == INSTANCE AtomicRegistry WITH registry <- Load(json), met <- overlap

(* The file implements the atomic registry: until an overlap, each change  *)
(* of docs.json is one whole operation applied to the content it replaces, *)
(* and what a crash leaves half done changes nothing.                      *)
AtomicSpec == Atomic!Spec
=============================================================================
