--------------------------- MODULE AtomicRegistry ---------------------------
(***************************************************************************)
(* What the callers of services/docs_registry.py count on: the document    *)
(* registry is one value, and every operation reads and replaces it in a   *)
(* single step.  The code takes no lock, so this is promised only until    *)
(* two updates meet; after that the registry may change to anything.       *)
(***************************************************************************)
CONSTANT Docs

Statuses == {"queued", "processing", "ready", "failed"}
Entry == Statuses \cup {"absent"}
Registries == [Docs -> Entry]
EmptyRegistry == [d \in Docs |-> "absent"]

Upsert(reg, d, s) == [reg EXCEPT ![d] = s]
Remove(reg, d) == [reg EXCEPT ![d] = "absent"]
\* takctl-docs-reindex marks every registered document that has an extract.
Reindex(reg, D) == [d \in Docs |-> IF d \in D /\ reg[d] # "absent" THEN "ready" ELSE reg[d]]

\* The results one operation of the module may leave behind, from reg.
Results(reg) ==
  {Upsert(reg, d, s) : d \in Docs, s \in Statuses}
    \cup {Remove(reg, d) : d \in Docs}
    \cup {Reindex(reg, D) : D \in SUBSET Docs}

VARIABLES
  registry,   \* the registry
  met         \* two updates have met

vars == <<registry, met>>

Init == registry = EmptyRegistry /\ met = FALSE
Operation == ~met /\ registry' \in Results(registry) /\ UNCHANGED met
Meet == met' = TRUE
Next == Operation \/ Meet
Spec == Init /\ [][Next]_vars
=============================================================================
