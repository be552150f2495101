--------------------------- MODULE MCDocsPipeline ---------------------------
\* Instances of the document pipeline.  Nothing orders worker ids or contents:
\* the safety runs take them up to symmetry.
EXTENDS DocsPipeline, TLC
PipelineSymmetry == Permutations(Workers) \cup Permutations(Hashes)
=============================================================================
