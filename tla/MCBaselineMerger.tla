-------------------------- MODULE MCBaselineMerger --------------------------
(***************************************************************************)
(* Instances of BaselineMerger for TLC.                                    *)
(***************************************************************************)
EXTENDS BaselineMerger, SequencesExt

CONSTANT MaxKey   \* bound on the packed internal keys

\* Two files of whole entries, at most two and three; a file cut inside its last
\* entry by a short write; and a file longer than the read limit.
Whole(n) == {PlainDiskFormat(keys) : keys \in BoundedSeq(0 .. MaxKey, n)}
Cut == {Front(file) : file \in Whole(1) \ {<< >>}} \cup {Front(PlainDiskFormat(<< 1, 2 >>))}
Long == {PlainDiskFormat(<< 0, 1, 2, 3 >>), PlainDiskFormat(<< 3, 2, 1, 0, 0 >>)}

MCDisks == {(0 :> a @@ 1 :> b) : a \in Whole(2) \cup Cut, b \in Whole(3) \cup Long}

\* The last list names a file that does not exist.
MCInputs == {<< 0, 1 >>, << 1 >>, << 0, 1, 2 >>}

MCLogics == {[kind |-> "kRemoveRedundant", prefix |-> {}, seq |-> 0]}

\* Fewer directories, for the runs that look for one behaviour.
MCFewDisks == {(0 :> a @@ 1 :> b) : a \in Whole(1), b \in Whole(2)}
=============================================================================
