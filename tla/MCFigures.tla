----------------------------- MODULE MCFigures -----------------------------
(* The figures, small: their constants that are not plain in the .cfg.        *)
EXTENDS Figures, TLC

CONSTANTS
    p1, p2,
    LinkedClones      \* whether a file with two names may have a clone

\* A directory with two below it, one of which has one more.
Lies == <<{}, {1}, {1, 2}, {1}>>
Found == {<<0, 0, 0, 0>>, <<0, 0, 9, 1>>, <<2, 0, 5, 5>>, <<0, 1, 8, 1>>,
          <<1, 0, 9, 9>>, <<9, 9, 9, 9>>}

\* Three entries, the first of them shown twice; three files at most, of three
\* contents, the shorter one no longer than its head.
EntryShown == <<1, 2, 3, 1>>
StoreBytes == <<1, 2, 1>>
Short == <<1, 1, 0>>
Long == {<<2, 1, 1>>, <<2, 1, 2>>}
Kinds == {Short} \cup Long

Disk(names, data, stores, out) ==
    [entry |-> names, outside |-> out,
     file |-> [f \in {names[e] : e \in 1..3} |->
                  [data |-> data[f], time |-> 0, store |-> stores[f]]]]
TwoNames(d, f) == f \in d.outside \/ Cardinality({e \in 1..3 : d.entry[e] = f}) > 1
Cloned(d) == {f \in DOMAIN d.file :
                 \E g \in DOMAIN d.file \ {f} : d.file[g].store = d.file[f].store}
Disks ==
    LET all == {Disk(names, data, stores, out) :
                   names \in {<<1, 2, 3>>, <<1, 1, 2>>, <<1, 2, 2>>},
                   data \in {<<Short, Short, Short>>} \cup ({<<2, 1, 1>>} \X Kinds \X Long),
                   stores \in {<<1, 2, 3>>, <<1, 2, 2>>, <<1, 1, 3>>},
                   out \in {{}, {1}}}
    IN  {d \in all : Sound(d) /\ (LinkedClones \/ \A f \in Cloned(d) : ~TwoNames(d, f))}

PidSymmetry == Permutations({p1, p2})
=============================================================================
