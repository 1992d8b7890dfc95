-------------------------------- MODULE MCBoot --------------------------------
(* Memory maps of up to three entries of every sort, mode lists of up to      *)
(* three modes; the disk layout is the real one.                              *)
EXTENDS Boot
MCMode == {[num |-> k, fits |-> f] : k \in 1 .. 3, f \in BOOLEAN}
EntryAt(k) == {[id |-> k, empty |-> e, stored |-> s] : e \in BOOLEAN, s \in BOOLEAN}
MCSmaps == {<<a>> : a \in EntryAt(1)}
           \cup {<<a, b>> : a \in EntryAt(1), b \in EntryAt(2)}
           \cup {<<a, b, c>> : a \in EntryAt(1), b \in EntryAt(2), c \in EntryAt(3)}
ModeAt(k) == {m \in MCMode : m.num = k}
MCModes == {<<>>} \cup {<<a>> : a \in ModeAt(1)}
           \cup {<<a, b>> : a \in ModeAt(1), b \in ModeAt(2)}
           \cup {<<a, b, c>> : a \in ModeAt(1), b \in ModeAt(2), c \in ModeAt(3)}
=============================================================================
