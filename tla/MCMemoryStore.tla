--------------------------- MODULE MCMemoryStore ---------------------------
(***************************************************************************)
(* Small instances of MemoryStore for TLC.                                 *)
(***************************************************************************)
EXTENDS MemoryStore, TLC

CONSTANTS a1, r1, r2, r3, t1, t2, v1, v2, v3, u1

Says(t, s, v) == [topic |-> t, scope |-> s, value |-> v]

\* Three values of the workspace's fact over two topics, one of them spelled
\* in two ways, and a private record that states one of them.
Mixed == {Says(t1, "workspace", v1), Says(t2, "workspace", v2),
          Says(t1, "workspace", v3), Says(t2, "workspace", u1),
          Says(t2, "private", v1)}

Folded == [v \in {v1, v2, v3, u1} |-> IF v = u1 THEN v1 ELSE v]

Symmetry == Permutations({r1, r2, r3})

=============================================================================
