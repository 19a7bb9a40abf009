---------------------------- MODULE MCParMatvec ----------------------------
(* Instances of ParMatvec for TLC: see the .cfg files. *)
EXTENDS ParMatvec

Starts(s1, s2) ==
  [p \in 0 .. 3 |-> CASE p = 0 -> 0 [] p = 1 -> s1 [] p = 2 -> s2 [] p = 3 -> NumRows]

Full == Row \X Row
Band == {rc \in Row \X Row : rc[1] - rc[2] \in {-1, 0, 1}}
Arrow == {rc \in Row \X Row : rc[1] = rc[2] \/ rc[1] = NumRows - 1 \/ rc[2] = 0}

M(s1, s2, nz) ==
  LET part == [starts |-> Starts(s1, s2), nonzeros |-> nz]
  IN  [starts |-> part.starts, nonzeros |-> nz,
       col_map_offd |-> [p \in Proc |-> Sorted(Offd(part, p))]]

\* Of seven rows the processes are assumed for three, two and two.
Sequences ==
  {<<M(1, 2, Full), M(3, 5, Band)>>, <<M(7, 7, Arrow), M(0, 1, Full)>>,
   <<M(0, 4, Band), M(0, 0, Arrow)>>, <<M(6, 6, Full), M(4, 6, Arrow)>>,
   <<M(5, 6, Band), M(1, 2, Band)>>}
TwoJobs == <<1, 2>>
=============================================================================
