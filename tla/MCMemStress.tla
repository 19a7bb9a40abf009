----------------------------- MODULE MCMemStress -----------------------------
(* Instances of MemStress for TLC: see the .cfg files. *)
EXTENDS MemStress

\* Blocks of a kind are alike: malloc returns the first entry that is free, so that
\* one just freed comes back at once, and the info it was freed with.  (Symmetry and
\* liveness do not go together.)
Partner ==
  CHOOSE f \in [Entry -> Info] : \A e, g \in Entry : f[e] = f[g] => e = g
FirstFit ==
  \A t \in Thread : pc[t] = "malloc" /\ pc'[t] = "fill" =>
    /\ new_me'[t] = CHOOSE e \in Entry \ entries : Partner[e] \notin infos
    /\ new_mi'[t] = Partner[new_me'[t]]
=============================================================================
