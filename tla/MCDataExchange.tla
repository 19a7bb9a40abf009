--------------------------- MODULE MCDataExchange ---------------------------
(* Instances of DataExchange for TLC: see the .cfg files. *)
EXTENDS DataExchange

\* As in hypre_NewCommPkgCreate.
TwoCalls == <<1, 2>>

\* Three of the processes of a tree of depth two contact others, some of them twice
\* or themselves.
Lists == [p \in 0 .. 3 |->
            CASE p = 1 -> {<<>>, <<3, 3>>}
              [] p = 3 -> {<<>>, <<0, 1>>}
              [] p = 2 -> {<<>>, <<2>>}
              [] p = 0 -> {<<>>}]
=============================================================================
