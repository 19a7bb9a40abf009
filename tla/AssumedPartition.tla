-------------------------- MODULE AssumedPartition --------------------------
(***************************************************************************)
(* The assumed partition of AMG2013 (parcsr_mv/par_csr_assumed_part.c):    *)
(* every process can compute, without a message, which process is assumed  *)
(* to know the owner of a row, and which rows a process is assumed for.    *)
(* Two functions do that, which the comments at 425 and 468 call careful   *)
(* inverses of each other.                                                 *)
(***************************************************************************)
EXTENDS Integers

CONSTANTS
  NumProcs,
  NumRows   \* global_num_rows

ASSUME PartitionAssumption == NumProcs \in Nat \ {0} /\ NumRows \in Nat

Proc == 0 .. NumProcs - 1
Row == 0 .. NumRows - 1

Size == NumRows \div NumProcs
Extra == NumRows - Size * NumProcs

\* hypre_GetAssumedPartitionRowRange: the first "extra" processes have one row more.  The
\* casts of size and extra to int are left out: they tell only from 2^31 rows for each process.
MinOf(a, b) == IF a <= b THEN a ELSE b
RowStart(p) == Size * p + MinOf(p, Extra)
RowEnd(p) == Size * (p + 1) + MinOf(p + 1, Extra) - 1

\* hypre_GetAssumedPartitionProcFromRow.
SwitchRow == (Size + 1) * Extra
ProcFromRow(row) ==
  IF row >= SwitchRow
  THEN Extra + (row - SwitchRow) \div Size
  ELSE row \div (Size + 1)
=============================================================================
