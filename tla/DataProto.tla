----------------------------- MODULE DataProto ------------------------------
(***************************************************************************)
(* The batch container of verl/protocol.py and the dispatch and collect    *)
(* functions of verl/single_controller/base/decorator.py that carry it to  *)
(* a worker group and back.  A batch is the sequence of its rows.  Worker  *)
(* ranks are 1..world_size, data parallel ranks count from 0.              *)
(***************************************************************************)
EXTENDS Integers, Sequences, FiniteSets, SequencesExt

\* a finite set of numbers from the least to the greatest
Ascending(S) ==
  [i \in 1..Cardinality(S) |-> CHOOSE x \in S : Cardinality({ y \in S : y < x }) = i - 1]

repeat_interleave(rows, times) ==
  [i \in 1..(Len(rows) * times) |-> rows[(i - 1) \div times + 1]]

\* equal chunks; the caller guarantees that chunks divides the length
chunk(rows, chunks) ==
  LET size == Len(rows) \div chunks
  IN  [j \in 1..chunks |-> SubSeq(rows, (j - 1) * size + 1, j * size)]

concat(parts) == FlattenSeq(parts)

reorder(rows, indices) == [i \in DOMAIN indices |-> rows[indices[i]]]

\* pad_dataproto_to_divisor appends copies of the leading rows, as many
\* rounds of them as it takes
pad_size(rows, divisor) ==
  IF Len(rows) % divisor = 0 THEN 0 ELSE divisor - (Len(rows) % divisor)

pad_dataproto_to_divisor(rows, divisor) ==
  rows \o [i \in 1..pad_size(rows, divisor) |-> rows[((i - 1) % Len(rows)) + 1]]

unpad_dataproto(rows, size) == SubSeq(rows, 1, Len(rows) - size)

-----------------------------------------------------------------------------
(* A mesh maps the workers to data parallel ranks and marks the workers    *)
(* whose answers are kept.                                                 *)

dp_size(mesh) == (CHOOSE d \in { mesh.dp_rank[w] : w \in DOMAIN mesh.dp_rank } :
                    \A w \in DOMAIN mesh.dp_rank : mesh.dp_rank[w] <= d) + 1

\* every dp rank has workers, one of them returns its answers, and those that
\* do are numbered in the order of their dp ranks
MeshSound(mesh) ==
  /\ mesh.dp_rank \in Seq(Nat) /\ mesh.dp_rank # << >>
  /\ \A w \in DOMAIN mesh.dp_rank : \E v \in DOMAIN mesh.dp_rank :
       mesh.collect[v] /\ mesh.dp_rank[v] = mesh.dp_rank[w]
  /\ \A d \in 0..(dp_size(mesh) - 1) : \E w \in DOMAIN mesh.dp_rank : mesh.dp_rank[w] = d
  /\ \A v, w \in DOMAIN mesh.dp_rank :
       mesh.collect[v] /\ mesh.collect[w] /\ v < w => mesh.dp_rank[v] < mesh.dp_rank[w]

\* what worker w is given: all the workers of a dp rank get the same chunk
dispatch_nd_compute(mesh, rows) ==
  [w \in DOMAIN mesh.dp_rank |-> chunk(rows, dp_size(mesh))[mesh.dp_rank[w] + 1]]

\* the kept answers in the order of the global ranks
collect_nd_compute(mesh, outputs) ==
  LET kept == Ascending({ w \in DOMAIN outputs : mesh.collect[w] })
  IN  concat([i \in DOMAIN kept |-> outputs[kept[i]]])

=============================================================================
