-------------------------- MODULE SeqlenBalancing ---------------------------
(***************************************************************************)
(* The pure algorithms of verl/utils/seqlen_balancing.py: the              *)
(* Karmarkar-Karp partition of a batch over ranks or micro-batches, the    *)
(* cut of a batch into micro-batches of a bounded number of tokens, and    *)
(* the permutation that puts the micro-batches' results back in order.     *)
(*                                                                         *)
(* An index of the code is its position here (index + 1).                  *)
(***************************************************************************)
EXTENDS DataProto

calculate_workload(seqlen) == 24576 * seqlen + seqlen * seqlen

ceildiv(a, b) == (a + b - 1) \div b

SumSeq(s) ==
  LET total[i \in 0..Len(s)] == IF i = 0 THEN 0 ELSE total[i - 1] + s[i]
  IN  total[Len(s)]

\* Python's s[::2] and s[1::2]
EvenIndices(s) == [i \in 1..ceildiv(Len(s), 2) |-> s[2 * i - 1]]
OddIndices(s) == [i \in 1..(Len(s) \div 2) |-> s[2 * i]]

\* Python's stable sort: each entry goes behind those of the earlier ones that
\* it is not less than; less holds the pairs of entries in that relation
Inserted(s, less) ==
  LET front[n \in 0..Len(s)] ==
        IF n = 0 THEN << >>
        ELSE LET before == front[n - 1]
                 passed == { k \in 1..(n - 1) : << s[n], before[k] >> \notin less }
             IN  InsertAt(before, Cardinality(passed) + 1, s[n])
  IN  front[Len(s)]

SortedBy(s, Before(_, _)) ==
  Inserted(s, { p \in Range(s) \X Range(s) : Before(p[1], p[2]) })

sorted(s) == SortedBy(s, LAMBDA a, b : a < b)

-----------------------------------------------------------------------------
(* The largest differencing method.  A Set is a record of its sum and its  *)
(* items in order of insertion; a State is a sequence of k Sets kept in    *)
(* decreasing order.                                                       *)

EmptySet == [sum |-> 0, items |-> << >>]

\* Set.__lt__: the items of two Sets are disjoint, so the first ones decide
SetLess(a, b) ==
  \/ a.sum < b.sum
  \/ a.sum = b.sum /\ Len(a.items) < Len(b.items)
  \/ /\ a.sum = b.sum /\ Len(a.items) = Len(b.items) /\ a.items # << >>
     /\ a.items[1] < b.items[1]

DecreasingSets(sets) == SortedBy(sets, LAMBDA a, b : SetLess(b, a))

spread(state) == state[1].sum - state[Len(state)].sum

\* State.__lt__: the heap gives the State with the largest spread first
StateLess(s, t) ==
  \/ spread(s) > spread(t)
  \/ spread(s) = spread(t) /\ SetLess(t[1], s[1])

HeapPop(states) == CHOOSE s \in states : \A t \in states : ~StateLess(t, s)

MergeStates(s, t) ==
  DecreasingSets([i \in DOMAIN s |->
    LET opposite == t[Len(t) + 1 - i]
    IN  [sum |-> s[i].sum + opposite.sum, items |-> s[i].items \o opposite.items]])

InitialStates(vals, k, equal_size) ==
  LET ascending == SortedBy([i \in DOMAIN vals |-> i], LAMBDA i, j : vals[i] < vals[j])
      One(i) == [sum |-> vals[i], items |-> << i >>]
  IN  IF equal_size
      THEN { DecreasingSets([i \in 1..k |-> One(ascending[offset * k + i])]) :
               offset \in 0..(Len(vals) \div k - 1) }
      ELSE { [j \in 1..k |-> IF j = 1 THEN One(i) ELSE EmptySet] : i \in DOMAIN vals }

MergeTwo(states) ==
  LET state0 == HeapPop(states)
      state1 == HeapPop(states \ {state0})
  IN  (states \ {state0, state1}) \cup {MergeStates(state0, state1)}

karmarkar_karp(vals, k, equal_size) ==
  LET states == InitialStates(vals, k, equal_size)
      rounds == Cardinality(states) - 1
      merged[count \in 0..rounds] ==
        IF count = 0 THEN states ELSE MergeTwo(merged[count - 1])
      final == CHOOSE s \in merged[rounds] : TRUE
  IN  [j \in 1..k |-> final[j].items]

get_seqlen_balanced_partitions(vals, k, equal_size) ==
  LET partitions == karmarkar_karp(vals, k, equal_size)
  IN  [j \in 1..k |-> sorted(partitions[j])]

\* samples of one uid are contiguous when this is called; every group goes
\* as a whole to one partition
get_group_balanced_partitions(lens, uids, k) ==
  LET starts == Ascending({ i \in DOMAIN uids : i = 1 \/ uids[i] # uids[i - 1] })
      end(g) == IF g = Len(starts) THEN Len(uids) ELSE starts[g + 1] - 1
      group(g) == [i \in 1..(end(g) - starts[g] + 1) |-> starts[g] + i - 1]
      workload(g) == SumSeq([i \in 1..Len(group(g)) |-> calculate_workload(lens[group(g)[i]])])
      partitions == get_seqlen_balanced_partitions(
                      [g \in 1..Len(starts) |-> workload(g)], k, TRUE)
  IN  [j \in 1..k |-> sorted(FlattenSeq([x \in 1..Len(partitions[j]) |->
                                            group(partitions[j][x])]))]

-----------------------------------------------------------------------------
(* Micro-batches bounded by max_token_len tokens.                          *)

\* this rank's own count, before the all_reduce over the dp group
num_micro_batches(lens, max_token_len) ==
  LET wanted == ceildiv(SumSeq(lens), max_token_len)
  IN  IF wanted < Len(lens) THEN wanted ELSE Len(lens)

\* the index lists of the micro-batches, the heaviest ones in the middle
rearrange_micro_batches(lens, num) ==
  LET workloads == [i \in DOMAIN lens |-> calculate_workload(lens[i])]
      partitions == get_seqlen_balanced_partitions(workloads, num, FALSE)
      load(p) == SumSeq([i \in DOMAIN p |-> workloads[p[i]]])
      first(p) == IF p = << >> THEN 0 ELSE p[1]
      descending == SortedBy(partitions, LAMBDA p, q :
                      load(p) > load(q) \/ (load(p) = load(q) /\ first(p) > first(q)))
  IN  Reverse(EvenIndices(descending)) \o OddIndices(descending)

get_reverse_idx(idx_map) == [j \in DOMAIN idx_map |-> CHOOSE i \in DOMAIN idx_map : idx_map[i] = j]

\* Variant: the results stay in the order of the micro-batches.
RestoreUnordered(data, batch_idx_list) == data

restore_dynamic_batch(data, batch_idx_list) ==
  LET revert_indices == get_reverse_idx(FlattenSeq(batch_idx_list))
  IN  [j \in DOMAIN data |-> data[revert_indices[j]]]

=============================================================================
