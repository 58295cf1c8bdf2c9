-------------------------- MODULE FederatedAggregation --------------------------
(***************************************************************************)
(* What credit/federated.rs computes of the gradients of cohorts: the       *)
(* clipped average, the three robust aggregates, sparse gradients and the   *)
(* monitor of convergence. Numbers are integers, a result is a fraction.    *)
(* Where a Euclidean norm is needed (clipping, Krum) gradients have one     *)
(* coordinate. The Gaussian noise is left out: no property is about it.     *)
(***************************************************************************)
EXTENDS Integers, FiniteSets, SequencesExt

Batch(gradients, samples) == [gradients |-> gradients, sample_count |-> samples]

Abs1(x) == IF x < 0 THEN -x ELSE x
Total(s) == FoldSeq(LAMBDA x, sum : x + sum, 0, s)
Over(num, den) == [num |-> num, den |-> den]
AtMost(a, b) == a.num * b.den <= b.num * a.den

Samples(batches) == Total([i \in DOMAIN batches |-> batches[i].sample_count])
Dim(batches) == Len(batches[1].gradients)

\* The values of coordinate d, smallest first, of the batches that have it.
Coordinate(batches, d) ==
  LET having == SelectSeq(batches, LAMBDA b : d <= Len(b.gradients))
  IN SortSeq([i \in DOMAIN having |-> having[i].gradients[d]], <)

\* A batch that lacks the coordinate keeps its weight and adds nothing.
WeightedAverage(batches) ==
  IF Samples(batches) = 0 THEN <<>>
  ELSE [d \in 1..Dim(batches) |->
          Over(Total([i \in DOMAIN batches |->
                        IF d <= Len(batches[i].gradients)
                        THEN batches[i].sample_count * batches[i].gradients[d] ELSE 0]),
               Samples(batches))]

\* FedProxAggregator::aggregate: clipped, averaged, damped by mu hundredths.
Clipped(g, clip) == IF Abs1(g) <= clip THEN g ELSE IF g < 0 THEN -clip ELSE clip
Aggregate(batches, clip, mu) ==
  LET average == WeightedAverage(
        [i \in DOMAIN batches |->
           Batch([d \in DOMAIN batches[i].gradients |-> Clipped(batches[i].gradients[d], clip)],
                 batches[i].sample_count)])
  IN [d \in DOMAIN average |-> Over(100 * average[d].num, (100 + mu) * average[d].den)]

Trim(n, percent) == (n * percent) \div 100

Kept(values, trim, n) ==
  IF trim < n - trim /\ n - trim <= Len(values) THEN SubSeq(values, trim + 1, n - trim)
  ELSE values

TrimmedMean(batches, percent) ==
  [d \in 1..Dim(batches) |->
     LET values == Coordinate(batches, d)
         kept == Kept(values, Trim(Len(batches), percent), Len(batches))
     IN Over(Total(kept), IF kept = <<>> THEN 1 ELSE Len(kept))]

CoordinateMedian(batches) ==
  [d \in 1..Dim(batches) |->
     LET values == Coordinate(batches, d)  n == Len(values)
     IN IF n % 2 = 0 /\ n >= 2 THEN Over(values[n \div 2] + values[n \div 2 + 1], 2)
        ELSE IF n > 0 THEN Over(values[n \div 2 + 1], 1) ELSE Over(0, 1)]

\* The batch with the least sum of distances to its n - 2 nearest, the first of
\* them. There are two batches or more: for one, n - 2 is below zero.
Distances(batches, i) ==
  LET others == SelectSeq([j \in DOMAIN batches |-> j], LAMBDA j : j # i)
  IN SortSeq([k \in DOMAIN others |->
                Abs1(batches[i].gradients[1] - batches[others[k]].gradients[1])], <)
KrumScore(batches, i) ==
  LET k == IF Len(batches) > 3 THEN Len(batches) - 2 ELSE 1
  IN Total(SubSeq(Distances(batches, i), 1, k))
Krum(batches) ==
  CHOOSE i \in DOMAIN batches : \A j \in DOMAIN batches :
    \/ KrumScore(batches, i) < KrumScore(batches, j)
    \/ KrumScore(batches, i) = KrumScore(batches, j) /\ i <= j

\* sparsify_gradient for TopK, its indices in the order of the stable sort, and
\* densify_gradient. Indices count from one.
TopK(gradient, k) ==
  LET order == SortSeq([i \in DOMAIN gradient |-> i],
                       LAMBDA i, j : \/ Abs1(gradient[i]) > Abs1(gradient[j])
                                     \/ Abs1(gradient[i]) = Abs1(gradient[j]) /\ i < j)
      indices == SubSeq(order, 1, IF k < Len(gradient) THEN k ELSE Len(gradient))
  IN <<indices, [i \in DOMAIN indices |-> gradient[indices[i]]]>>
AtThreshold(gradient, threshold) ==
  LET indices == SelectSeq([i \in DOMAIN gradient |-> i],
                           LAMBDA i : Abs1(gradient[i]) >= threshold)
  IN <<indices, [i \in DOMAIN indices |-> gradient[indices[i]]]>>
Densify(sparse, dim) ==
  [i \in 1..dim |-> IF \E k \in DOMAIN sparse[1] : sparse[1][k] = i
                    THEN sparse[2][CHOOSE k \in DOMAIN sparse[1] : sparse[1][k] = i] ELSE 0]

\* ConvergenceMonitor, on what record_round has appended.
HasConverged(losses, threshold) ==
  /\ Len(losses) >= 4
  /\ \A i \in Len(losses) - 3..Len(losses) - 1 : Abs1(losses[i] - losses[i + 1]) < threshold
GradientExplodes(norms) ==
  Len(norms) >= 3 /\ norms[Len(norms)] * Len(norms) > 10 * Total(norms)

-----------------------------------------------------------------------------
Between(q, values) ==
  /\ \E i \in DOMAIN values : AtMost(Over(values[i], 1), q)
  /\ \E i \in DOMAIN values : AtMost(q, Over(values[i], 1))
Without(batches, bad) == SelectSeq([i \in DOMAIN batches |-> i], LAMBDA i : i \notin bad)

\* As many wrong batches as a robust aggregate is meant for do not move it out
\* of the range of the right ones, whatever they hold.
RobustToOutliers(batches) ==
  \A bad \in SUBSET DOMAIN batches :
    LET n == Len(batches)
        right == Without(batches, bad)
        Right(d) == [k \in DOMAIN right |-> batches[right[k]].gradients[d]]
        complete == {d \in 1..Dim(batches) :
                       \A i \in DOMAIN batches : d <= Len(batches[i].gradients)}
    IN \A d \in complete :
         /\ \A percent \in {20, 34} :
              Cardinality(bad) <= Trim(n, percent) => Between(TrimmedMean(batches, percent)[d], Right(d))
         /\ 2 * Cardinality(bad) < n => Between(CoordinateMedian(batches)[d], Right(d))
KrumAvoidsOutlier(batches) ==
  \A i \in DOMAIN batches :
    LET others == DOMAIN batches \ {i}
        Apart(j, k) == Abs1(batches[j].gradients[1] - batches[k].gradients[1])
    IN Len(batches) >= 3 /\ (\A j, k, l \in others : Apart(i, j) > Apart(k, l))
         => Krum(batches) # i

\* A cohort's gradient, whatever it is, moves the clipped average by no more
\* than its share of twice the clip norm; the noise is calibrated to that norm.
OneCoordinate(batches) == \A i \in DOMAIN batches : Len(batches[i].gradients) = 1
SensitivityBounded(batches, clip, mu) ==
  Samples(batches) > 0 =>
    \A i \in DOMAIN batches, g \in {-100, 0, 100} :
      LET other == [batches EXCEPT ![i].gradients = <<g>>]
      IN Abs1(Aggregate(batches, clip, mu)[1].num - Aggregate(other, clip, mu)[1].num)
           <= 200 * clip * batches[i].sample_count

\* What is sent of a gradient are its largest coordinates, at their places.
SparseKeepsLargest(gradient) ==
  \A k \in 0..Len(gradient) + 1 :
    LET sparse == TopK(gradient, k)
        dense == Densify(sparse, Len(gradient))
        sent == {sparse[1][m] : m \in DOMAIN sparse[1]}
    IN /\ \A i \in DOMAIN gradient : dense[i] = IF i \in sent THEN gradient[i] ELSE 0
       /\ \A i \in sent, j \in DOMAIN gradient \ sent : Abs1(gradient[i]) >= Abs1(gradient[j])
       /\ \A i \in DOMAIN gradient :
            Densify(AtThreshold(gradient, k), Len(gradient))[i]
              = IF Abs1(gradient[i]) >= k THEN gradient[i] ELSE 0

\* Training that has converged lies flat, and a gradient said to explode is far
\* above those before it.
MonitorSound(series) ==
  LET n == Len(series)
  IN /\ HasConverged(series, 2) =>
          \A i, j \in n - 3..n : Abs1(series[i] - series[j]) < 6
     /\ GradientExplodes(series) =>
          series[n] * (n - 1) > 10 * Total(SubSeq(series, 1, n - 1))
=============================================================================
