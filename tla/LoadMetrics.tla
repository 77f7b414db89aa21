----------------------------- MODULE LoadMetrics -----------------------------
(***************************************************************************)
(* What an http_load run records about its requests: models.py, metrics.py *)
(* and core/metrics.py.  Times are ticks; averages and percentiles are     *)
(* exact, in hundredths of a tick.  Rates, token and character totals are  *)
(* left out.                                                               *)
(***************************************************************************)
EXTENDS SequenceParts

Absent == -1

\* RequestResult of a request that failed before its reader was done; what went
\* wrong is left out.
FailedResult(latency) ==
    [ok |-> FALSE, check |-> "none", latency |-> latency,
     ttft |-> Absent, visible |-> Absent, reasoning |-> Absent, itl |-> <<>>]

Present(values) == Chosen(values, {i \in DOMAIN values : values[i] # Absent})

\* sum(values)
Total(values) ==
    LET upto[n \in 0..Len(values)] == IF n = 0 THEN 0 ELSE upto[n - 1] + values[n]
    IN  upto[Len(values)]

\* sorted(values): each value is inserted before the first that is greater.
Inserted(sorted, value) ==
    LET greater == {i \in DOMAIN sorted : value < sorted[i]}
    IN  InsertAt(sorted, IF greater = {} THEN Len(sorted) + 1 ELSE Min(greater), value)
Ascending(values) ==
    LET upto[n \in 0..Len(values)] ==
            IF n = 0 THEN <<>> ELSE Inserted(upto[n - 1], values[n])
    IN  upto[Len(values)]

\* Mutant: the weights are swapped.
Percentile_Swapped(sorted, p) ==
    LET rank == p * (Len(sorted) - 1)
        lower == rank \div 100
        upper == IF lower + 1 < Len(sorted) THEN lower + 1 ELSE Len(sorted) - 1
        weight == rank % 100
    IN  sorted[lower + 1] * weight + sorted[upper + 1] * (100 - weight)

\* percentile_value, with linear interpolation
Percentile(sorted, p) ==
    LET rank == p * (Len(sorted) - 1)
        lower == rank \div 100
        upper == IF lower + 1 < Len(sorted) THEN lower + 1 ELSE Len(sorted) - 1
        weight == rank % 100
    IN  sorted[lower + 1] * (100 - weight) + sorted[upper + 1] * weight

Percentiles == {50, 90, 95, 99}

\* add_distribution_metrics: nothing is added for no values.
Distribution(values) ==
    IF values = <<>> THEN [count |-> 0]
    ELSE LET sorted == Ascending(values)
         IN  [count |-> Len(sorted), min |-> 100 * sorted[1], max |-> 100 * Last(sorted),
              avg |-> (100 * Total(sorted)) \div Len(sorted),
              percentile |-> [p \in Percentiles |-> Percentile(sorted, p)]]

\* The values of one field, one for each result.
Field(results, f) == [i \in 1..Len(results) |-> results[i][f]]

Successes(results) == Chosen(results, {i \in DOMAIN results : results[i].ok})
Failures(results) == Chosen(results, {i \in DOMAIN results : ~results[i].ok})
CheckedFor(results, checks) == Chosen(results, {i \in DOMAIN results : results[i].check \in checks})

\* summarize_request_results: the counts and the distributions
Summarize(results) ==
    LET successes == Successes(results)
    IN  [request_count |-> Len(results),
         success_count |-> Len(successes),
         error_count |-> Len(results) - Len(successes),
         latency |-> Distribution(Field(successes, "latency")),
         observed_latency |-> Distribution(Field(results, "latency")),
         failed_latency |-> Distribution(Field(Failures(results), "latency")),
         ttft |-> Distribution(Present(Field(successes, "ttft"))),
         visible_ttft |-> Distribution(Present(Field(successes, "visible"))),
         reasoning_ttft |-> Distribution(Present(Field(successes, "reasoning"))),
         itl |-> Distribution(FlattenSeq(Field(successes, "itl"))),
         check_pass_count |-> Len(CheckedFor(results, {"passed"})),
         check_count |-> Len(CheckedFor(results, {"passed", "failed"}))]

\* The order every distribution has: of its extremes, its average and its percentiles.
Ordered(d) ==
    d.count > 0 =>
        /\ d.min <= d.avg /\ d.avg <= d.max
        /\ \A p \in Percentiles : d.min <= d.percentile[p] /\ d.percentile[p] <= d.max
        /\ \A p, q \in Percentiles : p <= q => d.percentile[p] <= d.percentile[q]

Distributions == {"latency", "observed_latency", "failed_latency", "ttft", "visible_ttft",
                  "reasoning_ttft", "itl"}
=============================================================================
