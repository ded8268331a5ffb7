------------------------------ MODULE Fractions ------------------------------
(***************************************************************************)
(* Exact arithmetic for the measures: a mean is a pair <<n, d>>, Python's  *)
(* None is <<>>.  Rounding of what is only reported is left out; the       *)
(* ratios that are used as weights after rounding are whole Parts (100 in  *)
(* the code), by Rounded.                                                  *)
(***************************************************************************)
EXTENDS Integers, Sequences, FiniteSets, SequencesExt, TLC

None == <<>>

\* The sums of the first n members.
Running(s) ==
  LET sum[n \in 0..Len(s)] == IF n = 0 THEN 0 ELSE sum[n - 1] + s[n] IN
  sum
Total(s) == Running(s)[Len(s)]
Mean(s) == <<Total(s), Len(s)>>

\* What np.std is the root of.
Variance(s) == 
  <<Len(s) * Total([i \in 1..Len(s) |-> s[i] * s[i]]) - Total(s) * Total(s), Len(s) * Len(s)>>

Plus(a, b) == <<a[1] * b[2] + b[1] * a[2], a[2] * b[2]>>
Same(a, b) == a[1] * b[2] = b[1] * a[2]
AtMost(a, b) == a[1] * b[2] <= b[1] * a[2]

\* round(n / d) to a whole number, a half to the even one.
Rounded(n, d) ==
  LET q == n \div d
      r == 2 * (n % d) IN
  IF r > d \/ (r = d /\ q % 2 = 1) THEN q + 1 ELSE q

\* The members of s at some of its places, in order.
Chosen(s, places) ==
  LET kept[n \in 0..Len(s)] ==
        IF n = 0 THEN <<>>
        ELSE IF n \in places THEN Append(kept[n - 1], s[n]) ELSE kept[n - 1] IN
  kept[Len(s)]

\* dict.get
Get(m, key, default) == IF key \in DOMAIN m THEN m[key] ELSE default

\* What f has, and what only g has: @@, with a definition a proof can use.
Merged(f, g) == [key \in DOMAIN f \union DOMAIN g |-> IF key \in DOMAIN f THEN f[key] ELSE g[key]]

Column(rows, key) == [i \in 1..Len(rows) |-> rows[i][key]]
\* sorted with a key: what is equal keeps its order.
SortedBy(s, keys) ==
  LET rank == [i \in 1..Len(s) |->
                Cardinality({j \in 1..Len(s) : keys[j] < keys[i] \/ (keys[j] = keys[i] /\ j <= i)})] IN
  [k \in 1..Len(s) |-> s[CHOOSE i \in 1..Len(s) : rank[i] = k]]
Ascending(s) == SortedBy(s, s)
Descending(s) == SortedBy(s, [i \in 1..Len(s) |-> -s[i]])

Highest(s) == s[CHOOSE i \in 1..Len(s) : \A j \in 1..Len(s) : s[j] <= s[i]]

Median(s) ==
  LET up == Ascending(s)
      n == Len(s) IN
  <<up[(n + 1) \div 2] + up[(n \div 2) + 1], 2>>

\* np.percentile: linear between the two values next to the place.
Percentile(s, p) ==
  LET up == Ascending(s)
      at == p * (Len(s) - 1)
      low == up[(at \div 100) + 1]
      high == up[((at + 99) \div 100) + 1] IN
  <<low * (100 - (at % 100)) + high * (at % 100), 100>>

\* _wmean: of the values that are there and have weight.
WeightedMean(pairs) ==
  LET valid == Chosen(pairs, {i \in 1..Len(pairs) : pairs[i].v # None /\ pairs[i].w > 0})
      weight == Total(Column(valid, "w"))
      sum == FoldLeft(LAMBDA a, p : Plus(a, <<p.v[1] * p.w, p.v[2]>>), <<0, 1>>, valid) IN
  IF valid = <<>> THEN None ELSE <<sum[1], sum[2] * weight>>
=============================================================================
