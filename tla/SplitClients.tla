---------------------------- MODULE SplitClients ----------------------------
(***************************************************************************)
(* internal/modules/split/split.go: how split.New divides the values of a  *)
(* hash among the variants of a test, and which share each gets.           *)
(*                                                                         *)
(* A percentage is counted in thousandths of a percent, and a variant is a *)
(* number that stands for the order of its name.  The code computes in     *)
(* float64, which is exact as long as every portion is a whole number of   *)
(* percent.  Where one is not, uint64(pct * 100) may be one short of what  *)
(* should be an integer, and portions that add up to 100 may leave a crumb *)
(* for whoever is next.  Both are left open, as is the order in which      *)
(* sort.Slice puts equal values: Divisions is the set of what New may come *)
(* to.                                                                     *)
(***************************************************************************)
EXTENDS Integers, Sequences, FiniteSets, Functions

Whole == 100000      \* 100 percent
Residues == 10000    \* what a hash is reduced to
Hashes == 65536      \* the values of the first two bytes of the md5 sum

\* The sums of the first members of a sequence of numbers: of none, of one, ...
Sums(w) == LET sum[i \in 0 .. Len(w)] == IF i = 0 THEN 0 ELSE sum[i - 1] + w[i] IN sum

Total(w) == Sums(w)[Len(w)]

\* A rule that asks for nothing or less is skipped (lines 38-40).
Asked(rules) ==
  [i \in 1 .. Len(rules) |-> IF rules[i].percent > 0 THEN rules[i].percent ELSE 0]

\* The default is like a last rule that asks for everything: it gets what is
\* left, if something is (lines 44-46).
Claims(rules, default) == Append(rules, [percent |-> Whole, value |-> default])

\* What each claim gets: it is cut to what is left of 100 percent (lines 33-42).
Portions(claims) ==
  LET asked    == Sums(Asked(claims))
      taken(i) == IF asked[i] > Whole THEN Whole ELSE asked[i]
  IN  [i \in 1 .. Len(claims) |-> taken(i) - taken(i - 1)]

Exact(portions) == \A i \in 1 .. Len(portions) : portions[i] % 1000 = 0

\* Claims whose uint64(pct * 100) may be one short: a percentage that is not
\* whole, or is what sums with such percentages leave (lines 36, 45, 51).
Doubtful(portions) ==
  {i \in 1 .. Len(portions) :
     /\ ~Exact(portions)
     /\ portions[i] > 0 /\ portions[i] % 10 = 0
     /\ portions[i] % 1000 # 0 \/ \A j \in i + 1 .. Len(portions) : portions[j] = 0}

\* Whose turn it is when everything is taken.
Heir(claims, portions) ==
  {i \in 1 .. Len(claims) :
     /\ claims[i].percent > 0 /\ portions[i] = 0
     /\ \A j \in 1 .. i - 1 : claims[j].percent > 0 => portions[j] > 0}

\* The claims that make a pair: those that get something, be it a crumb.
Pairs(claims, portions) ==
  LET some == {i \in 1 .. Len(claims) : portions[i] > 0}
  IN  {some} \cup IF Exact(portions) THEN {} ELSE {some \cup Heir(claims, portions)}

\* The pairs in the order of their values (line 47).
Orders(claims, pairs) ==
  LET n == Cardinality(pairs)
  IN  {o \in Bijection(1 .. n, pairs) :
         \A k, l \in 1 .. n : k < l => claims[o[k]].value <= claims[o[l]].value}

Bands_OpenEnd(claims, order, short) ==
  LET portions == Portions(claims)
      width    == [k \in 1 .. Len(order) |->
                     portions[order[k]] \div 10 - (IF order[k] \in short THEN 1 ELSE 0)]
  IN  [k \in 1 .. Len(order) |->
         [value |-> claims[order[k]].value, threshold |-> Sums(width)[k]]]

\* The cumulative thresholds; the last is moved to the end (lines 49-56).
Bands(claims, order, short) ==
  LET portions == Portions(claims)
      width    == [k \in 1 .. Len(order) |->
                     portions[order[k]] \div 10 - (IF order[k] \in short THEN 1 ELSE 0)]
  IN  [k \in 1 .. Len(order) |->
         [value |-> claims[order[k]].value,
          threshold |-> IF k = Len(order) THEN Residues ELSE Sums(width)[k]]]

\* What New may come to.
Divisions(rules, default) ==
  LET claims   == Claims(rules, default)
      portions == Portions(claims)
      orders   == UNION {Orders(claims, pairs) : pairs \in Pairs(claims, portions)}
  IN  {Bands(claims, order, short) : order \in orders, short \in SUBSET Doubtful(portions)}

\* How many hashes are below t once reduced: 65536 is no multiple of 10000, and
\* the first 5536 residues stand for one hash more (lines 67-70).
Below(t) ==
  LET extra == Hashes % Residues
  IN  (Hashes \div Residues) * t + (IF t < extra THEN t ELSE extra)

\* How many hashes find value v: the first band whose threshold is above the
\* reduced hash is taken (lines 72-77).
Share(bands, v) ==
  LET from(k) == IF k = 1 THEN 0 ELSE bands[k - 1].threshold
  IN  Total([k \in 1 .. Len(bands) |->
               IF bands[k].value = v THEN Below(bands[k].threshold) - Below(from(k)) ELSE 0])
=============================================================================
