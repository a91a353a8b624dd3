----------------------------- MODULE Statistics -----------------------------
(***************************************************************************)
(* agent/nodes/anomaly_detector.py: the alerts computed from the rows of   *)
(* an answer.  Numbers are integers, whose quotients are compared by       *)
(* multiplying out, or one of the three values of a float that are not     *)
(* finite.  The table grows by a row a step, and every operator is         *)
(* evaluated on every table there is.                                      *)
(***************************************************************************)
EXTENDS Selection, Functions, FiniteSetsExt, SequencesExt

CONSTANTS
    Rows,             \* the rows a table may have: tuples of values
    NULL,             \* None
    Text,             \* a value that is no number
    NaN,              \* a float that is no number, and equal to nothing
    PosInf, NegInf,   \* the infinite floats
    MaxRows           \* bound: how many rows the checked tables have

Infinite == {PosInf, NegInf}
Values == Int \union Infinite \union {NULL, Text, NaN}

ASSUME StatisticsAssumption == MaxRows \in Nat

\* All rows have the same columns.
ASSUME RowsAssumption ==
    /\ Rows # {}
    /\ \A row \in Rows : row \in Seq(Values)
    /\ \A row, other \in Rows : Len(row) = Len(other)
ASSUME ValuesAssumption ==
    LET special == {NULL, Text, NaN, PosInf, NegInf}
    IN  Cardinality(special) = 5 /\ \A v \in special : v \notin Int

VARIABLE table  \* execution_result

Init == table = <<>>

AddRow == Len(table) < MaxRows /\ \E row \in Rows : table' = Append(table, row)

Spec == Init /\ [][AddRow]_table

Width == CHOOSE w \in {Len(row) : row \in Rows} : TRUE
Column(c) == [i \in DOMAIN table |-> table[i][c]]

\* The values that _safe_float keeps, which are not all finite.
IsNumber(v) == v \notin {NULL, Text}
Floats(c) == Where(Column(c), IsNumber)

Total(values) ==
    LET upTo[i \in 0..Len(values)] == IF i = 0 THEN 0 ELSE upTo[i - 1] + values[i]
    IN  upTo[Len(values)]
Squares(values) == [i \in DOMAIN values |-> values[i] * values[i]]
FirstOf(s, k) == SubSeq(s, 1, Min({k, Len(s)}))
Abs(n) == IF n < 0 THEN -n ELSE n

-----------------------------------------------------------------------------
Alert(kind, c, v) == [kind |-> kind, column |-> c, value |-> v]

\* With n values of sum s and sum of squares q, the mean is s / n and n * n
\* times the variance is n * q - s * s.
Spread(values) ==
    Len(values) * Total(Squares(values)) - Total(values) * Total(values)

\* |z| > 2.5, both sides squared and multiplied by 4 n n.
Far(deviation, spread) == 4 * deviation * deviation > 25 * spread

\* The variance of values that are not all finite is no number, and not > 0.
Measurable(values) ==
    Len(values) >= 5 /\ Range(values) \subseteq Int /\ Spread(values) # 0

\* Faulty: deviations are compared with 2.5 variances, for want of the root.
OutlyingByVariance(values) ==
    LET n == Len(values)
    IN  IF Measurable(values)
        THEN Where(values, LAMBDA v : 2 * n * Abs(n * v - Total(values)) > 5 * Spread(values))
        ELSE <<>>

Outlying(values) ==
    LET n == Len(values)
        sum == Total(values)
        spread == Spread(values)
    IN  IF Measurable(values) THEN Where(values, LAMBDA v : Far(n * v - sum, spread)) ELSE <<>>

Outliers(values, c) ==
    LET found == FirstOf(Outlying(values), 3)
    IN  [i \in DOMAIN found |-> Alert("outlier", c, found[i])]

\* Faulty: a change of 100 % is a jump.
JumpsAlmost(prev, curr) ==
    /\ prev \in Int \ {0}
    /\ curr \in Infinite \/ (curr \in Int /\ Abs(curr - prev) >= Abs(prev))

\* A change of more than 100 % of what was there before.  A change from an
\* infinite value, and one from or to NaN, is NaN.
Jumps(prev, curr) ==
    /\ prev \in Int \ {0}
    /\ curr \in Infinite \/ (curr \in Int /\ Abs(curr - prev) > Abs(prev))

\* Of a change that is a jump: change > 0.
Upwards(prev, curr) == curr = PosInf \/ (curr \in Int /\ curr > prev)

Spikes(values, c) ==
    LET steps == [i \in 1..(Len(values) - 1) |-> <<values[i], values[i + 1]>>]
        found == FirstOf(Where(steps, LAMBDA p : Jumps(p[1], p[2])), 2)
    IN  IF Len(values) < 4 THEN <<>>
        ELSE [i \in DOMAIN found |->
                Alert(IF Upwards(found[i][1], found[i][2]) THEN "spike" ELSE "drop", c, found[i][2])]

\* Counter.most_common(1): the first met of those that are met most often, where
\* every NaN is a value of its own.
CountOf(v, values) == IF v = NaN THEN 1 ELSE Cardinality({i \in DOMAIN values : values[i] = v})
MostCommon(values) ==
    values[Min({i \in DOMAIN values :
                  \A j \in DOMAIN values :
                      CountOf(values[j], values) <= CountOf(values[i], values)})]

Concentration(values, c) ==
    LET v == MostCommon(values)
    IN  IF /\ Len(values) >= 3
           /\ 2 * CountOf(v, values) > Len(values)
           /\ CountOf(v, values) < Len(values)
        THEN <<Alert("concentration", c, v)>>
        ELSE <<>>

NullConcentration(c) ==
    LET nulls == CountOf(NULL, Column(c))
    IN  IF 10 * nulls > 3 * Len(table) /\ nulls > 2
        THEN <<Alert("nulls", c, nulls)>>
        ELSE <<>>

ColumnAlerts(c) ==
    LET values == Floats(c)
    IN  IF Len(values) < 3 THEN <<>>
        ELSE Outliers(values, c) \o Spikes(values, c) \o Concentration(values, c)

Found ==
    FlattenSeq([c \in 1..Width |-> ColumnAlerts(c)])
        \o FlattenSeq([c \in 1..Width |-> NullConcentration(c)])

\* What the answer carries.
Anomalies == IF Len(table) < 3 THEN <<>> ELSE FirstOf(Found, 5)

-----------------------------------------------------------------------------
(***************************************************************************)
(* Properties.                                                             *)
(***************************************************************************)

\* What is called an outlier is rare, by Chebyshev's inequality: at most 4 of 25
\* values, so that columns of five and six are examined (anomaly_detector.py:27)
\* but have none.  That is because z is compared with 2.5 (line 40); with the 2
\* that the docstring names ("|z| > 2", line 26) a column of six could have one.
OutliersAreRare ==
    \A c \in 1..Width :
        LET values == Floats(c)
        IN  25 * Len(Outlying(values)) <= 4 * Len(values)

\* In a column without negative numbers nothing is ever reported as a drop,
\* not even one to zero: such a drop is one of 100 % at most, and only
\* changes of more than that are looked at (anomaly_detector.py:79-81).
Negative(v) == v = NegInf \/ (v \in Int /\ v < 0)
DropsEndBelowZero ==
    LET alerts == Anomalies
    IN  \A i \in DOMAIN alerts :
            alerts[i].kind = "drop" =>
                LET values == Floats(alerts[i].column)
                IN  \E j \in DOMAIN values : Negative(values[j])
=============================================================================
