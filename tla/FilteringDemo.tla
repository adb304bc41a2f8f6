---------------------------- MODULE FilteringDemo ----------------------------
(****************************************************************************)
(* filter_measurements of Chapter 7: a file of timed measurements is        *)
(* validated line by line, and the valid ones go through a moving average,  *)
(* an exponential filter, or both.                                          *)
(*                                                                          *)
(* Values are integers and the arithmetic is exact: the exponential value   *)
(* is a fraction, and the average a sum and a count.  A line of the file is *)
(* a record with a kind: "blank"; "short", with too few fields or a time    *)
(* that is no number; "text", with a value that is none; "missing";         *)
(* "nonfinite"; or "value".                                                 *)
(****************************************************************************)
EXTENDS Integers, Sequences, SequencesExt, FiniteSetsExt

CONSTANTS
    Options,             \* command lines: [window, alpha, minimum, maximum, rate];
                         \* a window or an alpha of 0 is one not asked for
    AlphaDenominator,    \* alpha is options.alpha / AlphaDenominator
    CsvLines,            \* the lines there may be: [kind, time, value]
    MaxLines             \* bound: lines of a file

VARIABLES
    options,
    csvState,            \* "opening", "reading", "written", "failed"
    csvRead,             \* lines read so far
    previousTime,        \* <<>> or <<previous_time>>
    previousValid,       \* the validator's <<>> or <<[value, time]>>
    average,             \* MovingAverage: [samples, next_index, sample_count, sum]
    exponential,         \* ExponentialFilter: <<>> or <<[num, den]>>
    counts,              \* StatusCounts
    output               \* the rows written: [time, value, status, average, exponential]

vars == <<options, csvState, csvRead, previousTime, previousValid, average,
          exponential, counts, output>>

Statuses == {"Valid", "Missing", "NonFinite", "OutOfRange", "ImplausibleRateOfChange"}

\* parse_options: at least one filter; the window is positive if given.
OptionsOK == \A o \in Options : o.window \in Nat /\ (o.window > 0 \/ o.alpha # 0)

Init ==
    /\ options \in Options
    /\ csvState = "opening" /\ csvRead = 0
    /\ previousTime = <<>> /\ previousValid = <<>>
    /\ average = [samples |-> [i \in 1..options.window |-> 0],
                  next_index |-> 1, sample_count |-> 0, sum |-> 0]
    /\ exponential = <<>>
    /\ counts = [s \in Statuses |-> 0]
    /\ output = <<>>

\* validate_config, and the constructor of the exponential filter
validate_config(o) == o.minimum < o.maximum /\ o.rate >= 0
alphaOK(o) == o.alpha = 0 \/ o.alpha \in 1..AlphaDenominator

\* The files are opened, the header names both columns and the filters accept their
\* parameters, or the program fails before a row is written.
Open ==
    /\ csvState = "opening"
    /\ \/ csvState' = "reading" /\ validate_config(options) /\ alphaOK(options)
       \/ csvState' = "failed"
    /\ UNCHANGED <<options, csvRead, previousTime, previousValid, average, exponential,
                   counts, output>>

--------------------------------------------------------------------------------
(* MeasurementValidator::validate *)

Change(a, b) == IF a > b THEN a - b ELSE b - a

plausible(time, value) ==
    \A p \in Range(previousValid) :
        Change(value, p.value) <= options.rate * (time - p.time)

status(l) ==
    CASE l.kind = "missing"   -> "Missing"
      [] l.kind = "nonfinite" -> "NonFinite"
      [] OTHER -> IF l.value < options.minimum \/ l.value > options.maximum THEN "OutOfRange"
                  ELSE IF plausible(l.time, l.value) THEN "Valid"
                  ELSE "ImplausibleRateOfChange"

\* Mutant: a value refused for its rate becomes the one the next is compared with.
baseline_Moves(l) ==
    IF status(l) \in {"Valid", "ImplausibleRateOfChange"}
    THEN <<[value |-> l.value, time |-> l.time]>> ELSE previousValid

\* Only a valid value becomes the one the next is compared with.
baseline(l) ==
    IF status(l) = "Valid" THEN <<[value |-> l.value, time |-> l.time]>> ELSE previousValid

--------------------------------------------------------------------------------
(* The filters *)

\* MovingAverage::update.  Slots not yet used hold 0, so that only the count differs
\* while the window fills.
averageUpdated(a, value) ==
    LET size == Len(a.samples) IN
    [samples |-> [a.samples EXCEPT ![a.next_index] = value],
     next_index |-> (a.next_index % size) + 1,
     sample_count |-> IF a.sample_count < size THEN a.sample_count + 1 ELSE size,
     sum |-> IF a.sample_count < size THEN a.sum + value
             ELSE a.sum - a.samples[a.next_index] + value]

\* ExponentialFilter::update, on a fraction
exponentialUpdated(e, value) ==
    IF e = <<>> THEN <<[num |-> value, den |-> 1]>>
    ELSE <<[num |-> e[1].num * (AlphaDenominator - options.alpha)
                    + options.alpha * value * e[1].den,
            den |-> e[1].den * AlphaDenominator]>>

--------------------------------------------------------------------------------
(* run *)

Accepted(l) ==
    /\ counts' = [counts EXCEPT ![status(l)] = @ + 1]
    /\ previousTime' = <<l.time>>
    /\ previousValid' = baseline(l)
    /\ average' = IF status(l) = "Valid" /\ options.window > 0
                  THEN averageUpdated(average, l.value) ELSE average
    /\ exponential' = IF status(l) = "Valid" /\ options.alpha > 0
                      THEN exponentialUpdated(exponential, l.value) ELSE exponential
    /\ output' = Append(output,
            [time |-> l.time, kind |-> l.kind, value |-> l.value, status |-> status(l),
             average |-> [sum |-> average'.sum, count |-> average'.sample_count],
             exponential |-> exponential'])
    /\ UNCHANGED csvState

Rejected ==
    /\ csvState' = "failed"
    /\ UNCHANGED <<previousTime, previousValid, average, exponential, counts, output>>

\* The next line: an empty one is passed over, one that cannot be read ends the program.
ReadLine ==
    /\ csvState = "reading" /\ csvRead < MaxLines
    /\ csvRead' = csvRead + 1
    /\ \E l \in CsvLines :
        \/ /\ l.kind = "blank"
           /\ UNCHANGED <<csvState, previousTime, previousValid, average, exponential,
                          counts, output>>
        \/ l.kind = "short" /\ Rejected
        \/ /\ l.kind \notin {"blank", "short"}
           /\ \E p \in Range(previousTime) : l.time <= p
           /\ Rejected
        \/ /\ l.kind \notin {"blank", "short"}
           /\ \A p \in Range(previousTime) : l.time > p
           /\ IF l.kind = "text" THEN Rejected ELSE Accepted(l)
    /\ UNCHANGED options

EndOfFile ==
    /\ csvState = "reading"
    /\ csvState' = "written"
    /\ UNCHANGED <<options, csvRead, previousTime, previousValid, average, exponential,
                   counts, output>>

Ended == csvState \in {"written", "failed"}

Next == Open \/ ReadLine \/ EndOfFile

--------------------------------------------------------------------------------
(* Properties, of the rows written *)

ValidUpTo(i) == {j \in 1..i : output[j].status = "Valid"}
LastValid(i) == Max(ValidUpTo(i - 1))
InRange(row) == row.kind = "value" /\ options.minimum <= row.value /\ row.value <= options.maximum

\* A row in range is valid exactly if the rate from the row valid before it, over all
\* the time between the two, is allowed: one bad sample does not make the next one
\* bad, and a step that lasts is accepted once enough time has passed.
ValidMeansPlausible ==
    \A i \in DOMAIN output :
        LET row == output[i] IN
        row.status = "Valid" <=>
            /\ InRange(row)
            /\ ValidUpTo(i - 1) # {} =>
                   Change(row.value, output[LastValid(i)].value)
                       <= options.rate * (row.time - output[LastValid(i)].time)

\* the positions of the last valid rows that fill the window
InWindow(i) == {j \in ValidUpTo(i) : Cardinality({k \in ValidUpTo(i) : k >= j}) <= options.window}

\* The average written with a row is that of the last valid values up to it, as many as
\* the window holds; the rejected ones never enter it.
AverageIsOfTheWindow ==
    options.window > 0 =>
        \A i \in DOMAIN output :
            /\ output[i].average.count = Cardinality(InWindow(i))
            /\ output[i].average.sum = MapThenSumSet(LAMBDA j : output[j].value, InWindow(i))

\* The exponential value stays between the valid values it was made of.
ExponentialIsBetween ==
    \A i \in DOMAIN output : \A e \in Range(output[i].exponential) :
        /\ \E j \in ValidUpTo(i) : output[j].value * e.den <= e.num
        /\ \E j \in ValidUpTo(i) : output[j].value * e.den >= e.num

\* The filters see the valid measurements and nothing else, and the summary counts
\* every row once (FilteringDemo/main.cpp:420-496).
FilteringFaithful ==
    /\ ValidMeansPlausible /\ AverageIsOfTheWindow /\ ExponentialIsBetween
    /\ \A s \in Statuses : counts[s] = Cardinality({i \in DOMAIN output : output[i].status = s})
    /\ \A i, j \in DOMAIN output : i < j => output[i].time < output[j].time
================================================================================
