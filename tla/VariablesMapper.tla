--------------------------- MODULE VariablesMapper ---------------------------
(***************************************************************************)
(* The global periods of a model and the values of its variables in them    *)
(* (presentation/yaml/mappers/variables_mapper, yaml/domain/time_series.py).*)
(* A time series has its points as a function from dates to values.  A      *)
(* variable is a sequence of dated expressions, in the order written; one   *)
(* without dates is dated DateMin.  An expression is the sum of what it     *)
(* uses and a number.  Linear interpolation is left out.                    *)
(***************************************************************************)
EXTENDS Periods

VARIABLES periods,     \* the global periods
          unresolved,  \* variables_to_process
          processed,   \* processed_variables: a name to a value per period
          cursor,      \* where the for loop is in variables_to_process
          progressed   \* did_process_variable

variablesVars == <<periods, unresolved, processed, cursor, progressed>>

RIGHT == "RIGHT"
LEFT  == "LEFT"

\* The value of a time series at the date d: nothing is known before its first
\* point, and after the last one only when the series is extrapolated.
Fitted(series, d) ==
  LET dates == DOMAIN series.points
      from  == {e \in dates :
                  CASE d < Min(dates) -> FALSE
                    [] d > Max(dates) -> series.extrapolate /\ e = Max(dates)
                    [] series.interpolation = RIGHT -> e = Max({f \in dates : f <= d})
                    [] series.interpolation = LEFT  -> e = Min({f \in dates : f >= d})}
  IN  SumFunctionOnSet(series.points, from)

FittedSeries(all, ps) ==
  [n \in {s.name : s \in all} |->
     [i \in DOMAIN ps |-> Fitted(CHOOSE s \in all : s.name = n, Start(ps[i]))]]

Evaluated(expression, values, i) ==
  expression.plus + SumFunction([n \in expression.uses |-> values[n][i]])

Required(variable) == UNION {e.value.uses : e \in ToSet(variable.entries)}

\* The periods come from the sorted dates, the expressions from the entries as
\* they were written.
VariablePeriods(variable) ==
  CreatePeriods(SortedDates({e.date : e \in ToSet(variable.entries)}), FALSE, TRUE)

Processed(variable, values) ==
  [i \in DOMAIN periods |->
     SumFunction([k \in HoldingPeriod(VariablePeriods(variable), periods[i]) |->
                    Evaluated(variable.entries[k].value, values, i)])]

StartVariables(variables, series, ps) ==
  /\ periods' = ps
  /\ processed' = FittedSeries(series, ps)
  /\ unresolved' = variables
  /\ cursor' = 1
  /\ progressed' = FALSE

\* One turn of the for loop.  A processed variable is removed from the list the
\* loop runs over, so the loop steps over the one behind it.
VisitVariable ==
  /\ cursor <= Len(unresolved)
  /\ LET variable == unresolved[cursor]
         isReady  == Required(variable) \subseteq DOMAIN processed
     IN  IF isReady
         THEN /\ processed' = [n \in DOMAIN processed \cup {variable.name} |->
                                IF n = variable.name THEN Processed(variable, processed) ELSE processed[n]]
              /\ unresolved' = RemoveAt(unresolved, cursor)
              /\ progressed' = TRUE
         ELSE UNCHANGED <<processed, unresolved, progressed>>
  /\ cursor' = cursor + 1
  /\ UNCHANGED periods

RoundEnded == cursor > Len(unresolved)

\* Mutant: the variables are gone through once.
OneRound == FALSE

\* The while loop goes on as long as the last round processed something.
Continues == unresolved # <<>> /\ progressed

NextRound ==
  /\ RoundEnded
  /\ Continues
  /\ cursor' = 1
  /\ progressed' = FALSE
  /\ UNCHANGED <<periods, unresolved, processed>>

=============================================================================
