---------------------------- MODULE CuFormulaReader ----------------------------
(***************************************************************************)
(* A reader whose source is a formula: it makes a watcher for each source  *)
(* of the formula, keeps the last value of each, and computes the formula  *)
(* when it has all of them, at each new value.  A formula that cannot be   *)
(* used as such is computed in a thread of its own (SimpleFormulaEval).    *)
(* The result of the formula is represented by the values it is computed   *)
(* from.                                                                   *)
(*                                                                         *)
(* Everything but that thread runs in the main thread.  The parser only    *)
(* ever adds to the sources it has found: a second formula has its sources *)
(* after those of the first, and one that does not fit them leaves fewer   *)
(* values than sources, and the next data reads beyond the values.         *)
(***************************************************************************)
EXTENDS Naturals, Sequences, SequencesExt

CONSTANTS
  FormulaSources, FormulaValues,
  Formulas,           \* what setSource is given: the sources, <<>> if it is no formula
  MaxFormulaSources,  \* bound on the sources the parser has found
  MaxEvals,           \* bound on the threads of what is no formula
  RepeatedSources,    \* a source may be twice among those of a formula: of the
                      \* second the value is never set, as data goes to the first
  NoFormulaValue

ASSUME FormulaAssumption ==
  /\ NoFormulaValue \notin FormulaValues /\ MaxEvals \in Nat /\ MaxFormulaSources \in Nat
  /\ Formulas \subseteq Seq(FormulaSources) /\ RepeatedSources \in BOOLEAN

VARIABLES
  formulaSrcs, \* the sources the parser has found, since it was made
  watchers,    \* the sources that have a watcher
  failedSrcs,  \* SetSrcFailedEvents that were posted
  evals,       \* SimpleFormulaEvals whose result is still to come
  values,      \* d->values, and what is kept with each value
  updated,     \* what the last onUpdate brought: value, error, raw data
  computed,    \* the values of the last computation, since setSource
  goodRead,    \* history: the last value read of each source, since setSource
  outOfRange   \* values were read or written beyond the end
formulaVars == <<formulaSrcs, watchers, failedSrcs, evals, values, updated, computed,
                 goodRead, outOfRange>>

NoGoodRead == [s \in FormulaSources |-> NoFormulaValue]
\* There is a value for each source.
Indexed == Len(values) = Len(formulaSrcs)

-----------------------------------------------------------------------------
(* setSource                                                               *)

\* The values of the formula before are kept.
BugClearedValues(srcs) ==
  [i \in 1..Len(srcs) |-> IF i <= Len(values) THEN values[i] ELSE NoFormulaValue]

ClearedValues(srcs) == [i \in 1..Len(srcs) |-> NoFormulaValue]

\* The formula fits: it has a parameter for each source found by now.  All get
\* a new watcher; known: those that have an engine.
WatchSources(srcs, known) ==
  /\ RepeatedSources \/ IsInjective(srcs)
  /\ watchers' = ToSet(srcs) \intersect known
  /\ failedSrcs' = failedSrcs \union (ToSet(srcs) \ known)
  /\ values' = ClearedValues(srcs)
  /\ UNCHANGED evals

\* It does not, or is no formula: the values are gone, the watchers are not.
EvaluateText ==
  /\ evals < MaxEvals /\ evals' = evals + 1
  /\ values' = <<>>
  /\ UNCHANGED <<watchers, failedSrcs>>

SetFormula(f, known, fits) ==
  LET srcs == formulaSrcs \o f IN
  /\ Len(srcs) <= MaxFormulaSources
  /\ formulaSrcs' = srcs
  /\ IF f # <<>> /\ fits THEN WatchSources(srcs, known) ELSE EvaluateText
  /\ updated' = "nothing" /\ computed' = <<>> /\ goodRead' = NoGoodRead
  /\ UNCHANGED outOfRange

-----------------------------------------------------------------------------
(* onNewData                                                               *)

\* Any data, when there are fewer values than sources: combinedMessage goes
\* through the sources.
UpdateBeyond ==
  /\ ~Indexed /\ outOfRange' = TRUE
  /\ UNCHANGED <<values, updated, computed, goodRead>>

\* Data that is an error, or of a source that is not in the formula; without
\* sources data is passed on.
UpdateError ==
  /\ Indexed /\ updated' = IF formulaSrcs = <<>> THEN "raw" ELSE "error"
  /\ UNCHANGED <<values, computed, goodRead, outOfRange>>

\* A value of source s: the formula is computed when all have a value.
UpdateValue(s, v) ==
  LET i == SelectInSeq(formulaSrcs, LAMBDA x : x = s)
      vs == [values EXCEPT ![i] = v]
      complete == ~Contains(vs, NoFormulaValue)
  IN /\ Indexed /\ values' = vs
     /\ updated' = IF complete THEN "value" ELSE updated
     /\ computed' = IF complete THEN vs ELSE computed
     /\ goodRead' = [goodRead EXCEPT ![s] = v]
     /\ UNCHANGED outOfRange

\* Data without a value, as a configuration may be
UpdateNothing == Indexed /\ UNCHANGED <<values, updated, computed, goodRead, outOfRange>>

WatcherData(s) ==
  /\ s \in watchers
  /\ \/ UpdateBeyond \/ UpdateError \/ UpdateNothing
     \/ \E v \in FormulaValues : UpdateValue(s, v)
  /\ UNCHANGED <<formulaSrcs, watchers, failedSrcs, evals>>

\* The result has the text for its source; that of an empty text is dropped.
SimpleResult ==
  /\ evals > 0 /\ evals' = evals - 1
  /\ \/ UpdateBeyond \/ UpdateError
     \/ UNCHANGED <<values, updated, computed, goodRead, outOfRange>>
  /\ UNCHANGED <<formulaSrcs, watchers, failedSrcs>>

SrcFailed(s) ==
  /\ s \in failedSrcs /\ failedSrcs' = failedSrcs \ {s}
  /\ UpdateBeyond \/ UpdateError
  /\ UNCHANGED <<formulaSrcs, watchers, evals>>

-----------------------------------------------------------------------------
InitFormula ==
  /\ formulaSrcs = <<>> /\ watchers = {} /\ failedSrcs = {} /\ evals = 0 /\ values = <<>>
  /\ updated = "nothing" /\ computed = <<>> /\ goodRead = NoGoodRead /\ outOfRange = FALSE

\* Nothing is known of what follows an access beyond the values.
NextFormula ==
  /\ ~outOfRange
  /\ \/ \E f \in Formulas, known \in SUBSET FormulaSources, fits \in BOOLEAN :
          SetFormula(f, known, fits)
     \/ \E s \in FormulaSources : WatcherData(s) \/ SrcFailed(s)
     \/ SimpleResult

SpecFormula == InitFormula /\ [][NextFormula]_formulaVars

-----------------------------------------------------------------------------
(* Properties                                                              *)

\* What the listener was shown of the formula was computed from the last good
\* values of all its sources, those of formulas before included, read since it
\* was set, and it is shown as soon as there are all
\* (cuformulareader.cpp:171-214,289,389), whatever errors, late events and
\* results come in between; after a text that does not fit the sources found
\* nothing is computed, up to the access beyond the values.
FormulaUpToDate ==
  ~outOfRange =>
    computed =
      IF formulaSrcs # <<>> /\ Indexed
         /\ \A s \in ToSet(formulaSrcs) : goodRead[s] # NoFormulaValue
      THEN [i \in 1..Len(formulaSrcs) |-> goodRead[formulaSrcs[i]]] ELSE <<>>
=============================================================================
