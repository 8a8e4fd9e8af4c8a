-------------------------------- MODULE CuPlot --------------------------------
(***************************************************************************)
(* QuTrendPlot: the readers it keeps in its CuContext, one curve for each  *)
(* of its sources (QuPlotBase, QuPlotCurve), and the points of the curves  *)
(* (CurveData).  A live value is appended; the vectors a historical        *)
(* database answers with are merged with what the curve has, and so are    *)
(* the notes, instants without a value; the vector of a source that has    *)
(* no time scale is merged by index.  Beyond the size of the buffer the    *)
(* oldest points are dropped, before a value is appended and after a       *)
(* vector is merged.                                                       *)
(*                                                                         *)
(* What is drawn are pointers into the vectors of CurveData, taken by      *)
(* updateRawData: they are modelled by the points they were taken for.     *)
(* A point that was appended carries a number, which the code has not, to  *)
(* tell live values of one instant: the instants of live values are those  *)
(* of the device, of the client's clock after an error, or one more than   *)
(* the last, and they repeat and go back.  Scales, zoom and marker are     *)
(* left out.  Everything runs in one thread.                               *)
(***************************************************************************)
EXTENDS Integers, Sequences, FiniteSets, SequencesExt, Selection

CONSTANTS
  TimedSources,       \* sources whose data comes with its instant
  VectorSources,      \* sources of vectors without a time scale
  PlotValues,
  PlotBuffer,         \* dataBufferSize; not positive: no limit
  MaxInstant,         \* bound on instants and on the length of vectors
  MaxLive,            \* bound on the live values of a curve
  RepeatedInstants,   \* a database answers with instants the curve has already
  VectorErrors,       \* a source of vectors sends errors, or scalars
  DefaultY,           \* the lower bound of the y axis
  PlotGarbage         \* an element read beyond the end of a vector

PlotSources == TimedSources \union VectorSources

ASSUME PlotAssumption ==
  /\ TimedSources \intersect VectorSources = {} /\ IsFiniteSet(PlotSources)
  /\ PlotBuffer \in Int /\ MaxInstant \in Nat /\ MaxLive \in Nat
  /\ RepeatedInstants \in BOOLEAN /\ VectorErrors \in BOOLEAN

VARIABLES
  linked,     \* CuContext: the sources of its readers
  curves,     \* the sources with a curve
  points,     \* CurveData of each curve
  drawn,      \* what the curve draws
  arrivals,   \* history: the live values received since the curve was made
  received    \* history: the points received, the last value for an instant that was merged
plotVars == <<linked, curves, points, drawn, arrivals, received>>

Instants(pts) == {pts[k].x : k \in 1..Len(pts)}

\* n: the place of a live value among those received; 0 for what was merged.
LivePoint(x, y, n) == [x |-> x, y |-> y, n |-> n]
Point(x, y) == LivePoint(x, y, 0)

-----------------------------------------------------------------------------
(* CurveData                                                               *)

Latest(pts, n) == IF n > 0 /\ Len(pts) > n THEN SubSeq(pts, Len(pts) - n + 1, Len(pts)) ELSE pts

\* m_get_yval, for an index from 0: beyond the values given, which notes have
\* none of, it looks one place back among those of the curve, and not further
\* back than one place beyond its end.
GetYVal(given, idx, pts) ==
  LET i == IF idx - 1 > Len(pts) THEN Len(pts) ELSE idx - 1
  IN  IF idx < Len(given) THEN given[idx + 1]
      ELSE IF i < 0 THEN DefaultY
      ELSE IF i < Len(pts) THEN pts[i + 1].y ELSE PlotGarbage

\* One new instant among those of the curve.  The value that replaces another
\* is looked up at the index of the curve, not at that of the new data.
Placed(pts, xs, given, j) ==
  LET at == CHOOSE k \in 1..Len(pts) :
              xs[j] <= pts[k].x /\ \A h \in 1..(k - 1) : pts[h].x < xs[j]
  IN  IF pts[at].x = xs[j]
      THEN [pts EXCEPT ![at].y = GetYVal(given, at - 1, pts)]
      ELSE InsertAt(pts, at, Point(xs[j], GetYVal(given, j - 1, pts)))

\* insert: what is beyond the last instant of the curve is appended at the end.
Merged(pts, xs, given) ==
  LET amongst == Cardinality({j \in 1..Len(xs) : \E k \in 1..Len(pts) : xs[j] <= pts[k].x})
      placed[j \in 0..amongst] == IF j = 0 THEN pts ELSE Placed(placed[j - 1], xs, given, j)
      among == placed[amongst]
  IN  among \o [j \in 1..(Len(xs) - amongst) |->
                  Point(xs[amongst + j], GetYVal(given, amongst + j - 1, among))]

-----------------------------------------------------------------------------
(* QuPlotBase                                                              *)

InsertData(pts, xs, given) == Latest(Merged(pts, xs, given), PlotBuffer)
AppendData(pts, e) == Append(Latest(pts, PlotBuffer), e)

\* What is drawn is left as it was.
BugUpdateRawData(s, pts) ==
  points' = [points EXCEPT ![s] = pts] /\ drawn' = drawn

\* The curve draws its new points.
UpdateRawData(s, pts) ==
  points' = [points EXCEPT ![s] = pts] /\ drawn' = [drawn EXCEPT ![s] = pts]

\* removeCurve, clearData, and a new curve
Emptied(f, ss) == [s \in PlotSources |-> IF s \in ss THEN <<>> ELSE f[s]]
Forget(ss) ==
  /\ points' = Emptied(points, ss) /\ drawn' = Emptied(drawn, ss)
  /\ received' = [s \in PlotSources |-> IF s \in ss THEN {} ELSE received[s]]
  /\ arrivals' = [s \in PlotSources |-> IF s \in ss THEN 0 ELSE arrivals[s]]

\* The values merged at some instants are these from now on.
Note(s, new) ==
  LET known == {p.x : p \in new}
  IN /\ received' = [received EXCEPT ![s] = {p \in @ : p.n = 0 => p.x \notin known} \union new]
     /\ UNCHANGED arrivals

-----------------------------------------------------------------------------
(* QuTrendPlot and CuContext: sources                                      *)

Disposed(s) == Kept(linked, {k \in 1..Len(linked) : linked[k] # s})

PlotAddSource(s) ==
  /\ linked' = Append(Disposed(s), s)
  /\ UNCHANGED <<curves, points, drawn, arrivals, received>>

\* setSources unsets all of them first; a source named twice is linked once.
PlotSetSources(ss) ==
  /\ curves' = curves \ Range(linked) /\ Forget(Range(linked))
  /\ linked' = ss

PlotUnsetSource(s) ==
  /\ linked' = Disposed(s)
  /\ curves' = curves \ {s} /\ Forget({s})

ClearPlot == Forget(curves) /\ UNCHANGED <<linked, curves>>

-----------------------------------------------------------------------------
(* QuTrendPlot: update                                                     *)

\* The first data of a source, linked or not, makes its curve.
Updates(s) == curves' = curves \union {s} /\ UNCHANGED linked

UpdateProperty(s) == Updates(s) /\ UNCHANGED <<points, drawn, arrivals, received>>

\* A value, or an error, which repeats the last value.
UpdateScalar(s, x) ==
  /\ Updates(s) /\ (s \in TimedSources \/ VectorErrors) /\ arrivals[s] < MaxLive
  /\ LET lastValue == IF points[s] = <<>> THEN DefaultY ELSE Last(points[s]).y
         n == arrivals[s] + 1
     IN \E y \in PlotValues \union {lastValue} :
          /\ UpdateRawData(s, AppendData(points[s], LivePoint(x, y, n)))
          /\ received' = [received EXCEPT ![s] = @ \union {LivePoint(x, y, n)}]
          /\ arrivals' = [arrivals EXCEPT ![s] = n]

\* The answer of a historical database: the values of the source at the
\* instants xs, in order, and notes at the instants ns.
UpdateHistory(s, xs, ns) ==
  /\ Updates(s) /\ s \in TimedSources
  /\ Range(xs) \intersect Range(ns) = {}
  /\ RepeatedInstants \/ Instants(points[s]) \intersect (Range(xs) \union Range(ns)) = {}
  /\ \E given \in [1..Len(xs) -> PlotValues] :
       /\ UpdateRawData(s, InsertData(InsertData(points[s], xs, given), ns, <<>>))
       /\ Note(s, {Point(xs[j], given[j]) : j \in DOMAIN xs} \union
                  {Point(x, PlotGarbage) : x \in Range(ns)})

\* A vector without a time scale: its indexes are the instants.
UpdateVector(s, n) ==
  /\ Updates(s) /\ s \in VectorSources
  /\ \E given \in [1..n -> PlotValues] :
       LET xs == [j \in 1..n |-> j - 1]
       IN /\ UpdateRawData(s, InsertData(points[s], xs, given))
          /\ Note(s, {Point(xs[j], given[j]) : j \in 1..n})

-----------------------------------------------------------------------------
InitPlot ==
  /\ linked = <<>> /\ curves = {}
  /\ points = [s \in PlotSources |-> <<>>] /\ drawn = points
  /\ received = [s \in PlotSources |-> {}] /\ arrivals = [s \in PlotSources |-> 0]

\* Instants in order.
Past == UNION {{xs \in [1..n -> 1..MaxInstant] : \A i, j \in 1..n : i < j => xs[i] < xs[j]} :
               n \in 0..MaxInstant}

NextPlot ==
  \/ \E s \in PlotSources : PlotAddSource(s) \/ PlotUnsetSource(s) \/ UpdateProperty(s)
  \/ \E ss \in SUBSET PlotSources : PlotSetSources(SetToSeq(ss))
  \/ ClearPlot
  \/ \E s \in PlotSources :
       \/ \E x \in 0..MaxInstant : UpdateScalar(s, x)
       \/ \E xs, ns \in Past : UpdateHistory(s, xs, ns)
       \/ \E n \in 1..MaxInstant : UpdateVector(s, n)

SpecPlot == InitPlot /\ [][NextPlot]_plotVars

-----------------------------------------------------------------------------
(* Properties                                                              *)

\* However live values, answers of the database, notes and vectors alternate,
\* and whatever the instants of the live values, a curve shows what was merged
\* after earlier instants only, and the live values in the order they came, the
\* latest of them without a gap; as much as the buffer holds of what was
\* received for its source since it was made or cleared, one point more after
\* an append; each point with the value received for it (a note has none of its
\* own), and the highest indexes of a vector (quplot_base.cpp:516-518: ``the
\* resulting set is the union of existing and new data ordered by x'').
PlotShowsLatest ==
  \A s \in curves :
    LET pts == drawn[s]
        ids == {<<p.x, p.n>> : p \in received[s]}
        Shows(x, n) == \E k \in 1..Len(pts) : pts[k].x = x /\ pts[k].n = n
    IN  /\ \A h, k \in 1..Len(pts) :
             h < k => IF pts[k].n = 0 THEN pts[h].x < pts[k].x ELSE pts[h].n < pts[k].n
        /\ \A k \in 1..Len(pts) : pts[k].n > 0 =>
             \A n \in pts[k].n..arrivals[s] : \E h \in 1..Len(pts) : pts[h].n = n
        /\ IF PlotBuffer <= 0 \/ Cardinality(ids) <= PlotBuffer
           THEN Len(pts) = Cardinality(ids)
           ELSE Len(pts) \in {PlotBuffer, PlotBuffer + 1}
        /\ \A k \in 1..Len(pts) :
             pts[k] \in received[s] \/ [pts[k] EXCEPT !.y = PlotGarbage] \in received[s]
        /\ s \in VectorSources =>
             \A p \in received[s] : Shows(p.x, p.n) \/ \A k \in 1..Len(pts) : p.x < pts[k].x
=============================================================================
