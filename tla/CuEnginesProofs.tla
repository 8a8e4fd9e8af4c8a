---------------------------- MODULE CuEnginesProofs ----------------------------
(***************************************************************************)
(* What TLAPS proves of the engines whose safety module MCEngines checks   *)
(* one at a time and that keep no long queue: the formula reader, the      *)
(* slowing down of Tango's polling activity, the monitors of the random    *)
(* and EPICS engines, the one-shot actions and the devices of Tango, for   *)
(* any number of sources, listeners, activities, threads and devices.      *)
(***************************************************************************)
EXTENDS CuFormulaReader, CuPollingActivity, CuMonitor, CuTOneShot, CuTDevices, SequenceTheorems,
        FiniteSetTheorems, TLAPS

-----------------------------------------------------------------------------
(* The formula reader                                                      *)

\* The values kept are the last read of each source, or none when the last
\* text did not fit, and only sources of the formula have a watcher.
FormulaInv ==
  /\ formulaSrcs \in Seq(FormulaSources)
  /\ Indexed => IsInjective(formulaSrcs)
  /\ goodRead \in [FormulaSources -> FormulaValues \union {NoFormulaValue}]
  /\ values = IF Indexed THEN [i \in 1..Len(formulaSrcs) |-> goodRead[formulaSrcs[i]]] ELSE <<>>
  /\ watchers \subseteq ToSet(formulaSrcs)
  /\ FormulaUpToDate

\* The place of a source in a formula that names it once: the one that
\* onNewData finds.
LEMMA PlaceOfSource ==
  ASSUME NEW f \in Seq(FormulaSources), NEW s, s \in ToSet(f), IsInjective(f)
  PROVE  LET i == SelectInSeq(f, LAMBDA x : x = s) IN i \in 1..Len(f) /\ f[i] = s
<1> DEFINE I == {j \in 1..Len(f) : f[j] = s}
<1>1. PICK k \in 1..Len(f) : f[k] = s
  BY DEF ToSet
<1>2. I = {k}
  BY <1>1 DEF IsInjective
<1>3. Len(f) \in Nat /\ k \in Nat
  BY <1>1
<1>4. Min(I) = k
  BY <1>2, <1>3 DEF Min
<1>5. SelectInSeq(f, LAMBDA x : x = s) = IF I # {} THEN Min(I) ELSE 0
  BY DEF SelectInSeq
<1> QED BY <1>1, <1>2, <1>4, <1>5

\* Only the empty text adds no source.
LEMMA SourcesAdded ==
  ASSUME NEW srcs \in Seq(FormulaSources), NEW f \in Seq(FormulaSources)
  PROVE  /\ srcs \o f \in Seq(FormulaSources) /\ ToSet(srcs) \subseteq ToSet(srcs \o f)
         /\ srcs \o f = <<>> <=> srcs = <<>> /\ f = <<>>
<1> DEFINE all == srcs \o f
<1>1. /\ all \in Seq(FormulaSources) /\ Len(all) = Len(srcs) + Len(f)
      /\ \A i \in 1..Len(srcs) : all[i] = srcs[i]
      /\ Len(srcs) \in Nat /\ Len(f) \in Nat
  OBVIOUS
<1>2. all = <<>> <=> srcs = <<>> /\ f = <<>>
  BY <1>1, EmptySeq
<1>3. ToSet(srcs) \subseteq ToSet(all)
  <2> SUFFICES ASSUME NEW i \in 1..Len(srcs) PROVE srcs[i] \in ToSet(all)
    BY DEF ToSet
  <2> QED BY <1>1 DEF ToSet
<1> QED BY <1>1, <1>2, <1>3

\* setSource: a formula that fits starts with nothing read; after any other text
\* there are no values, and there were sources or there are none.
LEMMA SetFormulaKeeps ==
  ASSUME FormulaInv, RepeatedSources = FALSE, NEW f \in Formulas, NEW known \in SUBSET FormulaSources,
         NEW fits \in BOOLEAN, SetFormula(f, known, fits)
  PROVE  FormulaInv'
<1> DEFINE srcs == formulaSrcs \o f
<1>1. /\ formulaSrcs \in Seq(FormulaSources) /\ f \in Seq(FormulaSources)
      /\ watchers \subseteq ToSet(formulaSrcs)
  BY FormulaAssumption DEF FormulaInv
<1>2. /\ formulaSrcs' = srcs /\ goodRead' = NoGoodRead /\ computed' = <<>>
      /\ \/ WatchSources(srcs, known) /\ f # <<>>
         \/ EvaluateText
  BY DEF SetFormula
<1>3. /\ srcs \in Seq(FormulaSources) /\ ToSet(formulaSrcs) \subseteq ToSet(srcs)
      /\ f # <<>> => srcs # <<>>
  BY <1>1, SourcesAdded
<1> HIDE DEF srcs
<1>4. goodRead' \in [FormulaSources -> FormulaValues \union {NoFormulaValue}]
  BY <1>2 DEF NoGoodRead
<1>5. \A i \in 1..Len(srcs) : srcs[i] \in FormulaSources /\ goodRead'[srcs[i]] = NoFormulaValue
  BY <1>2, <1>3 DEF NoGoodRead
<1>6. srcs # <<>> => \E s \in ToSet(srcs) : goodRead'[s] = NoFormulaValue
  <2> SUFFICES ASSUME srcs # <<>> PROVE \E s \in ToSet(srcs) : goodRead'[s] = NoFormulaValue
    OBVIOUS
  <2>1. 1 \in 1..Len(srcs) /\ DOMAIN srcs = 1..Len(srcs)
    BY <1>3, EmptySeq
  <2> QED BY <2>1, <1>5 DEF ToSet
<1>7. FormulaUpToDate'
  BY <1>2, <1>6 DEF FormulaUpToDate
<1>8. CASE WatchSources(srcs, known)
  <2>1. IsInjective(srcs) /\ watchers' \subseteq ToSet(srcs)
    BY <1>8 DEF WatchSources
  <2>2. values' = [i \in 1..Len(srcs) |-> NoFormulaValue]
    BY <1>8 DEF WatchSources, ClearedValues
  <2>3. values' = [i \in 1..Len(srcs) |-> goodRead'[srcs[i]]]
    BY <2>2, <1>5
  <2>4. Len(srcs) \in Nat
    BY <1>3
  <2>5. Len(values') = Len(srcs)
    BY <2>2, <2>4
  <2>6. Indexed'
    BY <2>5, <1>2 DEF Indexed
  <2> QED BY <2>1, <2>3, <2>6, <1>2, <1>3, <1>4, <1>7 DEF FormulaInv
<1>9. CASE EvaluateText
  <2>1. values' = <<>> /\ watchers' \subseteq ToSet(srcs)
    BY <1>9, <1>1, <1>3 DEF EvaluateText
  <2>2. Indexed' => srcs = <<>>
    BY <2>1, <1>2, <1>3, EmptySeq DEF Indexed
  <2>3. srcs = <<>> => IsInjective(srcs) /\ <<>> = [i \in 1..Len(srcs) |-> goodRead'[srcs[i]]]
    BY DEF IsInjective
  <2> QED BY <2>1, <2>2, <2>3, <1>2, <1>3, <1>4, <1>7 DEF FormulaInv
<1> QED BY <1>2, <1>8, <1>9

\* onNewData with a value of a source of the formula.
LEMMA UpdateValueKeeps ==
  ASSUME FormulaInv, ~outOfRange, NEW s \in watchers, NEW v \in FormulaValues, UpdateValue(s, v),
         UNCHANGED <<formulaSrcs, watchers>>
  PROVE  FormulaInv'
<1> DEFINE i == SelectInSeq(formulaSrcs, LAMBDA x : x = s)
           n == Len(formulaSrcs)
           vs == [values EXCEPT ![i] = v]
<1>1. /\ formulaSrcs \in Seq(FormulaSources) /\ s \in ToSet(formulaSrcs)
      /\ IsInjective(formulaSrcs) /\ Indexed
      /\ values = [k \in 1..n |-> goodRead[formulaSrcs[k]]]
      /\ goodRead \in [FormulaSources -> FormulaValues \union {NoFormulaValue}]
  BY DEF FormulaInv, UpdateValue
<1>2. i \in 1..n /\ formulaSrcs[i] = s
  BY <1>1, PlaceOfSource
<1>13. formulaSrcs # <<>>
  BY <1>1, EmptySeq DEF ToSet
<1>3. /\ values' = vs /\ goodRead' = [goodRead EXCEPT ![s] = v]
      /\ computed' = IF ~Contains(vs, NoFormulaValue) THEN vs ELSE computed
  BY DEF UpdateValue
<1> HIDE DEF i
<1>4. /\ \A k \in 1..n : formulaSrcs[k] \in FormulaSources
      /\ \A k \in 1..n : formulaSrcs[k] = s => k = i
  BY <1>1, <1>2 DEF IsInjective
<1>5. s \in FormulaSources /\ v # NoFormulaValue
  BY <1>2, <1>4, FormulaAssumption
<1>6. goodRead' \in [FormulaSources -> FormulaValues \union {NoFormulaValue}]
  BY <1>1, <1>3
<1>7. \A k \in 1..n : vs[k] = goodRead'[formulaSrcs[k]]
  BY <1>1, <1>2, <1>3, <1>4, <1>5
<1>8. vs = [k \in 1..n |-> goodRead'[formulaSrcs[k]]]
  BY <1>1, <1>7
<1>9. Len(vs) = n
  BY <1>1, <1>8
<1> HIDE DEF vs
<1>10. Contains(vs, NoFormulaValue) <=> \E x \in ToSet(formulaSrcs) : goodRead'[x] = NoFormulaValue
  <2>1. ToSet(formulaSrcs) = {formulaSrcs[k] : k \in 1..n}
    BY <1>1 DEF ToSet
  <2>2. Contains(vs, NoFormulaValue) <=> \E k \in 1..n : vs[k] = NoFormulaValue
    BY <1>9 DEF Contains
  <2> HIDE DEF n
  <2>3. Contains(vs, NoFormulaValue) <=> \E k \in 1..n : goodRead'[formulaSrcs[k]] = NoFormulaValue
    BY <2>2, <1>8
  <2> QED BY <2>1, <2>3
<1>12. Indexed'
  BY <1>3, <1>9 DEF Indexed
<1>11. FormulaUpToDate'
  <2>1. CASE ~Contains(vs, NoFormulaValue)
    BY <2>1, <1>13, <1>3, <1>8, <1>10, <1>12 DEF FormulaUpToDate
  <2>2. CASE Contains(vs, NoFormulaValue)
    <3>1. PICK x \in ToSet(formulaSrcs) : goodRead'[x] = NoFormulaValue
      BY <2>2, <1>10
    <3>2. x \in FormulaSources /\ x # s
      BY <3>1, <1>1, <1>3, <1>4, <1>5 DEF ToSet
    <3>3. goodRead[x] = NoFormulaValue
      BY <3>1, <3>2, <1>1, <1>3
    <3>4. computed = <<>>
      BY <3>1, <3>3, <1>1 DEF FormulaInv, FormulaUpToDate
    <3>5. computed' = <<>>
      BY <3>4, <2>2, <1>3
    <3> QED BY <3>1, <3>5 DEF FormulaUpToDate
  <2> QED BY <2>1, <2>2
<1> QED BY <1>1, <1>3, <1>6, <1>8, <1>11, <1>12 DEF FormulaInv

\* Data that brings no value to the formula.
LEMMA OtherDataKeeps ==
  ASSUME FormulaInv, UNCHANGED <<formulaSrcs, watchers, values, computed, goodRead>>,
         outOfRange' \/ outOfRange' = outOfRange
  PROVE  FormulaInv'
BY DEF FormulaInv, FormulaUpToDate, Indexed

LEMMA FormulaInvInductive ==
  RepeatedSources = FALSE /\ FormulaInv /\ [NextFormula]_formulaVars => FormulaInv'
<1> SUFFICES ASSUME RepeatedSources = FALSE, FormulaInv, [NextFormula]_formulaVars PROVE FormulaInv'
  OBVIOUS
<1>1. ASSUME NEW f \in Formulas, NEW known \in SUBSET FormulaSources, NEW fits \in BOOLEAN,
             SetFormula(f, known, fits)
      PROVE  FormulaInv'
  BY <1>1, SetFormulaKeeps
<1>2. ASSUME NEW s \in FormulaSources, ~outOfRange, WatcherData(s)
      PROVE  FormulaInv'
  <2>1. CASE UpdateBeyond \/ UpdateError \/ UpdateNothing
    BY <1>2, <2>1, OtherDataKeeps DEF WatcherData, UpdateBeyond, UpdateError, UpdateNothing
  <2>2. ASSUME NEW v \in FormulaValues, UpdateValue(s, v)
        PROVE  FormulaInv'
    BY <1>2, <2>2, UpdateValueKeeps DEF WatcherData
  <2> QED BY <1>2, <2>1, <2>2 DEF WatcherData
<1>3. ASSUME NEW s \in FormulaSources, SrcFailed(s)
      PROVE  FormulaInv'
  BY <1>3, OtherDataKeeps DEF SrcFailed, UpdateBeyond, UpdateError
<1>4. CASE SimpleResult
  BY <1>4, OtherDataKeeps DEF SimpleResult, UpdateBeyond, UpdateError
<1>5. CASE UNCHANGED formulaVars
  BY <1>5, OtherDataKeeps DEF formulaVars
<1> QED BY <1>1, <1>2, <1>3, <1>4, <1>5 DEF NextFormula

\* What the listener of a formula was shown is always computed from the last
\* good values of all its sources, whatever formulas, errors, failures and
\* results come in between, unless a formula has a source twice
\* (cuformulareader.cpp:171-214,289,389).
THEOREM FormulaAlwaysUpToDate ==
  ASSUME RepeatedSources = FALSE
  PROVE  SpecFormula => []FormulaUpToDate
<1>1. InitFormula => FormulaInv
  <2> SUFFICES ASSUME InitFormula PROVE FormulaInv
    OBVIOUS
  <2>1. /\ formulaSrcs = <<>> /\ watchers = {} /\ values = <<>> /\ computed = <<>>
        /\ goodRead = [s \in FormulaSources |-> NoFormulaValue]
    BY DEF InitFormula, NoGoodRead
  <2> QED BY <2>1 DEF FormulaInv, FormulaUpToDate, Indexed, IsInjective
<1>2. FormulaInv => FormulaUpToDate
  BY DEF FormulaInv
<1>3. FormulaInv /\ [NextFormula]_formulaVars => FormulaInv'
  BY FormulaInvInductive
<1> QED BY <1>1, <1>2, <1>3, PTL DEF SpecFormula

-----------------------------------------------------------------------------
(* The polling activity                                                    *)

\* The period is that of the count of errors, which is never behind the failures
\* in a row, and no more than these if nothing was counted before them.
SlowdownInv ==
  /\ readFailed \in BOOLEAN /\ calm \in BOOLEAN
  /\ consecutiveErrCnt \in 0..4 /\ failures \in 0..4
  /\ failures <= consecutiveErrCnt /\ (calm => consecutiveErrCnt = failures)
  /\ devDefined => rate = IF readFailed THEN SlowDownRate(consecutiveErrCnt) ELSE 1

\* The period does not shrink when errors are added.
LEMMA SlowDownGrows ==
  ASSUME NEW m \in 0..4, NEW n \in 0..4, m <= n
  PROVE  SlowDownRate(m) <= SlowDownRate(n) /\ SlowDownRate(n) <= 10 /\ SlowDownRate(n) >= 1
BY DEF SlowDownRate

LEMMA SlowdownInvFollows == SlowdownInv => SlowdownFollowsErrors
<1> SUFFICES ASSUME SlowdownInv, devDefined, readFailed
             PROVE  /\ rate >= SlowDownRate(failures) /\ rate <= 10
                    /\ calm => rate = SlowDownRate(failures)
  BY DEF SlowdownInv, SlowdownFollowsErrors
<1>1. /\ consecutiveErrCnt \in 0..4 /\ failures \in 0..4 /\ failures <= consecutiveErrCnt
      /\ calm => consecutiveErrCnt = failures
      /\ rate = SlowDownRate(consecutiveErrCnt)
  BY DEF SlowdownInv
<1>2. /\ SlowDownRate(failures) <= SlowDownRate(consecutiveErrCnt)
      /\ SlowDownRate(consecutiveErrCnt) <= 10
  BY <1>1, SlowDownGrows
<1>3. SlowDownRate(failures) \in Int /\ SlowDownRate(consecutiveErrCnt) \in Int
  BY <1>1 DEF SlowDownRate
<1> QED BY <1>1, <1>2, <1>3

LEMMA SlowdownInvInductive == SlowdownInv /\ [NextPolling]_pollingVars => SlowdownInv'
<1> SUFFICES ASSUME SlowdownInv, [NextPolling]_pollingVars PROVE SlowdownInv'
  OBVIOUS
<1>1. CASE UNCHANGED <<pollingConf, pollingRate>>
  BY <1>1 DEF SlowdownInv, pollingConf, pollingRate
<1>2. ASSUME NEW a \in PolledAtts, AddPollAtt(a) \/ RemovePollAtt(a)
      PROVE  UNCHANGED <<pollingConf, pollingRate>>
  BY <1>2 DEF AddPollAtt, RemovePollAtt, pollingConf, pollingRate
<1>3. ASSUME NEW c \in PolledCmds, AddPollCmd(c) \/ RemovePollCmd(c)
      PROVE  UNCHANGED <<pollingConf, pollingRate>>
  BY <1>3 DEF AddPollCmd, RemovePollCmd, pollingConf, pollingRate
<1>4. ASSUME NEW known, NEW down, NEW value, ExecutePolling(known, down, value)
      PROVE  SlowdownInv'
  <2>1. PICK success \in BOOLEAN, errs \in 0..4, counted \in BOOLEAN :
          /\ Outcome(success, errs) /\ readFailed' = ~success /\ devDefined' = devDefined
          /\ errs = IF counted /\ ~success /\ consecutiveErrCnt < 4
                    THEN consecutiveErrCnt + 1 ELSE consecutiveErrCnt
          /\ failures' = IF success THEN 0
                         ELSE IF counted /\ failures < 4 THEN failures + 1 ELSE failures
          /\ calm' = IF success THEN ~readFailed ELSE calm
    <3> DEFINE success == IF AttnNow = <<>> THEN CmdSuccess(known)
                          ELSE IF down THEN FALSE ELSE value[Last(AttnNow)] # NoAttValue
               errs == IF AttnNow # <<>> /\ ~success /\ consecutiveErrCnt < 4
                       THEN consecutiveErrCnt + 1 ELSE consecutiveErrCnt
    <3>1. /\ Outcome(success, errs) /\ readFailed' = ~success /\ devDefined' = devDefined
          /\ failures' = IF success THEN 0
                         ELSE IF AttnNow # <<>> /\ failures < 4 THEN failures + 1 ELSE failures
          /\ calm' = IF success THEN ~readFailed ELSE calm
      BY <1>4 DEF ExecutePolling, pollingConf
    <3>2. consecutiveErrCnt \in 0..4
      BY DEF SlowdownInv
    <3>3. success \in BOOLEAN
      <4>1. CmdSuccess(known) \in BOOLEAN
        <5>1. CASE AskedCmds = <<>>
          BY <5>1 DEF CmdSuccess
        <5>2. CASE AskedCmds # <<>>
          BY <5>2 DEF CmdSuccess
        <5> QED BY <5>1, <5>2
      <4>2. CASE AttnNow = <<>>
        BY <4>1, <4>2
      <4>3. CASE AttnNow # <<>>
        BY <4>3
      <4> QED BY <4>2, <4>3
    <3> HIDE DEF success
    <3>4. errs \in 0..4
      <4>1. CASE AttnNow # <<>> /\ ~success /\ consecutiveErrCnt < 4
        <5>1. errs = consecutiveErrCnt + 1
          BY <4>1
        <5> QED BY <5>1, <3>2, <4>1
      <4>2. CASE ~(AttnNow # <<>> /\ ~success /\ consecutiveErrCnt < 4)
        <5>1. errs = consecutiveErrCnt
          BY <4>2
        <5> QED BY <5>1, <3>2
      <4> QED BY <4>1, <4>2
    <3>5. errs = IF AttnNow # <<>> /\ ~success /\ consecutiveErrCnt < 4
                 THEN consecutiveErrCnt + 1 ELSE consecutiveErrCnt
      OBVIOUS
    <3>6. (AttnNow # <<>>) \in BOOLEAN
      OBVIOUS
    <3> HIDE DEF errs
    <3> QED BY <3>1, <3>3, <3>4, <3>5, <3>6
  <2>2. /\ readFailed \in BOOLEAN /\ calm \in BOOLEAN
        /\ consecutiveErrCnt \in 0..4 /\ failures \in 0..4
        /\ failures <= consecutiveErrCnt /\ (calm => consecutiveErrCnt = failures)
        /\ devDefined => rate = IF readFailed THEN SlowDownRate(consecutiveErrCnt) ELSE 1
    BY DEF SlowdownInv
  <2>3. CASE ~success
    <3>1. /\ consecutiveErrCnt' = errs /\ rate' = SlowDownRate(errs) /\ readFailed'
          /\ calm' = calm
      BY <2>1, <2>3 DEF Outcome
    <3>2. /\ errs = IF counted /\ consecutiveErrCnt < 4
                    THEN consecutiveErrCnt + 1 ELSE consecutiveErrCnt
          /\ failures' = IF counted /\ failures < 4 THEN failures + 1 ELSE failures
      BY <2>1, <2>3
    <3>3. failures' \in 0..4 /\ failures' <= errs /\ (calm => errs = failures')
      BY <2>2, <3>2
    <3>4. readFailed' \in BOOLEAN
      BY <2>1
    <3> QED BY <2>2, <3>1, <3>3, <3>4 DEF SlowdownInv
  <2>4. CASE success
    <3>1. /\ rate' = 1 /\ ~readFailed' /\ readFailed' \in BOOLEAN /\ failures' = 0
          /\ errs = consecutiveErrCnt /\ calm' = ~readFailed
          /\ consecutiveErrCnt' = IF rate = 1 THEN 0 ELSE errs
      BY <2>1, <2>4 DEF Outcome
    <3>2. ~readFailed => consecutiveErrCnt' = 0
      BY <1>4, <2>2, <3>1 DEF ExecutePolling
    <3> QED BY <2>2, <3>1, <3>2 DEF SlowdownInv
  <2> QED BY <2>1, <2>3, <2>4
<1>5. CASE ExecuteUndefined
  BY <1>5 DEF ExecuteUndefined, SlowdownInv, pollingConf
<1>6. CASE UNCHANGED pollingVars
  BY <1>1, <1>6 DEF pollingVars, pollingConf, pollingRate
<1> QED BY <1>1, <1>2, <1>3, <1>4, <1>5, <1>6 DEF NextPolling

\* The period of the polling is that of the failures in a row, or of more if
\* they come after a single success, and is restored by the first success,
\* whatever is added, removed and read meanwhile (cupollingactivity.cpp:395).
THEOREM SlowdownAlwaysFollowsErrors == SpecPolling => []SlowdownFollowsErrors
<1>1. InitPolling => SlowdownInv
  <2> SUFFICES ASSUME InitPolling PROVE SlowdownInv
    OBVIOUS
  <2>1. /\ ~readFailed /\ readFailed \in BOOLEAN /\ rate = 1 /\ consecutiveErrCnt = 0
        /\ failures = 0 /\ calm \in BOOLEAN
    BY DEF InitPolling
  <2> QED BY <2>1 DEF SlowdownInv
<1> QED BY <1>1, SlowdownInvFollows, SlowdownInvInductive, PTL DEF SpecPolling

-----------------------------------------------------------------------------
(* The readers of the random and EPICS engines                             *)

Reader == [src : MonitorSources, exit : BOOLEAN, lis : SUBSET MonitorListeners]
Order == [ev : {"register", "unregister"}, m : Nat]
Registers(m) == [ev |-> "register", m |-> m]
Unregisters(m) == [ev |-> "unregister", m |-> m]

TypeOKMonitor ==
  /\ monitors \in Seq(Reader)
  /\ listensTo \in [MonitorListeners -> MonitorSources \union {NoMonitor}]
  /\ orders \in Seq(Order)
  /\ running \subseteq Made

\* The order of the thread's queue: an activity is registered once, and then
\* unregistered once.
OneEach(q) == \A i, j \in 1..Len(q) : q[i] = q[j] => i = j
RegisteredFirst(q) ==
  \A i, j \in 1..Len(q), m \in Nat : q[i] = Registers(m) /\ q[j] = Unregisters(m) => i < j
OrdersKept ==
  /\ OneEach(orders) /\ RegisteredFirst(orders)
  /\ \A i \in 1..Len(orders) : orders[i].m \in Made

\* The activity of a reader that is not stopped runs or is about to, and that
\* of a stopped one is about to be unregistered unless it was already.
ActivityFollowsReader ==
  \A m \in Made :
    /\ m \in running => ~Contains(orders, Registers(m))
    /\ Contains(orders, Unregisters(m)) => monitors[m].exit
    /\ ~monitors[m].exit => m \in running \/ Contains(orders, Registers(m))
    /\ monitors[m].exit /\ (m \in running \/ Contains(orders, Registers(m))) =>
         Contains(orders, Unregisters(m))

\* A source has one reader that is not stopped, and all its listeners are
\* there.
ListenersLinked ==
  /\ \A m \in Made : monitors[m].exit <=> monitors[m].lis = {}
  /\ \A m, k \in Made :
       monitors[m].src = monitors[k].src /\ ~monitors[m].exit /\ ~monitors[k].exit => m = k
  /\ \A m \in Made : \A l \in monitors[m].lis : listensTo[l] = monitors[m].src
  /\ \A l \in MonitorListeners : listensTo[l] # NoMonitor =>
       \E m \in Made : l \in monitors[m].lis

MonitorInv == TypeOKMonitor /\ OrdersKept /\ ActivityFollowsReader /\ ListenersLinked

LEMMA MonitorInvServes == MonitorInv => MonitorServes
<1> SUFFICES ASSUME MonitorInv PROVE MonitorServes
  OBVIOUS
<1>1. \A m \in Made : monitors[m] \in Reader
  BY DEF MonitorInv, TypeOKMonitor, Made
<1>2. ASSUME NEW l \in MonitorListeners, listensTo[l] # NoMonitor
      PROVE  /\ Cardinality(ActiveOf(listensTo[l])) = 1
             /\ {m \in Made : l \in monitors[m].lis} = ActiveOf(listensTo[l])
  <2>1. PICK k \in Made : l \in monitors[k].lis
    BY <1>2 DEF MonitorInv, ListenersLinked
  <2>2. monitors[k].src = listensTo[l] /\ ~monitors[k].exit
    BY <2>1 DEF MonitorInv, ListenersLinked
  <2>3. ActiveOf(listensTo[l]) = {k}
    BY <2>2 DEF ActiveOf, MonitorInv, ListenersLinked
  <2>4. ASSUME NEW m \in Made, l \in monitors[m].lis
        PROVE  m = k
    <3>1. monitors[m].src = listensTo[l] /\ ~monitors[m].exit
      BY <2>4 DEF MonitorInv, ListenersLinked
    <3> QED BY <3>1, <2>2 DEF MonitorInv, ListenersLinked
  <2>5. Cardinality({k}) = 1
    BY FS_Singleton
  <2> QED BY <2>1, <2>3, <2>4, <2>5
<1>3. ASSUME NEW m \in Made
      PROVE  /\ monitors[m].exit = (monitors[m].lis = {})
             /\ monitors[m].exit =
                  (Contains(orders, Unregisters(m))
                     \/ (m \notin running /\ ~Contains(orders, Registers(m))))
  <2>1. monitors[m].exit <=> monitors[m].lis = {}
    BY DEF MonitorInv, ListenersLinked
  <2>2. monitors[m].exit <=>
          (Contains(orders, Unregisters(m))
             \/ (m \notin running /\ ~Contains(orders, Registers(m))))
    BY DEF MonitorInv, ActivityFollowsReader
  <2>3. monitors[m].exit \in BOOLEAN
    BY <1>1 DEF Reader
  <2> QED BY <2>1, <2>2, <2>3
<1> QED BY <1>2, <1>3 DEF MonitorServes, Registers, Unregisters

-----------------------------------------------------------------------------
\* An order that is appended to, or taken from, the queue of the thread.
LEMMA OrderAppended ==
  ASSUME NEW q \in Seq(Order), NEW e \in Order
  PROVE  /\ Append(q, e) \in Seq(Order) /\ Len(Append(q, e)) = Len(q) + 1
         /\ \A i \in 1..Len(q) : Append(q, e)[i] = q[i]
         /\ Append(q, e)[Len(q) + 1] = e
         /\ \A x : Contains(Append(q, e), x) <=> Contains(q, x) \/ x = e
<1>1. /\ Append(q, e) \in Seq(Order) /\ Len(Append(q, e)) = Len(q) + 1
      /\ \A i \in 1..Len(q) : Append(q, e)[i] = q[i]
      /\ Append(q, e)[Len(q) + 1] = e
  BY AppendProperties
<1>2. ASSUME NEW x
      PROVE  Contains(Append(q, e), x) <=> Contains(q, x) \/ x = e
  <2>1. Contains(q, x) => Contains(Append(q, e), x)
    BY <1>1, LenProperties DEF Contains
  <2>2. x = e => Contains(Append(q, e), x)
    BY <1>1, LenProperties DEF Contains
  <2>3. Contains(Append(q, e), x) => Contains(q, x) \/ x = e
    BY <1>1, LenProperties DEF Contains
  <2> QED BY <2>1, <2>2, <2>3
<1> QED BY <1>1, <1>2

LEMMA OrderTaken ==
  ASSUME NEW q \in Seq(Order), q # <<>>, OneEach(q)
  PROVE  /\ Tail(q) \in Seq(Order) /\ Len(Tail(q)) = Len(q) - 1 /\ Head(q) \in Order
         /\ \A i \in 1..Len(Tail(q)) : Tail(q)[i] = q[i + 1] /\ i + 1 \in 1..Len(q)
         /\ \A x : Contains(Tail(q), x) <=> Contains(q, x) /\ x # Head(q)
<1>1. /\ Tail(q) \in Seq(Order) /\ Len(Tail(q)) = Len(q) - 1 /\ Len(q) \in Nat \ {0}
      /\ Head(q) = q[1] /\ Head(q) \in Order
      /\ \A i \in 1..Len(Tail(q)) : Tail(q)[i] = q[i + 1]
  BY HeadTailProperties, EmptySeq, LenProperties
<1>2. \A i \in 1..Len(Tail(q)) : i + 1 \in 1..Len(q)
  BY <1>1
<1>3. ASSUME NEW x
      PROVE  Contains(Tail(q), x) <=> Contains(q, x) /\ x # Head(q)
  <2>1. ASSUME Contains(Tail(q), x) PROVE Contains(q, x) /\ x # Head(q)
    <3>1. PICK i \in 1..Len(Tail(q)) : q[i + 1] = x
      BY <2>1, <1>1 DEF Contains
    <3>2. i + 1 \in 1..Len(q) /\ 1 \in 1..Len(q) /\ i + 1 # 1
      BY <1>1
    <3>3. q[i + 1] # q[1]
      BY <3>2 DEF OneEach
    <3> QED BY <3>1, <3>2, <3>3, <1>1 DEF Contains
  <2>2. ASSUME Contains(q, x), x # Head(q) PROVE Contains(Tail(q), x)
    <3>1. PICK i \in 1..Len(q) : q[i] = x
      BY <2>2 DEF Contains
    <3>2. i # 1
      BY <3>1, <2>2, <1>1
    <3>3. i - 1 \in 1..Len(Tail(q)) /\ (i - 1) + 1 = i
      BY <3>2, <1>1
    <3>4. Tail(q)[i - 1] = x
      BY <3>1, <3>3, <1>1
    <3> QED BY <3>3, <3>4 DEF Contains
  <2> QED BY <2>1, <2>2
<1> QED BY <1>1, <1>2, <1>3

LEMMA RegistersDiffer ==
  ASSUME NEW m \in Nat, NEW k \in Nat
  PROVE  /\ Registers(m) \in Order /\ Unregisters(m) \in Order
         /\ Registers(m) # Unregisters(k)
         /\ Registers(m) = Registers(k) => m = k
         /\ Unregisters(m) = Unregisters(k) => m = k
         /\ Registers(m).m = m /\ Unregisters(m).m = m
BY DEF Registers, Unregisters, Order

\* A registration is the first order about its activity, an unregistration
\* the last.
LEMMA RegisterOrdered ==
  ASSUME NEW q \in Seq(Order), OneEach(q), RegisteredFirst(q), NEW k \in Nat,
         ~Contains(q, Registers(k)), ~Contains(q, Unregisters(k))
  PROVE  OneEach(Append(q, Registers(k))) /\ RegisteredFirst(Append(q, Registers(k)))
<1> DEFINE e == Registers(k)
           p == Append(q, e)
<1>1. /\ e \in Order /\ p \in Seq(Order) /\ Len(p) = Len(q) + 1 /\ Len(q) \in Nat
      /\ \A i \in 1..Len(q) : p[i] = q[i]
      /\ p[Len(q) + 1] = e
  BY OrderAppended, RegistersDiffer, LenProperties
<1>2. \A i \in 1..Len(q) : q[i] # e /\ q[i] # Unregisters(k)
  BY DEF Contains
<1>3. \A i \in 1..Len(p) : i \in 1..Len(q) \/ i = Len(q) + 1
  BY <1>1
<1>4. \A m \in Nat : e # Unregisters(m) /\ (e = Registers(m) => m = k)
  BY RegistersDiffer
<1> HIDE DEF e, p
<1>5. OneEach(p)
  <2> SUFFICES ASSUME NEW i \in 1..Len(p), NEW j \in 1..Len(p), p[i] = p[j] PROVE i = j
    BY DEF OneEach
  <2>1. CASE i \in 1..Len(q) /\ j \in 1..Len(q)
    BY <2>1, <1>1 DEF OneEach
  <2>2. CASE i \in 1..Len(q) /\ j = Len(q) + 1
    BY <2>2, <1>1, <1>2
  <2>3. CASE i = Len(q) + 1 /\ j \in 1..Len(q)
    BY <2>3, <1>1, <1>2
  <2> QED BY <1>3, <2>1, <2>2, <2>3
<1>6. RegisteredFirst(p)
  <2> SUFFICES ASSUME NEW i \in 1..Len(p), NEW j \in 1..Len(p), NEW m \in Nat,
                      p[i] = Registers(m), p[j] = Unregisters(m)
               PROVE  i < j
    BY DEF RegisteredFirst
  <2>1. j \in 1..Len(q) /\ q[j] = Unregisters(m)
    BY <1>1, <1>3, <1>4
  <2>2. i \in 1..Len(q)
    BY <2>1, <1>1, <1>2, <1>3, <1>4
  <2> QED BY <2>1, <2>2, <1>1 DEF RegisteredFirst
<1> QED BY <1>5, <1>6 DEF e, p

LEMMA UnregisterOrdered ==
  ASSUME NEW q \in Seq(Order), OneEach(q), RegisteredFirst(q), NEW k \in Nat,
         ~Contains(q, Unregisters(k))
  PROVE  OneEach(Append(q, Unregisters(k))) /\ RegisteredFirst(Append(q, Unregisters(k)))
<1> DEFINE e == Unregisters(k)
           p == Append(q, e)
<1>1. /\ e \in Order /\ p \in Seq(Order) /\ Len(p) = Len(q) + 1 /\ Len(q) \in Nat
      /\ \A i \in 1..Len(q) : p[i] = q[i]
      /\ p[Len(q) + 1] = e
  BY OrderAppended, RegistersDiffer, LenProperties
<1>2. \A i \in 1..Len(q) : q[i] # e
  BY DEF Contains
<1>3. \A i \in 1..Len(p) : i \in 1..Len(q) \/ i = Len(q) + 1
  BY <1>1
<1>4. \A m \in Nat : Registers(m) # e
  BY RegistersDiffer
<1> HIDE DEF e, p
<1>5. OneEach(p)
  <2> SUFFICES ASSUME NEW i \in 1..Len(p), NEW j \in 1..Len(p), p[i] = p[j] PROVE i = j
    BY DEF OneEach
  <2>1. CASE i \in 1..Len(q) /\ j \in 1..Len(q)
    BY <2>1, <1>1 DEF OneEach
  <2>2. CASE i \in 1..Len(q) /\ j = Len(q) + 1
    BY <2>2, <1>1, <1>2
  <2>3. CASE i = Len(q) + 1 /\ j \in 1..Len(q)
    BY <2>3, <1>1, <1>2
  <2> QED BY <1>3, <2>1, <2>2, <2>3
<1>6. RegisteredFirst(p)
  <2> SUFFICES ASSUME NEW i \in 1..Len(p), NEW j \in 1..Len(p), NEW m \in Nat,
                      p[i] = Registers(m), p[j] = Unregisters(m)
               PROVE  i < j
    BY DEF RegisteredFirst
  <2>1. i \in 1..Len(q) /\ q[i] = Registers(m)
    BY <1>1, <1>3, <1>4
  <2>2. CASE j \in 1..Len(q)
    BY <2>1, <2>2, <1>1 DEF RegisteredFirst
  <2>3. CASE j = Len(q) + 1
    BY <2>1, <2>3, <1>1
  <2> QED BY <1>3, <2>2, <2>3
<1> QED BY <1>5, <1>6 DEF e, p

LEMMA OrdersTaken ==
  ASSUME NEW q \in Seq(Order), q # <<>>, OneEach(q), RegisteredFirst(q)
  PROVE  /\ OneEach(Tail(q)) /\ RegisteredFirst(Tail(q))
         /\ \A m \in Nat : Head(q) = Unregisters(m) => ~Contains(q, Registers(m))
<1>1. /\ Tail(q) \in Seq(Order) /\ Len(Tail(q)) = Len(q) - 1 /\ Len(q) \in Nat \ {0}
      /\ \A i \in 1..Len(Tail(q)) : Tail(q)[i] = q[i + 1] /\ i + 1 \in 1..Len(q)
      /\ Head(q) = q[1]
  BY OrderTaken, HeadTailProperties, EmptySeq, LenProperties
<1>2. OneEach(Tail(q))
  BY <1>1 DEF OneEach
<1>3. RegisteredFirst(Tail(q))
  <2> SUFFICES ASSUME NEW i \in 1..Len(Tail(q)), NEW j \in 1..Len(Tail(q)), NEW m \in Nat,
                      Tail(q)[i] = Registers(m), Tail(q)[j] = Unregisters(m)
               PROVE  i < j
    BY DEF RegisteredFirst
  <2>1. i + 1 < j + 1
    BY <1>1 DEF RegisteredFirst
  <2> QED BY <2>1
<1>4. ASSUME NEW m \in Nat, Head(q) = Unregisters(m), Contains(q, Registers(m))
      PROVE  FALSE
  <2>1. PICK i \in 1..Len(q) : q[i] = Registers(m)
    BY <1>4 DEF Contains
  <2>2. 1 \in 1..Len(q) /\ q[1] = Unregisters(m)
    BY <1>1, <1>4
  <2>3. i < 1
    BY <2>1, <2>2 DEF RegisteredFirst
  <2> QED BY <2>1, <2>3
<1> QED BY <1>2, <1>3, <1>4

-----------------------------------------------------------------------------
LEMMA MonitorStutter ==
  ASSUME MonitorInv, UNCHANGED <<monitors, listensTo, orders, running>>
  PROVE  MonitorInv'
BY DEF MonitorInv, TypeOKMonitor, Made, OrdersKept, OneEach, RegisteredFirst,
       ActivityFollowsReader, ListenersLinked

LEMMA MonitorFacts ==
  ASSUME MonitorInv
  PROVE  /\ monitors \in Seq(Reader) /\ Len(monitors) \in Nat
         /\ \A m \in Made : m \in Nat /\ monitors[m] \in Reader
         /\ orders \in Seq(Order) /\ running \subseteq Made
         /\ \A x : Contains(orders, x) => x.m \in Made
         /\ \A m \in Nat : Contains(orders, Registers(m)) \/ Contains(orders, Unregisters(m))
              => m \in Made
<1>1. /\ monitors \in Seq(Reader) /\ Len(monitors) \in Nat /\ orders \in Seq(Order)
      /\ running \subseteq Made
  BY LenProperties DEF MonitorInv, TypeOKMonitor
<1>2. \A m \in Made : m \in Nat /\ monitors[m] \in Reader
  BY <1>1 DEF Made
<1>3. \A x : Contains(orders, x) => x.m \in Made
  BY DEF Contains, MonitorInv, OrdersKept
<1> QED BY <1>1, <1>2, <1>3, RegistersDiffer

\* The thread handles the first order.
LEMMA HandleOrderKeeps == ASSUME MonitorInv, HandleOrder PROVE MonitorInv'
<1> DEFINE o == Head(orders)
<1>1. /\ orders # <<>> /\ orders' = Tail(orders) /\ UNCHANGED <<monitors, listensTo>>
      /\ IF o.ev = "register" THEN BeginTask(o.m) ELSE EndTask(o.m)
  BY DEF HandleOrder
<1>2. /\ orders \in Seq(Order) /\ OneEach(orders) /\ RegisteredFirst(orders)
      /\ \A i \in 1..Len(orders) : orders[i].m \in Made
  BY DEF MonitorInv, TypeOKMonitor, OrdersKept
<1>3. /\ orders' \in Seq(Order) /\ o \in Order
      /\ \A i \in 1..Len(orders') : orders'[i] = orders[i + 1] /\ i + 1 \in 1..Len(orders)
      /\ \A x : Contains(orders', x) <=> Contains(orders, x) /\ x # o
  BY <1>1, <1>2, OrderTaken
<1>4. /\ OneEach(orders') /\ RegisteredFirst(orders')
      /\ \A m \in Nat : o = Unregisters(m) => ~Contains(orders, Registers(m))
  BY <1>1, <1>2, OrdersTaken
<1>5. Made' = Made
  BY <1>1 DEF Made
<1>6. OrdersKept'
  <2>1. \A i \in 1..Len(orders') : orders'[i].m \in Made
    BY <1>2, <1>3
  <2> QED BY <2>1, <1>4, <1>5 DEF OrdersKept
<1>7. Contains(orders, o) /\ o.m \in Made
  <2>1. 1 \in 1..Len(orders) /\ o = orders[1]
    BY <1>1, <1>2, HeadTailProperties, EmptySeq, LenProperties
  <2> QED BY <2>1, <1>2 DEF Contains
<1>8. ListenersLinked'
  BY <1>1, <1>5 DEF MonitorInv, ListenersLinked
<1>9. /\ \A m \in Made : m \in Nat
      /\ running \subseteq Made
  BY MonitorFacts
<1>10. /\ \A m \in Made : m \in running => ~Contains(orders, Registers(m))
       /\ \A m \in Made : Contains(orders, Unregisters(m)) => monitors[m].exit
       /\ \A m \in Made : ~monitors[m].exit => m \in running \/ Contains(orders, Registers(m))
       /\ \A m \in Made : monitors[m].exit /\ (m \in running \/ Contains(orders, Registers(m))) =>
            Contains(orders, Unregisters(m))
  BY DEF MonitorInv, ActivityFollowsReader
<1>11. CASE o.ev = "register"
  <2>1. o = Registers(o.m) /\ running' = running \union {o.m}
    BY <1>1, <1>3, <1>11 DEF BeginTask, Order, Registers
  <2>2. \A m \in Nat : Unregisters(m) # o /\ (Registers(m) = o => m = o.m)
    BY <2>1, <1>3, RegistersDiffer DEF Order
  <2>3. \A m \in Made : /\ Contains(orders', Unregisters(m)) <=> Contains(orders, Unregisters(m))
                        /\ Contains(orders', Registers(m)) <=> Contains(orders, Registers(m)) /\ m # o.m
    BY <2>1, <2>2, <1>3, <1>9
  <2>4. Contains(orders, Registers(o.m))
    BY <2>1, <1>7
  <2>5. \A m \in Made : m \in running' <=> m \in running \/ m = o.m
    BY <2>1
  <2>6. ActivityFollowsReader'
    BY <2>3, <2>4, <2>5, <1>1, <1>5, <1>7, <1>10 DEF ActivityFollowsReader
  <2>7. running' \subseteq Made
    BY <2>1, <1>7, <1>9
  <2> QED BY <2>6, <2>7, <1>1, <1>3, <1>5, <1>6, <1>8 DEF MonitorInv, TypeOKMonitor
<1>12. CASE o.ev # "register"
  <2>1. o = Unregisters(o.m) /\ running' = running \ {o.m}
    BY <1>1, <1>3, <1>12 DEF EndTask, Order, Unregisters
  <2>2. \A m \in Nat : Registers(m) # o /\ (Unregisters(m) = o => m = o.m)
    BY <2>1, <1>3, RegistersDiffer DEF Order
  <2>3. \A m \in Made : /\ Contains(orders', Registers(m)) <=> Contains(orders, Registers(m))
                        /\ Contains(orders', Unregisters(m)) <=> Contains(orders, Unregisters(m)) /\ m # o.m
    BY <2>1, <2>2, <1>3, <1>9
  <2>4. monitors[o.m].exit /\ ~Contains(orders, Registers(o.m))
    BY <2>1, <1>4, <1>7, <1>9, <1>10
  <2>5. \A m \in Made : m \in running' <=> m \in running /\ m # o.m
    BY <2>1
  <2>6. ActivityFollowsReader'
    BY <2>3, <2>4, <2>5, <1>1, <1>5, <1>7, <1>10 DEF ActivityFollowsReader
  <2>7. running' \subseteq Made
    BY <2>1, <1>9
  <2> QED BY <2>6, <2>7, <1>1, <1>3, <1>5, <1>6, <1>8 DEF MonitorInv, TypeOKMonitor
<1> QED BY <1>11, <1>12

\* A listener joins the reader of its source, or a new one starts.
LEMMA AddMonitorKeeps ==
  ASSUME MonitorInv, NEW s \in MonitorSources, NEW l \in MonitorListeners, AddMonitor(s, l)
  PROVE  MonitorInv'
<1>1. /\ listensTo[l] = NoMonitor /\ listensTo' = [listensTo EXCEPT ![l] = s]
      /\ running' = running
  BY DEF AddMonitor
<1>2. /\ monitors \in Seq(Reader) /\ Len(monitors) \in Nat
      /\ \A m \in Made : m \in Nat /\ monitors[m] \in Reader
      /\ orders \in Seq(Order) /\ running \subseteq Made
  BY MonitorFacts
<1>3. listensTo' \in [MonitorListeners -> MonitorSources \union {NoMonitor}]
  BY <1>1 DEF MonitorInv, TypeOKMonitor
<1>4. s # NoMonitor /\ \A m \in Made : l \notin monitors[m].lis
  <2>1. \A m \in Made : \A k \in monitors[m].lis : listensTo[k] = monitors[m].src
    BY DEF MonitorInv, ListenersLinked
  <2>2. \A m \in Made : monitors[m].src \in MonitorSources
    BY <1>2 DEF Reader
  <2> QED BY <1>1, <2>1, <2>2, MonitorAssumption
<1>5. /\ listensTo'[l] = s
      /\ \A k \in MonitorListeners : k # l => listensTo'[k] = listensTo[k]
  BY <1>1 DEF MonitorInv, TypeOKMonitor
<1>6. \A m \in Made : monitors[m].lis \subseteq MonitorListeners
  BY <1>2 DEF Reader
<1>7. ASSUME NEW k \in FindActive(s),
             monitors' = [monitors EXCEPT ![k].lis = @ \union {l}], orders' = orders
      PROVE  MonitorInv'
  <2>1. k \in Made /\ monitors[k].src = s /\ ~monitors[k].exit
    BY DEF FindActive, ActiveOf
  <2>2. /\ monitors' \in Seq(Reader) /\ Len(monitors') = Len(monitors)
        /\ \A m \in Made : m # k => monitors'[m] = monitors[m]
        /\ monitors'[k].src = s /\ monitors'[k].exit = monitors[k].exit
        /\ monitors'[k].lis = monitors[k].lis \union {l}
    <3> DEFINE r == [monitors[k] EXCEPT !.lis = @ \union {l}]
    <3>1. /\ r \in Reader /\ r.src = s /\ r.exit = monitors[k].exit
          /\ r.lis = monitors[k].lis \union {l}
      BY <2>1, <1>2 DEF Reader
    <3>2. monitors' = [monitors EXCEPT ![k] = r]
      BY <1>7
    <3> HIDE DEF r
    <3>3. k \in 1..Len(monitors)
      BY <2>1 DEF Made
    <3>4. /\ monitors' \in Seq(Reader) /\ Len(monitors') = Len(monitors)
          /\ \A m \in Made : m # k => monitors'[m] = monitors[m]
          /\ monitors'[k] = r
      BY <3>1, <3>2, <3>3, <1>2, ExceptSeq DEF Made
    <3> QED BY <3>1, <3>4
  <2>3. Made' = Made
    BY <2>2 DEF Made
  <2>4. \A m \in Made : /\ monitors'[m].src = monitors[m].src
                        /\ monitors'[m].exit = monitors[m].exit
                        /\ m # k => monitors'[m].lis = monitors[m].lis
    BY <2>1, <2>2
  <2>5. ActivityFollowsReader'
    BY <2>3, <2>4, <1>1, <1>7 DEF MonitorInv, ActivityFollowsReader
  <2>6. OrdersKept'
    BY <2>3, <1>7 DEF MonitorInv, OrdersKept, OneEach, RegisteredFirst
  <2>7. ListenersLinked'
    <3>1. \A m \in Made : monitors'[m].exit <=> monitors'[m].lis = {}
      BY <2>1, <2>2, <2>4 DEF MonitorInv, ListenersLinked
    <3>2. \A m, n \in Made :
            monitors'[m].src = monitors'[n].src /\ ~monitors'[m].exit /\ ~monitors'[n].exit => m = n
      BY <2>4 DEF MonitorInv, ListenersLinked
    <3>3. \A m \in Made : \A x \in monitors'[m].lis : listensTo'[x] = monitors'[m].src
      <4> SUFFICES ASSUME NEW m \in Made, NEW x \in monitors'[m].lis
                   PROVE  listensTo'[x] = monitors'[m].src
        OBVIOUS
      <4>1. CASE x = l
        <5>1. m = k
          BY <4>1, <1>4, <2>4
        <5> QED BY <5>1, <4>1, <1>5, <2>2
      <4>2. CASE x # l
        <5>1. x \in monitors[m].lis /\ x \in MonitorListeners
          BY <4>2, <2>2, <2>4, <1>6
        <5> QED BY <5>1, <4>2, <1>5, <2>4 DEF MonitorInv, ListenersLinked
      <4> QED BY <4>1, <4>2
    <3>4. \A x \in MonitorListeners : listensTo'[x] # NoMonitor =>
            \E m \in Made : x \in monitors'[m].lis
      <4> SUFFICES ASSUME NEW x \in MonitorListeners, listensTo'[x] # NoMonitor
                   PROVE  \E m \in Made : x \in monitors'[m].lis
        OBVIOUS
      <4>1. CASE x = l
        BY <4>1, <2>1, <2>2
      <4>2. CASE x # l
        <5>1. PICK m \in Made : x \in monitors[m].lis
          BY <4>2, <1>5 DEF MonitorInv, ListenersLinked
        <5> QED BY <5>1, <2>2, <2>4
      <4> QED BY <4>1, <4>2
    <3> QED BY <3>1, <3>2, <3>3, <3>4, <2>3 DEF ListenersLinked
  <2> QED BY <2>2, <2>3, <2>5, <2>6, <2>7, <1>1, <1>2, <1>3, <1>7 DEF MonitorInv, TypeOKMonitor
<1>8. ASSUME FindActive(s) = {},
             monitors' = Append(monitors, [src |-> s, exit |-> FALSE, lis |-> {l}]),
             orders' = Append(orders, Registers(Len(monitors) + 1))
      PROVE  MonitorInv'
  <2> DEFINE k == Len(monitors) + 1
             r == [src |-> s, exit |-> FALSE, lis |-> {l}]
  <2>1. r \in Reader /\ r.src = s /\ r.exit = FALSE /\ r.lis = {l}
    BY DEF Reader
  <2> HIDE DEF r
  <2>2. /\ monitors' \in Seq(Reader) /\ Len(monitors') = k /\ monitors'[k] = r
        /\ \A m \in Made : monitors'[m] = monitors[m]
    BY <2>1, <1>2, <1>8, AppendProperties DEF r, Made
  <2>3. /\ Made' = Made \union {k} /\ k \notin Made /\ k \in Nat
    BY <2>2, <1>2 DEF Made
  <2>4. /\ ~Contains(orders, Registers(k)) /\ ~Contains(orders, Unregisters(k))
        /\ k \notin running
    BY <2>3, MonitorFacts
  <2>5. /\ orders' \in Seq(Order) /\ Len(orders') = Len(orders) + 1
        /\ \A i \in 1..Len(orders) : orders'[i] = orders[i]
        /\ orders'[Len(orders) + 1] = Registers(k)
        /\ \A x : Contains(orders', x) <=> Contains(orders, x) \/ x = Registers(k)
        /\ Registers(k).m = k
    BY <2>3, <1>2, <1>8, OrderAppended, RegistersDiffer
  <2>6. OneEach(orders') /\ RegisteredFirst(orders')
    BY <2>3, <2>4, <1>2, <1>8, RegisterOrdered DEF MonitorInv, OrdersKept
  <2>7. OrdersKept'
    <3>1. \A i \in 1..Len(orders) : orders[i].m \in Made
      BY DEF MonitorInv, OrdersKept
    <3>2. \A i \in 1..Len(orders') : i \in 1..Len(orders) \/ i = Len(orders) + 1
      BY <2>5, <1>2, LenProperties
    <3>3. \A i \in 1..Len(orders') : orders'[i].m \in Made'
      BY <3>1, <3>2, <2>3, <2>5
    <3> QED BY <3>3, <2>6 DEF OrdersKept
  <2> HIDE DEF k
  <2>8. \A m \in Made : /\ Contains(orders', Registers(m)) <=> Contains(orders, Registers(m))
                        /\ Contains(orders', Unregisters(m)) <=> Contains(orders, Unregisters(m))
    BY <2>3, <2>5, <1>2, RegistersDiffer
  <2>9. Contains(orders', Registers(k)) /\ ~Contains(orders', Unregisters(k))
    BY <2>3, <2>4, <2>5, RegistersDiffer
  <2>10. ActivityFollowsReader'
    <3>1. ASSUME NEW m \in Made'
          PROVE  /\ m \in running' => ~Contains(orders', Registers(m))
                 /\ Contains(orders', Unregisters(m)) => monitors'[m].exit
                 /\ ~monitors'[m].exit => m \in running' \/ Contains(orders', Registers(m))
                 /\ monitors'[m].exit /\ (m \in running' \/ Contains(orders', Registers(m))) =>
                      Contains(orders', Unregisters(m))
      <4>1. CASE m \in Made
        BY <4>1, <2>2, <2>8, <1>1 DEF MonitorInv, ActivityFollowsReader
      <4>2. CASE m = k
        BY <4>2, <2>1, <2>2, <2>4, <2>9, <1>1
      <4> QED BY <4>1, <4>2, <2>3
    <3> QED BY <3>1 DEF ActivityFollowsReader
  <2>11. ListenersLinked'
    <3>1. ASSUME NEW m \in Made'
          PROVE  monitors'[m].exit <=> monitors'[m].lis = {}
      <4>1. CASE m \in Made
        BY <4>1, <2>2 DEF MonitorInv, ListenersLinked
      <4>2. CASE m = k
        BY <4>2, <2>1, <2>2
      <4> QED BY <4>1, <4>2, <2>3
    <3>2. ASSUME NEW m \in Made', NEW n \in Made', monitors'[m].src = monitors'[n].src,
                 ~monitors'[m].exit, ~monitors'[n].exit
          PROVE  m = n
      <4>1. \A x \in Made : monitors[x].exit \/ monitors[x].src # s
        BY <1>8 DEF FindActive, ActiveOf
      <4>2. CASE m \in Made /\ n \in Made
        BY <4>2, <3>2, <2>2 DEF MonitorInv, ListenersLinked
      <4>3. m = k => n \notin Made
        BY <3>2, <4>1, <2>1, <2>2
      <4>4. n = k => m \notin Made
        BY <3>2, <4>1, <2>1, <2>2
      <4> QED BY <4>2, <4>3, <4>4, <2>3
    <3>3. ASSUME NEW m \in Made', NEW x \in monitors'[m].lis
          PROVE  listensTo'[x] = monitors'[m].src
      <4>1. CASE m \in Made
        <5>1. x \in monitors[m].lis /\ x \in MonitorListeners /\ x # l
          BY <4>1, <3>3, <2>2, <1>4, <1>6
        <5> QED BY <4>1, <5>1, <1>5, <2>2 DEF MonitorInv, ListenersLinked
      <4>2. CASE m = k
        BY <4>2, <3>3, <2>1, <2>2, <1>5
      <4> QED BY <4>1, <4>2, <2>3
    <3>4. ASSUME NEW x \in MonitorListeners, listensTo'[x] # NoMonitor
          PROVE  \E m \in Made' : x \in monitors'[m].lis
      <4>1. CASE x = l
        BY <4>1, <2>1, <2>2, <2>3
      <4>2. CASE x # l
        <5>1. PICK m \in Made : x \in monitors[m].lis
          BY <3>4, <4>2, <1>5 DEF MonitorInv, ListenersLinked
        <5> QED BY <5>1, <2>2, <2>3
      <4> QED BY <4>1, <4>2
    <3> QED BY <3>1, <3>2, <3>3, <3>4 DEF ListenersLinked
  <2> QED BY <2>2, <2>3, <2>5, <2>7, <2>10, <2>11, <1>1, <1>2, <1>3 DEF MonitorInv, TypeOKMonitor
<1> QED BY <1>7, <1>8 DEF AddMonitor, Registers

\* The orders of a set that has no more than one.
LEMMA OneOrder ==
  /\ \A q \in Seq(Order) : q \o SetToSeq({}) = q
  /\ \A q \in Seq(Order), e \in Order : q \o SetToSeq({e}) = Append(q, e)
<1>1. ASSUME NEW q \in Seq(Order)
      PROVE  q \o SetToSeq({}) = q
  <2>1. Cardinality({}) = 0
    BY FS_EmptySet
  <2>2. PICK f \in [1..0 -> {}] : f = SetToSeq({})
    <3>1. [i \in 1..0 |-> i] \in [1..0 -> {}] /\ IsInjective([i \in 1..0 |-> i])
      BY DEF IsInjective
    <3>2. \E f \in [1..0 -> {}] : IsInjective(f)
      BY <3>1
    <3> QED BY <3>2, <2>1 DEF SetToSeq
  <2>3. SetToSeq({}) = <<>>
    BY <2>2
  <2> QED BY <2>3
<1>2. ASSUME NEW q \in Seq(Order), NEW e \in Order
      PROVE  q \o SetToSeq({e}) = Append(q, e)
  <2>1. Cardinality({e}) = 1
    BY FS_Singleton
  <2>2. PICK f \in [1..1 -> {e}] : f = SetToSeq({e})
    <3>1. [i \in 1..1 |-> e] \in [1..1 -> {e}] /\ IsInjective([i \in 1..1 |-> e])
      BY DEF IsInjective
    <3>2. \E f \in [1..1 -> {e}] : IsInjective(f)
      BY <3>1
    <3> QED BY <3>2, <2>1, Zenon DEF SetToSeq
  <2>3. SetToSeq({e}) = <<e>>
    BY <2>2
  <2> QED BY <2>3, AppendIsConcat
<1> QED BY <1>1, <1>2

\* A listener leaves; its reader stops if it was the last.
LEMMA RemoveMonitorKeeps ==
  ASSUME MonitorInv, NEW l \in MonitorListeners, RemoveMonitor(l)
  PROVE  MonitorInv'
<1> DEFINE of == {m \in Made : monitors[m].src = listensTo[l]}
           stopped == {m \in of : ~monitors[m].exit /\ monitors[m].lis \subseteq {l}}
<1>1. /\ listensTo[l] # NoMonitor /\ listensTo' = [listensTo EXCEPT ![l] = NoMonitor]
      /\ running' = running
      /\ monitors' = [m \in Made |-> IF m \in of THEN Without(m, l) ELSE monitors[m]]
      /\ orders' = orders \o SetToSeq({[ev |-> "unregister", m |-> m] : m \in stopped})
  BY DEF RemoveMonitor
<1>2. /\ monitors \in Seq(Reader) /\ Len(monitors) \in Nat
      /\ \A m \in Made : m \in Nat /\ monitors[m] \in Reader
      /\ orders \in Seq(Order) /\ running \subseteq Made
  BY MonitorFacts
<1>3. /\ listensTo' \in [MonitorListeners -> MonitorSources \union {NoMonitor}]
      /\ \A x \in MonitorListeners : listensTo'[x] = IF x = l THEN NoMonitor ELSE listensTo[x]
  BY <1>1 DEF MonitorInv, TypeOKMonitor
<1>4. PICK k \in Made : l \in monitors[k].lis
  BY <1>1 DEF MonitorInv, ListenersLinked
<1>5. monitors[k].src = listensTo[l] /\ ~monitors[k].exit /\ k \in of
  BY <1>4 DEF MonitorInv, ListenersLinked
\* Only that reader is not stopped, and so only it changes.
<1>6. \A m \in of : m # k => monitors[m].exit /\ monitors[m].lis = {}
  BY <1>5 DEF MonitorInv, ListenersLinked
<1> DEFINE lis == monitors[k].lis \ {l}
<1>7. /\ monitors' \in Seq(Reader) /\ Len(monitors') = Len(monitors)
      /\ \A m \in Made : monitors'[m].src = monitors[m].src
      /\ \A m \in Made : m # k => /\ monitors'[m].exit <=> monitors[m].exit
                                  /\ monitors'[m].lis = monitors[m].lis
      /\ monitors'[k].lis = lis /\ (monitors'[k].exit <=> lis = {})
  <2>1. ASSUME NEW m \in Made
        PROVE  /\ monitors'[m] \in Reader /\ monitors'[m].src = monitors[m].src
               /\ m # k => /\ monitors'[m].exit <=> monitors[m].exit
                           /\ monitors'[m].lis = monitors[m].lis
               /\ m = k => monitors'[m].lis = lis /\ (monitors'[m].exit <=> lis = {})
    <3>1. CASE m \notin of
      BY <3>1, <1>1, <1>2, <1>5
    <3>2. CASE m \in of
      <4> DEFINE w == monitors[m].lis \ {l}
      <4>1. monitors'[m] = [monitors[m] EXCEPT !.lis = w, !.exit = @ \/ w = {}]
        BY <3>2, <1>1, Zenon DEF Without
      <4>2. monitors[m] \in Reader /\ w \in SUBSET MonitorListeners
        BY <1>2 DEF Reader
      <4> HIDE DEF w
      <4>3. /\ monitors'[m] \in Reader /\ monitors'[m].src = monitors[m].src
            /\ monitors'[m].lis = w /\ (monitors'[m].exit <=> monitors[m].exit \/ w = {})
        BY <4>1, <4>2, Zenon DEF Reader
      <4>4. CASE m = k
        BY <4>3, <4>4, <1>5 DEF w
      <4>5. CASE m # k
        BY <4>3, <4>5, <3>2, <1>6 DEF w
      <4> QED BY <4>3, <4>4, <4>5
    <3> QED BY <3>1, <3>2
  <2>2. DOMAIN monitors' = 1..Len(monitors) /\ monitors' = [m \in Made |-> monitors'[m]]
    BY <1>1 DEF Made
  <2>3. monitors' \in Seq(Reader) /\ Len(monitors') = Len(monitors)
    BY <2>1, <2>2, <1>2, SMTT(30) DEF Made
  <2> QED BY <2>1, <2>3, <1>4
<1>8. Made' = Made
  BY <1>7 DEF Made
<1>9. IF lis = {} THEN orders' = Append(orders, Unregisters(k)) ELSE orders' = orders
  <2>1. CASE lis = {}
    <3>1. stopped = {k}
      BY <2>1, <1>4, <1>5, <1>6
    <3>2. {[ev |-> "unregister", m |-> m] : m \in stopped} = {Unregisters(k)}
      BY <3>1 DEF Unregisters
    <3>3. Unregisters(k) \in Order
      BY <1>2, RegistersDiffer
    <3> QED BY <2>1, <3>2, <3>3, <1>1, <1>2, OneOrder
  <2>2. CASE lis # {}
    <3>1. stopped = {}
      BY <2>2, <1>5, <1>6
    <3>2. {[ev |-> "unregister", m |-> m] : m \in stopped} = {}
      BY <3>1
    <3> QED BY <2>2, <3>2, <1>1, <1>2, OneOrder
  <2> QED BY <2>1, <2>2
<1> HIDE DEF lis, of, stopped
<1>10. ~Contains(orders, Unregisters(k))
  BY <1>5 DEF MonitorInv, ActivityFollowsReader
<1>11. /\ OrdersKept' /\ orders' \in Seq(Order)
       /\ \A m \in Made : /\ Contains(orders', Registers(m)) <=> Contains(orders, Registers(m))
                          /\ Contains(orders', Unregisters(m)) <=>
                               Contains(orders, Unregisters(m)) \/ (m = k /\ lis = {})
  <2>1. CASE lis = {}
    <3>1. orders' = Append(orders, Unregisters(k)) /\ k \in Nat
      BY <2>1, <1>2, <1>9
    <3>2. /\ orders' \in Seq(Order) /\ Len(orders') = Len(orders) + 1
          /\ \A i \in 1..Len(orders) : orders'[i] = orders[i]
          /\ orders'[Len(orders) + 1] = Unregisters(k)
          /\ \A x : Contains(orders', x) <=> Contains(orders, x) \/ x = Unregisters(k)
          /\ Unregisters(k).m = k
      BY <3>1, <1>2, OrderAppended, RegistersDiffer
    <3>3. OneEach(orders') /\ RegisteredFirst(orders')
      BY <3>1, <1>2, <1>10, UnregisterOrdered DEF MonitorInv, OrdersKept
    <3>4. \A i \in 1..Len(orders) : orders[i].m \in Made
      BY DEF MonitorInv, OrdersKept
    <3>5. \A i \in 1..Len(orders') : i \in 1..Len(orders) \/ i = Len(orders) + 1
      BY <3>2, <1>2, LenProperties
    <3>6. \A i \in 1..Len(orders') : orders'[i].m \in Made'
      BY <3>2, <3>4, <3>5, <1>8
    <3>7. \A m \in Made : /\ Contains(orders', Registers(m)) <=> Contains(orders, Registers(m))
                          /\ Contains(orders', Unregisters(m)) <=>
                               Contains(orders, Unregisters(m)) \/ m = k
      BY <3>1, <3>2, <1>2, RegistersDiffer
    <3> QED BY <2>1, <3>2, <3>3, <3>6, <3>7 DEF OrdersKept
  <2>2. CASE lis # {}
    BY <2>2, <1>2, <1>8, <1>9 DEF MonitorInv, OrdersKept, OneEach, RegisteredFirst
  <2> QED BY <2>1, <2>2
<1>12. ActivityFollowsReader'
  <2>1. ASSUME NEW m \in Made
        PROVE  /\ m \in running => ~Contains(orders', Registers(m))
               /\ Contains(orders', Unregisters(m)) => monitors'[m].exit
               /\ ~monitors'[m].exit => m \in running \/ Contains(orders', Registers(m))
               /\ monitors'[m].exit /\ (m \in running \/ Contains(orders', Registers(m))) =>
                    Contains(orders', Unregisters(m))
    <3>1. CASE m # k
      BY <3>1, <1>7, <1>11 DEF MonitorInv, ActivityFollowsReader
    <3>2. CASE m = k
      BY <3>2, <1>5, <1>7, <1>10, <1>11 DEF MonitorInv, ActivityFollowsReader
    <3> QED BY <3>1, <3>2
  <2> QED BY <2>1, <1>1, <1>8 DEF ActivityFollowsReader
<1>13. ListenersLinked'
  <2>1. \A m \in Made : monitors'[m].exit <=> monitors'[m].lis = {}
    BY <1>7 DEF MonitorInv, ListenersLinked
  <2>2. ASSUME NEW m \in Made, NEW n \in Made, monitors'[m].src = monitors'[n].src,
               ~monitors'[m].exit, ~monitors'[n].exit
        PROVE  m = n
    <3>1. ~monitors[m].exit /\ ~monitors[n].exit
      BY <2>2, <1>5, <1>7
    <3> QED BY <2>2, <3>1, <1>7 DEF MonitorInv, ListenersLinked
  <2>3. ASSUME NEW m \in Made, NEW x \in monitors'[m].lis
        PROVE  listensTo'[x] = monitors'[m].src
    <3>1. x \in monitors[m].lis /\ x \in MonitorListeners
      <4>1. x \in monitors[m].lis
        BY <2>3, <1>7 DEF lis
      <4> QED BY <4>1, <1>2 DEF Reader
    <3>2. listensTo[x] = monitors[m].src
      BY <3>1 DEF MonitorInv, ListenersLinked
    <3>3. x # l
      <4>1. CASE m = k
        BY <4>1, <2>3, <1>7 DEF lis
      <4>2. CASE m # k /\ x = l
        <5>1. monitors[m].src = monitors[k].src /\ ~monitors[m].exit
          BY <4>2, <3>1, <3>2, <1>5 DEF MonitorInv, ListenersLinked
        <5> QED BY <5>1, <4>2, <1>5 DEF MonitorInv, ListenersLinked
      <4> QED BY <4>1, <4>2
    <3> QED BY <3>1, <3>2, <3>3, <1>3, <1>7
  <2>4. ASSUME NEW x \in MonitorListeners, listensTo'[x] # NoMonitor
        PROVE  \E m \in Made : x \in monitors'[m].lis
    <3>1. x # l /\ listensTo[x] # NoMonitor
      BY <2>4, <1>3
    <3>2. PICK m \in Made : x \in monitors[m].lis
      BY <3>1 DEF MonitorInv, ListenersLinked
    <3>3. x \in monitors'[m].lis
      BY <3>1, <3>2, <1>7 DEF lis
    <3> QED BY <3>3
  <2> QED BY <2>1, <2>2, <2>3, <2>4, <1>8 DEF ListenersLinked
<1> QED BY <1>1, <1>2, <1>3, <1>7, <1>8, <1>11, <1>12, <1>13, Zenon DEF MonitorInv, TypeOKMonitor

LEMMA MonitorInvInductive == MonitorInv /\ [NextMonitor]_monitorVars => MonitorInv'
<1> SUFFICES ASSUME MonitorInv, [NextMonitor]_monitorVars PROVE MonitorInv'
  OBVIOUS
<1>1. CASE MonitorLoop
  BY <1>1, MonitorStutter
     DEF MonitorLoop, OnMonitorResult, TellMonitorListener, EndMonitorResult
<1>2. ASSUME NEW l \in MonitorListeners, RemoveMonitor(l)
      PROVE  MonitorInv'
  BY <1>2, RemoveMonitorKeeps
<1>3. ASSUME NEW l \in MonitorListeners, NEW s \in MonitorSources, AddMonitor(s, l)
      PROVE  MonitorInv'
  BY <1>3, AddMonitorKeeps
<1>4. CASE HandleOrder
  BY <1>4, HandleOrderKeeps
<1>5. ASSUME NEW m \in Made, PublishTask(m)
      PROVE  MonitorInv'
  BY <1>5, MonitorStutter DEF PublishTask
<1>6. CASE UNCHANGED monitorVars
  BY <1>6, MonitorStutter DEF monitorVars
<1> QED BY <1>1, <1>2, <1>3, <1>4, <1>5, <1>6 DEF NextMonitor

\* Every listener of the random and EPICS engines is served by the one reader
\* of its source that is not stopping, and a stopped reader, which stays in
\* the list for ever, serves nobody (cumbiarandom.cpp:46-51,
\* cumbiaepics.cpp:76-99), for any number of readers that came and went.
THEOREM MonitorsAlwaysServe == SpecMonitor => []MonitorServes
<1>1. InitMonitor => MonitorInv
  <2> SUFFICES ASSUME InitMonitor PROVE MonitorInv
    OBVIOUS
  <2>1. /\ monitors = <<>> /\ orders = <<>> /\ running = {}
        /\ listensTo = [l \in MonitorListeners |-> NoMonitor]
    BY DEF InitMonitor
  <2>2. Made = {} /\ 1..Len(orders) = {}
    BY <2>1 DEF Made
  <2>3. TypeOKMonitor
    BY <2>1 DEF TypeOKMonitor
  <2>4. OrdersKept
    BY <2>2 DEF OrdersKept, OneEach, RegisteredFirst
  <2>5. ActivityFollowsReader
    BY <2>2 DEF ActivityFollowsReader
  <2>6. ListenersLinked
    <3>1. \A l \in MonitorListeners : listensTo[l] = NoMonitor
      BY <2>1
    <3> QED BY <2>2, <3>1 DEF ListenersLinked
  <2> QED BY <2>3, <2>4, <2>5, <2>6 DEF MonitorInv
<1> QED BY <1>1, MonitorInvServes, MonitorInvInductive, PTL DEF SpecMonitor

-----------------------------------------------------------------------------
(* The one-shot actions of the Tango engine                                *)

Shot == [live : BOOLEAN, src : OneShotSources \union {NoOneShot},
         kind : OneShotKinds \union {NoOneShot}, listeners : SUBSET OneShotListeners,
         linked : BOOLEAN, task : {"run", "published", "done"}]

TypeOKOneShot ==
  /\ shots \in [ShotIds -> Shot]
  /\ registry \in [OneShotSources -> [OneShotKinds -> ShotIds \union {0}]]
  /\ published \in Seq(ShotIds)
  /\ told \in [shot : ShotIds \union {0}, rest : SUBSET OneShotListeners,
               at : OneShotListeners \union {NoOneShot}, left : SUBSET OneShotListeners]
  /\ wants \in [OneShotSources -> [OneShotKinds -> SUBSET OneShotListeners]]

\* The service finds actions that exist, by their source and type.
RegistryOfLive ==
  /\ \A i \in ShotIds : /\ shots[i].linked => shots[i].live
                        /\ shots[i].live => shots[i].src \in OneShotSources
                                            /\ shots[i].kind \in OneShotKinds
  /\ \A s \in OneShotSources, k \in OneShotKinds :
       LET i == registry[s][k] IN i # 0 => shots[i].live /\ shots[i].src = s /\ shots[i].kind = k

\* The listeners of an action that will be told still want it.
LinkedWanted ==
  \A i \in ShotIds : LET a == shots[i] IN
    a.linked => /\ registry[a.src][a.kind] = i
                /\ i # told.shot => a.listeners \subseteq wants[a.src][a.kind]

\* The action being told exists, and no other has its place in the service; who
\* is still to be told wants it, or was unlinked by the callback of another.
TellingWanted ==
  told.shot # 0 => LET a == shots[told.shot] IN
       a.live /\ told.rest \subseteq wants[a.src][a.kind] \union told.left
       /\ registry[a.src][a.kind] \in {0, told.shot}

ShotInv == TypeOKOneShot /\ RegistryOfLive /\ LinkedWanted /\ TellingWanted

LEMMA AddOneShotKeeps ==
  ASSUME ReaddInCallback = FALSE, ShotInv, NEW l \in OneShotListeners,
         NEW s \in OneShotSources, NEW k \in OneShotKinds, AddOneShot(l, s, k)
  PROVE  ShotInv'
<1> DEFINE i == registry[s][k]
           j == CHOOSE f \in FreeShots : TRUE
           new == [live |-> TRUE, src |-> s, kind |-> k, listeners |-> {l}, linked |-> TRUE,
                   task |-> "run"]
<1>1. /\ told' = told /\ published' = published
      /\ wants' = [wants EXCEPT ![s][k] = @ \union {l}]
      /\ told.shot # 0 => <<s, k>> # <<shots[told.shot].src, shots[told.shot].kind>>
  BY DEF AddOneShot
<1>2. TypeOKOneShot /\ RegistryOfLive /\ LinkedWanted /\ TellingWanted
  BY DEF ShotInv
<1>3. /\ wants' \in [OneShotSources -> [OneShotKinds -> SUBSET OneShotListeners]]
      /\ \A t \in OneShotSources, m \in OneShotKinds :
           wants'[t][m] = IF t = s /\ m = k THEN wants[s][k] \union {l} ELSE wants[t][m]
  BY <1>1, <1>2 DEF TypeOKOneShot
<1>4. CASE i # 0 /\ shots' = [shots EXCEPT ![i].listeners = @ \union {l}] /\ registry' = registry
  <2>1. i \in ShotIds /\ shots[i].live /\ shots[i].src = s /\ shots[i].kind = k
    BY <1>2, <1>4 DEF TypeOKOneShot, RegistryOfLive
  <2>2. /\ shots' \in [ShotIds -> Shot]
        /\ \A x \in ShotIds : /\ shots'[x].live = shots[x].live /\ shots'[x].src = shots[x].src
                              /\ shots'[x].kind = shots[x].kind /\ shots'[x].linked = shots[x].linked
                              /\ shots'[x].listeners = IF x = i THEN shots[x].listeners \union {l}
                                                       ELSE shots[x].listeners
    <3> DEFINE r == [shots[i] EXCEPT !.listeners = @ \union {l}]
    <3>1. /\ r \in Shot /\ r.live = shots[i].live /\ r.src = shots[i].src /\ r.kind = shots[i].kind
          /\ r.linked = shots[i].linked /\ r.listeners = shots[i].listeners \union {l}
      <4>1. i \in ShotIds /\ shots[i] \in Shot
        BY <2>1, <1>2 DEF TypeOKOneShot
      <4> HIDE DEF i
      <4> QED BY <4>1 DEF Shot
    <3>2. shots' = [shots EXCEPT ![i] = r]
      BY <1>4
    <3> HIDE DEF r
    <3> QED BY <3>1, <3>2, <2>1, <1>2 DEF TypeOKOneShot
  <2>3. TypeOKOneShot'
    BY <2>2, <1>1, <1>2, <1>3, <1>4, SMTT(30) DEF TypeOKOneShot
  <2>4. RegistryOfLive'
    <3>1. \A t \in OneShotSources, m \in OneShotKinds :
            registry[t][m] # 0 => registry[t][m] \in ShotIds
      BY <1>2, SMTT(30) DEF TypeOKOneShot
    <3> QED BY <3>1, <2>2, <1>2, <1>4 DEF RegistryOfLive
  <2>5. LinkedWanted'
    <3> SUFFICES ASSUME NEW x \in ShotIds, shots'[x].linked
                 PROVE  /\ registry'[shots'[x].src][shots'[x].kind] = x
                        /\ x # told'.shot =>
                             shots'[x].listeners \subseteq wants'[shots'[x].src][shots'[x].kind]
      BY DEF LinkedWanted
    <3> DEFINE t == shots[x].src
               m == shots[x].kind
    <3>1. shots'[x].src = t /\ shots'[x].kind = m /\ shots[x].linked
      BY <2>2
    <3>2. t \in OneShotSources /\ m \in OneShotKinds
      BY <3>1, <1>2 DEF RegistryOfLive
    <3>3. registry[t][m] = x /\ (x # told.shot => shots[x].listeners \subseteq wants[t][m])
      BY <3>1, <1>2 DEF LinkedWanted
    <3>4. x = i => t = s /\ m = k
      BY <2>1
    <3> HIDE DEF t, m
    <3>5. wants'[t][m] = IF t = s /\ m = k THEN wants[s][k] \union {l} ELSE wants[t][m]
      BY <3>2, <1>3, Zenon
    <3>6. shots'[x].listeners = IF x = i THEN shots[x].listeners \union {l} ELSE shots[x].listeners
      BY <2>2, Zenon
    <3>7. x # told'.shot => shots'[x].listeners \subseteq wants'[t][m]
      <4>1. told'.shot = told.shot
        BY <1>1
      <4> QED BY <3>3, <3>4, <3>5, <3>6, <4>1
    <3>8. registry'[t][m] = x
      BY <3>3, <1>4, Zenon
    <3> QED BY <3>1, <3>7, <3>8, Zenon
  <2>6. TellingWanted'
    <3> DEFINE y == told.shot
               t == shots[y].src
               m == shots[y].kind
    <3>1. CASE y = 0
      BY <3>1, <1>1, <1>2, SMTT(30) DEF TellingWanted
    <3>2. CASE y # 0
      <4>1. /\ y \in ShotIds /\ shots[y].live
            /\ told.rest \subseteq wants[t][m] \union told.left /\ registry[t][m] \in {0, y}
        BY <3>2, <1>2 DEF TypeOKOneShot, TellingWanted
      <4>2. t \in OneShotSources /\ m \in OneShotKinds
        BY <4>1, <1>2 DEF RegistryOfLive
      <4>3. wants[t][m] \subseteq wants'[t][m]
        BY <4>2, <1>3
      <4>4. shots'[y].live = shots[y].live /\ shots'[y].src = t /\ shots'[y].kind = m
        BY <4>1, <2>2
      <4>5. told.rest \subseteq wants'[shots'[y].src][shots'[y].kind] \union told.left
        BY <4>1, <4>3, <4>4
      <4>6. registry'[shots'[y].src][shots'[y].kind] \in {0, y}
        BY <4>1, <4>4, <1>4
      <4> QED BY <4>1, <4>4, <4>5, <4>6, <1>1 DEF TellingWanted
    <3> QED BY <3>1, <3>2
  <2> QED BY <2>3, <2>4, <2>5, <2>6 DEF ShotInv
<1>5. CASE i = 0 /\ FreeShots # {} /\ shots' = [shots EXCEPT ![j] = new]
           /\ registry' = [registry EXCEPT ![s][k] = j]
  <2>1. j \in ShotIds /\ ~shots[j].live
    BY <1>5 DEF FreeShots
  <2> HIDE DEF j
  <2>2. new \in Shot
    BY DEF Shot
  <2> HIDE DEF new
  <2>3. /\ shots' \in [ShotIds -> Shot] /\ shots'[j] = new
        /\ \A x \in ShotIds : x # j => shots'[x] = shots[x]
    BY <2>1, <2>2, <1>2, <1>5 DEF TypeOKOneShot
  <2>4. /\ new.live /\ new.linked /\ new.src = s /\ new.kind = k /\ new.listeners = {l}
    BY DEF new
  <2>5. /\ registry' \in [OneShotSources -> [OneShotKinds -> ShotIds \union {0}]]
        /\ \A t \in OneShotSources, m \in OneShotKinds :
             registry'[t][m] = IF t = s /\ m = k THEN j ELSE registry[t][m]
    BY <2>1, <1>2, <1>5 DEF TypeOKOneShot
  <2>6. TypeOKOneShot'
    BY <2>3, <2>5, <1>1, <1>2, <1>3 DEF TypeOKOneShot
  <2>7. j # 0
    BY <2>1, OneShotAssumption DEF ShotIds
  <2>8. RegistryOfLive'
    <3>1. \A x \in ShotIds : /\ shots'[x].linked => shots'[x].live
                             /\ shots'[x].live => shots'[x].src \in OneShotSources
                                                  /\ shots'[x].kind \in OneShotKinds
      BY <2>3, <2>4, <1>2 DEF RegistryOfLive
    <3>2. ASSUME NEW t \in OneShotSources, NEW m \in OneShotKinds, registry'[t][m] # 0
          PROVE  LET x == registry'[t][m]
                 IN shots'[x].live /\ shots'[x].src = t /\ shots'[x].kind = m
      <4>1. CASE t = s /\ m = k
        BY <4>1, <2>3, <2>4, <2>5
      <4>2. CASE ~(t = s /\ m = k)
        <5>1. registry'[t][m] = registry[t][m] /\ registry[t][m] \in ShotIds
          BY <4>2, <3>2, <2>5, <1>2 DEF TypeOKOneShot
        <5>2. /\ shots[registry[t][m]].live /\ shots[registry[t][m]].src = t
              /\ shots[registry[t][m]].kind = m
          BY <5>1, <3>2, <1>2 DEF RegistryOfLive
        <5> QED BY <5>1, <5>2, <2>1, <2>3
      <4> QED BY <4>1, <4>2
    <3> QED BY <3>1, <3>2 DEF RegistryOfLive
  <2>9. LinkedWanted'
    <3> SUFFICES ASSUME NEW x \in ShotIds, shots'[x].linked
                 PROVE  /\ registry'[shots'[x].src][shots'[x].kind] = x
                        /\ x # told'.shot => shots'[x].listeners \subseteq wants'[shots'[x].src][shots'[x].kind]
      BY DEF LinkedWanted
    <3>1. CASE x = j
      BY <3>1, <2>3, <2>4, <2>5, <1>3
    <3>2. CASE x # j
      <4>1. /\ shots'[x] = shots[x] /\ shots[x].linked
            /\ shots[x].src \in OneShotSources /\ shots[x].kind \in OneShotKinds
            /\ registry[shots[x].src][shots[x].kind] = x /\ x # 0
        BY <3>2, <2>3, <1>2, OneShotAssumption DEF RegistryOfLive, LinkedWanted, ShotIds
      <4>2. ~(shots[x].src = s /\ shots[x].kind = k)
        BY <4>1, <1>5
      <4> QED BY <4>1, <4>2, <2>5, <1>1, <1>2, <1>3 DEF LinkedWanted
    <3> QED BY <3>1, <3>2
  <2>10. TellingWanted'
    <3>1. CASE told.shot = 0
      BY <3>1, <1>1, <1>2 DEF TellingWanted
    <3>2. CASE told.shot # 0
      <4>1. /\ told.shot \in ShotIds /\ shots[told.shot].live
            /\ shots[told.shot].src \in OneShotSources /\ shots[told.shot].kind \in OneShotKinds
        BY <3>2, <1>2 DEF TellingWanted, TypeOKOneShot, RegistryOfLive
      <4>2. shots'[told.shot] = shots[told.shot]
        BY <4>1, <2>1, <2>3
      <4> QED BY <3>2, <4>1, <4>2, <2>5, <1>1, <1>2, <1>3 DEF TellingWanted
    <3> QED BY <3>1, <3>2
  <2> QED BY <2>6, <2>8, <2>9, <2>10 DEF ShotInv
<1> QED BY <1>4, <1>5 DEF AddOneShot

\* What most steps leave alone.
LEMMA ShotFieldsKept ==
  ASSUME RegistryOfLive, TypeOKOneShot, UNCHANGED registry,
         \A x \in ShotIds : /\ shots'[x].live = shots[x].live /\ shots'[x].src = shots[x].src
                            /\ shots'[x].kind = shots[x].kind /\ shots'[x].linked = shots[x].linked
  PROVE  RegistryOfLive'
<1>1. \A t \in OneShotSources, m \in OneShotKinds :
        registry[t][m] # 0 => registry[t][m] \in ShotIds
  BY DEF TypeOKOneShot
<1> QED BY <1>1 DEF RegistryOfLive

LEMMA TaskOfShot ==
  ASSUME ShotInv, NEW i \in ShotIds, NEW task \in {"run", "published", "done"},
         shots' = [shots EXCEPT ![i].task = task]
  PROVE  /\ shots' \in [ShotIds -> Shot]
         /\ \A x \in ShotIds : /\ shots'[x].live = shots[x].live /\ shots'[x].src = shots[x].src
                               /\ shots'[x].kind = shots[x].kind /\ shots'[x].linked = shots[x].linked
                               /\ shots'[x].listeners = shots[x].listeners
<1>1. shots \in [ShotIds -> Shot]
  BY DEF ShotInv, TypeOKOneShot
<1> DEFINE r == [shots[i] EXCEPT !.task = task]
<1>2. /\ r \in Shot /\ r.live = shots[i].live /\ r.src = shots[i].src /\ r.kind = shots[i].kind
      /\ r.linked = shots[i].linked /\ r.listeners = shots[i].listeners
  <2>1. shots[i] \in Shot
    BY <1>1
  <2> QED BY <2>1 DEF Shot
<1>3. shots' = [shots EXCEPT ![i] = r]
  OBVIOUS
<1> HIDE DEF r
<1> QED BY <1>1, <1>2, <1>3

\* The last listener leaves, or another.
LEMMA UnlinkOneShotKeeps ==
  ASSUME ShotInv, NEW l \in OneShotListeners, NEW s \in OneShotSources, NEW k \in OneShotKinds,
         UnlinkOneShot(l, s, k)
  PROVE  ShotInv'
<1> DEFINE i == registry[s][k]
<1>1. /\ published' = published /\ i # 0
      /\ wants' = [wants EXCEPT ![s][k] = @ \ {l}]
      /\ told' = IF told.shot = i THEN [told EXCEPT !.left = @ \union {l}] ELSE told
      /\ IF shots[i].listeners \subseteq {l} THEN StopShot(i)
         ELSE shots' = [shots EXCEPT ![i].listeners = @ \ {l}] /\ UNCHANGED registry
  BY DEF UnlinkOneShot
<1>2. TypeOKOneShot /\ RegistryOfLive /\ LinkedWanted /\ TellingWanted
  BY DEF ShotInv
<1>3. i \in ShotIds /\ shots[i] \in Shot /\ shots[i].live /\ shots[i].src = s /\ shots[i].kind = k
  BY <1>1, <1>2 DEF TypeOKOneShot, RegistryOfLive
<1>4. /\ wants' \in [OneShotSources -> [OneShotKinds -> SUBSET OneShotListeners]]
      /\ \A t \in OneShotSources, m \in OneShotKinds :
           wants'[t][m] = IF t = s /\ m = k THEN wants[s][k] \ {l} ELSE wants[t][m]
  BY <1>1, <1>2 DEF TypeOKOneShot
<1> HIDE DEF i
\* The three kinds stop in their own way; in each the listener is gone.
<1>5. PICK r \in Shot :
        /\ shots' = [shots EXCEPT ![i] = r]
        /\ r.src = s /\ r.kind = k /\ r.listeners = shots[i].listeners \ {l}
        /\ r.linked => shots[i].linked
        /\ r.live \/ (~r.linked /\ told.shot # i)
        /\ \/ UNCHANGED registry /\ r.live
           \/ registry' = [registry EXCEPT ![s][k] = 0] /\ ~r.linked
  <2>1. CASE ~(shots[i].listeners \subseteq {l})
    <3> DEFINE r == [shots[i] EXCEPT !.listeners = @ \ {l}]
    <3>1. /\ r \in Shot /\ r.src = s /\ r.kind = k /\ r.listeners = shots[i].listeners \ {l}
          /\ r.linked = shots[i].linked /\ r.live
      BY <1>3 DEF Shot
    <3>2. shots' = [shots EXCEPT ![i] = r] /\ UNCHANGED registry
      BY <1>1, <2>1
    <3> QED BY <3>1, <3>2
  <2>2. CASE shots[i].listeners \subseteq {l}
    <3>1. StopShot(i) /\ shots[i].listeners \ {l} = {}
      BY <1>1, <2>2
    <3> DEFINE a == [shots[i] EXCEPT !.listeners = {}]
    <3>2. a.kind = k /\ a.src = s
      BY <1>3 DEF Shot
    <3>3. CASE k = "writer" /\ shots' = [shots EXCEPT ![i] = a] /\ UNCHANGED registry
      <4>1. /\ a \in Shot /\ a.listeners = {} /\ a.linked = shots[i].linked /\ a.live
        BY <1>3 DEF Shot
      <4> QED BY <3>1, <3>2, <3>3, <4>1
    <3>4. CASE shots' = [shots EXCEPT ![i] = StoppedConfig(i)]
               /\ registry' = [registry EXCEPT ![s][k] = 0]
      <4> DEFINE r == StoppedConfig(i)
      <4>1. /\ r \in Shot /\ r.src = s /\ r.kind = k /\ r.listeners = {} /\ r.linked = FALSE
            /\ r.live = (told.shot = i)
        BY <1>3 DEF Shot, StoppedConfig
      <4> HIDE DEF r
      <4> QED BY <3>1, <3>4, <4>1 DEF r
    <3>5. CASE k = "db" /\ shots' = [shots EXCEPT ![i] = [a EXCEPT !.linked = FALSE]]
               /\ UNCHANGED registry
      <4> DEFINE r == [a EXCEPT !.linked = FALSE]
      <4>1. /\ r \in Shot /\ r.src = s /\ r.kind = k /\ r.listeners = {} /\ r.linked = FALSE
            /\ r.live
        BY <1>3 DEF Shot
      <4> HIDE DEF r
      <4> QED BY <3>1, <3>5, <4>1 DEF r
    <3> QED BY <3>1, <3>2, <3>3, <3>4, <3>5 DEF StopShot
  <2> QED BY <2>1, <2>2
<1>6. /\ shots' \in [ShotIds -> Shot] /\ shots'[i] = r
      /\ \A x \in ShotIds : x # i => shots'[x] = shots[x]
  BY <1>2, <1>3, <1>5 DEF TypeOKOneShot
<1>7. /\ registry' \in [OneShotSources -> [OneShotKinds -> ShotIds \union {0}]]
      /\ \A t \in OneShotSources, m \in OneShotKinds :
           registry'[t][m] = registry[t][m] \/ (t = s /\ m = k /\ registry'[t][m] = 0)
      /\ r.live \/ registry'[s][k] = 0
      /\ r.linked => registry' = registry
  <2>1. registry \in [OneShotSources -> [OneShotKinds -> ShotIds \union {0}]]
    BY <1>2 DEF TypeOKOneShot
  <2>2. CASE UNCHANGED registry /\ r.live
    BY <2>1, <2>2
  <2>3. CASE registry' = [registry EXCEPT ![s][k] = 0] /\ ~r.linked
    BY <2>1, <2>3
  <2> QED BY <1>5, <2>2, <2>3
<1>13. /\ told'.shot = told.shot /\ told'.rest = told.rest
       /\ told'.left = IF told.shot = i THEN told.left \union {l} ELSE told.left
       /\ told' \in [shot : ShotIds \union {0}, rest : SUBSET OneShotListeners,
                     at : OneShotListeners \union {NoOneShot}, left : SUBSET OneShotListeners]
  BY <1>1, <1>2 DEF TypeOKOneShot
<1>8. TypeOKOneShot'
  BY <1>1, <1>2, <1>4, <1>6, <1>7, <1>13 DEF TypeOKOneShot
<1>9. registry[s][k] = i /\ i # 0
  BY <1>1 DEF i
<1>10. RegistryOfLive'
  <2>1. ASSUME NEW x \in ShotIds
        PROVE  /\ shots'[x].linked => shots'[x].live
               /\ shots'[x].live => shots'[x].src \in OneShotSources /\ shots'[x].kind \in OneShotKinds
    BY <1>2, <1>5, <1>6 DEF RegistryOfLive
  <2>2. ASSUME NEW t \in OneShotSources, NEW m \in OneShotKinds, registry'[t][m] # 0
        PROVE  LET x == registry'[t][m]
               IN shots'[x].live /\ shots'[x].src = t /\ shots'[x].kind = m
    <3>1. registry'[t][m] = registry[t][m] /\ registry[t][m] \in ShotIds
      BY <2>2, <1>2, <1>7 DEF TypeOKOneShot
    <3>2. /\ shots[registry[t][m]].live /\ shots[registry[t][m]].src = t
          /\ shots[registry[t][m]].kind = m
      BY <2>2, <3>1, <1>2 DEF RegistryOfLive
    <3>3. CASE registry[t][m] = i
      <4>1. t = s /\ m = k
        BY <3>2, <3>3, <1>3
      <4> QED BY <2>2, <3>1, <3>3, <4>1, <1>5, <1>6, <1>7
    <3>4. CASE registry[t][m] # i
      BY <3>1, <3>2, <3>4, <1>6
    <3> QED BY <3>3, <3>4
  <2> QED BY <2>1, <2>2 DEF RegistryOfLive
<1>11. LinkedWanted'
  <2> SUFFICES ASSUME NEW x \in ShotIds, shots'[x].linked
               PROVE  /\ registry'[shots'[x].src][shots'[x].kind] = x
                      /\ x # told'.shot => shots'[x].listeners \subseteq wants'[shots'[x].src][shots'[x].kind]
    BY DEF LinkedWanted
  <2>1. CASE x = i
    <3>1. shots[i].linked /\ registry' = registry
      BY <2>1, <1>5, <1>6, <1>7
    <3>2. i # told.shot => shots[i].listeners \subseteq wants[s][k]
      BY <3>1, <1>2, <1>3 DEF LinkedWanted
    <3>3. /\ shots'[i].src = s /\ shots'[i].kind = k
          /\ shots'[i].listeners = shots[i].listeners \ {l}
      BY <1>5, <1>6
    <3>4. registry'[s][k] = i
      BY <3>1, <1>9
    <3>5. i # told'.shot => shots'[i].listeners \subseteq wants'[s][k]
      BY <3>2, <3>3, <1>4, <1>13
    <3> QED BY <2>1, <3>3, <3>4, <3>5
  <2>2. CASE x # i
    <3>1. /\ shots'[x] = shots[x] /\ shots[x].linked
          /\ shots[x].src \in OneShotSources /\ shots[x].kind \in OneShotKinds
          /\ registry[shots[x].src][shots[x].kind] = x
      BY <2>2, <1>2, <1>6 DEF RegistryOfLive, LinkedWanted
    <3>2. ~(shots[x].src = s /\ shots[x].kind = k)
      BY <2>2, <3>1, <1>9
    <3>3. x # told.shot => shots[x].listeners \subseteq wants[shots[x].src][shots[x].kind]
      BY <3>1, <1>2 DEF LinkedWanted
    <3>4. registry'[shots[x].src][shots[x].kind] = x
      BY <3>1, <3>2, <1>7
    <3>5. wants'[shots[x].src][shots[x].kind] = wants[shots[x].src][shots[x].kind]
      BY <3>1, <3>2, <1>4
    <3>6. told'.shot = told.shot
      BY <1>13
    <3> QED BY <3>1, <3>3, <3>4, <3>5, <3>6
  <2> QED BY <2>1, <2>2
<1>12. TellingWanted'
  <2>1. CASE told.shot = 0
    BY <2>1, <1>13 DEF TellingWanted
  <2>2. CASE told.shot # 0
    <3> DEFINE x == told.shot
               src == shots[x].src
               kind == shots[x].kind
    <3>1. /\ x \in ShotIds /\ shots[x].live
          /\ src \in OneShotSources /\ kind \in OneShotKinds
          /\ told.rest \subseteq wants[src][kind] \union told.left
          /\ registry[src][kind] \in {0, x}
      BY <2>2, <1>2 DEF TellingWanted, TypeOKOneShot, RegistryOfLive
    <3>2. shots'[x].live /\ shots'[x].src = src /\ shots'[x].kind = kind
      BY <3>1, <1>3, <1>5, <1>6
    <3>3. registry'[src][kind] \in {0, x}
      BY <3>1, <1>7
    <3>4. told.rest \subseteq wants'[src][kind] \union told'.left
      <4>1. CASE src = s /\ kind = k
        <5>1. x = i
          BY <3>1, <4>1, <1>9
        <5>2. wants'[src][kind] = wants[src][kind] \ {l}
          BY <4>1, <1>4
        <5>3. told'.left = told.left \union {l}
          BY <5>1, <1>13
        <5> QED BY <3>1, <5>2, <5>3
      <4>2. CASE ~(src = s /\ kind = k)
        <5>1. wants'[src][kind] = wants[src][kind]
          BY <3>1, <4>2, <1>4
        <5>2. told.left \subseteq told'.left
          BY <1>13
        <5> QED BY <3>1, <5>1, <5>2
      <4> QED BY <4>1, <4>2
    <3> HIDE DEF x, src, kind
    <3>5. told'.shot = x
      BY <1>13 DEF x
    <3> QED BY <3>2, <3>3, <3>4, <3>5, <1>13 DEF TellingWanted
  <2> QED BY <2>1, <2>2
<1> QED BY <1>8, <1>10, <1>11, <1>12 DEF ShotInv

\* onResult begins: a copy of the listeners is made.
LEMMA OnShotResultKeeps == ASSUME ShotInv, OnShotResult PROVE ShotInv'
<1> DEFINE i == Head(published)
<1>1. /\ published # <<>> /\ told.shot = 0 /\ published' = Tail(published)
      /\ shots' = [shots EXCEPT ![i].task = "done"]
      /\ told' = IF shots[i].linked
                 THEN [NotTold EXCEPT !.shot = i, !.rest = shots[i].listeners] ELSE NotTold
      /\ UNCHANGED <<registry, wants>>
  BY DEF OnShotResult
<1>2. TypeOKOneShot /\ RegistryOfLive /\ LinkedWanted /\ TellingWanted
  BY DEF ShotInv
<1>3. i \in ShotIds /\ published' \in Seq(ShotIds)
  BY <1>1, <1>2, HeadTailProperties DEF TypeOKOneShot
<1> HIDE DEF i
<1>4. /\ shots' \in [ShotIds -> Shot]
      /\ \A x \in ShotIds : /\ shots'[x].live = shots[x].live /\ shots'[x].src = shots[x].src
                            /\ shots'[x].kind = shots[x].kind /\ shots'[x].linked = shots[x].linked
                            /\ shots'[x].listeners = shots[x].listeners
  BY <1>1, <1>3, TaskOfShot
<1>5. RegistryOfLive'
  BY <1>1, <1>2, <1>4, ShotFieldsKept
<1>6. shots[i] \in Shot /\ shots[i].listeners \subseteq OneShotListeners
  BY <1>2, <1>3 DEF TypeOKOneShot, Shot
<1>7. /\ told'.at = NoOneShot
      /\ \/ told'.shot = 0 /\ told'.rest = {}
         \/ shots[i].linked /\ told'.shot = i /\ told'.rest = shots[i].listeners
      /\ told' \in [shot : ShotIds \union {0}, rest : SUBSET OneShotListeners,
                    at : OneShotListeners \union {NoOneShot}, left : SUBSET OneShotListeners]
  BY <1>1, <1>3, <1>6 DEF NotTold
<1>8. i # 0
  BY <1>3 DEF ShotIds
<1>9. shots[i].linked => /\ shots[i].live
                         /\ registry[shots[i].src][shots[i].kind] = i
                         /\ shots[i].listeners \subseteq wants[shots[i].src][shots[i].kind]
  BY <1>1, <1>2, <1>3, <1>8 DEF RegistryOfLive, LinkedWanted
<1>10. LinkedWanted'
  BY <1>1, <1>2, <1>4, <1>8, OneShotAssumption, SMTT(30) DEF LinkedWanted, ShotIds
<1>11. TellingWanted'
  <2>2. CASE told'.shot = 0
    BY <2>2 DEF TellingWanted
  <2>3. CASE shots[i].linked /\ told'.shot = i /\ told'.rest = shots[i].listeners
    <3>1. shots'[i].live /\ shots'[i].src = shots[i].src /\ shots'[i].kind = shots[i].kind
      BY <2>3, <1>3, <1>4, <1>9
    <3>2. told'.rest \subseteq wants'[shots'[i].src][shots'[i].kind]
      BY <2>3, <3>1, <1>1, <1>9
    <3>3. registry'[shots'[i].src][shots'[i].kind] \in {0, i}
      BY <2>3, <3>1, <1>1, <1>9
    <3> QED BY <2>3, <3>1, <3>2, <3>3, <1>7 DEF TellingWanted
  <2> QED BY <2>2, <2>3, <1>7
<1> QED BY <1>1, <1>2, <1>3, <1>4, <1>5, <1>7, <1>10, <1>11 DEF ShotInv, TypeOKOneShot

\* The action that is being told, and what the invariant says of it.
LEMMA ToldShot ==
  ASSUME ShotInv, told.shot # 0
  PROVE  LET a == shots[told.shot] IN
         /\ told.shot \in ShotIds /\ a.live
         /\ a.src \in OneShotSources /\ a.kind \in OneShotKinds
         /\ told.rest \subseteq wants[a.src][a.kind] \union told.left
         /\ registry[a.src][a.kind] \in {0, told.shot}
         \* no other action that will be told has its source and type
         /\ \A x \in ShotIds : x # told.shot /\ shots[x].linked
              => ~(shots[x].src = a.src /\ shots[x].kind = a.kind)
<1>1. /\ told.shot \in ShotIds /\ shots[told.shot].live
      /\ shots[told.shot].src \in OneShotSources /\ shots[told.shot].kind \in OneShotKinds
  BY DEF ShotInv, TypeOKOneShot, TellingWanted, RegistryOfLive
<1>2. /\ told.rest \subseteq wants[shots[told.shot].src][shots[told.shot].kind] \union told.left
      /\ registry[shots[told.shot].src][shots[told.shot].kind] \in {0, told.shot}
  BY DEF ShotInv, TellingWanted
<1>3. \A x \in ShotIds : x # 0 /\ (shots[x].linked => registry[shots[x].src][shots[x].kind] = x)
  BY DEF ShotInv, LinkedWanted, ShotIds
<1> QED BY <1>1, <1>2, <1>3

LEMMA TellShotKeeps ==
  ASSUME ShotInv, NEW l \in OneShotListeners, TellShot(l)
  PROVE  ShotInv'
<1> DEFINE a == shots[told.shot]
<1>1. /\ told.shot # 0 /\ l \in told.rest
      /\ told' = [told EXCEPT !.at = l, !.rest = @ \ {l}]
      /\ wants' = [wants EXCEPT ![a.src][a.kind] = @ \ {l}]
      /\ UNCHANGED <<shots, registry, published>>
  BY DEF TellShot
<1>2. TypeOKOneShot /\ RegistryOfLive /\ LinkedWanted /\ TellingWanted
  BY SMTT(30) DEF ShotInv
<1>3. /\ a.src \in OneShotSources /\ a.kind \in OneShotKinds
      /\ told.rest \subseteq wants[a.src][a.kind] \union told.left
      /\ \A x \in ShotIds : x # told.shot /\ shots[x].linked
           => ~(shots[x].src = a.src /\ shots[x].kind = a.kind)
  BY <1>1, ToldShot
<1> HIDE DEF a
<1>4. /\ wants' \in [OneShotSources -> [OneShotKinds -> SUBSET OneShotListeners]]
      /\ \A t \in OneShotSources, m \in OneShotKinds :
           wants'[t][m] = IF t = a.src /\ m = a.kind THEN wants[t][m] \ {l} ELSE wants[t][m]
  BY <1>1, <1>2, <1>3 DEF TypeOKOneShot
<1>5. /\ told'.shot = told.shot /\ told'.rest = told.rest \ {l} /\ told'.left = told.left
      /\ told' \in [shot : ShotIds \union {0}, rest : SUBSET OneShotListeners,
                    at : OneShotListeners \union {NoOneShot}, left : SUBSET OneShotListeners]
  BY <1>1, <1>2 DEF TypeOKOneShot
<1>6. TypeOKOneShot'
  BY <1>1, <1>2, <1>4, <1>5 DEF TypeOKOneShot
<1>7. RegistryOfLive'
  BY <1>1, <1>2 DEF RegistryOfLive
<1>8. LinkedWanted'
  <2> SUFFICES ASSUME NEW x \in ShotIds, shots[x].linked
               PROVE  /\ registry[shots[x].src][shots[x].kind] = x
                      /\ x # told.shot => shots[x].listeners \subseteq wants'[shots[x].src][shots[x].kind]
    BY <1>1, <1>5 DEF LinkedWanted
  <2>1. /\ registry[shots[x].src][shots[x].kind] = x
        /\ x # told.shot => shots[x].listeners \subseteq wants[shots[x].src][shots[x].kind]
        /\ shots[x].src \in OneShotSources /\ shots[x].kind \in OneShotKinds
    BY <1>2 DEF LinkedWanted, RegistryOfLive
  <2> QED BY <2>1, <1>3, <1>4, ZenonT(60)
<1>9. TellingWanted'
  <2>1. told'.rest \subseteq wants'[a.src][a.kind] \union told'.left
    BY <1>3, <1>4, <1>5
  <2> QED BY <2>1, <1>1, <1>2, <1>5 DEF TellingWanted, a
<1> QED BY <1>6, <1>7, <1>8, <1>9 DEF ShotInv

LEMMA ShotToldKeeps == ASSUME ShotInv, ShotTold PROVE ShotInv'
<1>1. told' = [told EXCEPT !.at = NoOneShot] /\ UNCHANGED <<shots, registry, published, wants>>
  BY DEF ShotTold
<1>2. TypeOKOneShot /\ RegistryOfLive /\ LinkedWanted /\ TellingWanted
  BY DEF ShotInv
<1>3. /\ told'.shot = told.shot /\ told'.rest = told.rest /\ told'.left = told.left
      /\ told' \in [shot : ShotIds \union {0}, rest : SUBSET OneShotListeners,
                    at : OneShotListeners \union {NoOneShot}, left : SUBSET OneShotListeners]
  BY <1>1, <1>2 DEF TypeOKOneShot
<1>4. TypeOKOneShot'
  BY <1>1, <1>2, <1>3 DEF TypeOKOneShot
<1>5. RegistryOfLive' /\ LinkedWanted'
  BY <1>1, <1>2, <1>3 DEF RegistryOfLive, LinkedWanted
<1>6. TellingWanted'
  BY <1>1, <1>2, <1>3 DEF TellingWanted
<1> QED BY <1>4, <1>5, <1>6 DEF ShotInv

\* The action leaves the service and deletes itself.
LEMMA FinishShotKeeps == ASSUME ShotInv, FinishShot PROVE ShotInv'
<1> DEFINE i == told.shot
           a == shots[i]
<1>1. /\ told.shot # 0 /\ told' = NotTold /\ UNCHANGED <<published, wants>>
      /\ registry' = [registry EXCEPT ![a.src][a.kind] = 0]
      /\ shots' = [shots EXCEPT ![i] = NoShot]
  BY DEF FinishShot, RemoveShot
<1>2. TypeOKOneShot /\ RegistryOfLive /\ LinkedWanted /\ TellingWanted
  BY DEF ShotInv
<1>3. /\ i \in ShotIds /\ a.src \in OneShotSources /\ a.kind \in OneShotKinds
      /\ registry[a.src][a.kind] \in {0, i}
      /\ \A x \in ShotIds : x # i /\ shots[x].linked
           => ~(shots[x].src = a.src /\ shots[x].kind = a.kind)
  BY <1>1, ToldShot
<1>4. NoShot \in Shot /\ ~NoShot.live /\ ~NoShot.linked
  BY DEF NoShot, Shot
<1>5. /\ shots' \in [ShotIds -> Shot] /\ shots'[i] = NoShot
      /\ \A x \in ShotIds : x # i => shots'[x] = shots[x]
  BY <1>1, <1>2, <1>3, <1>4 DEF TypeOKOneShot
<1>6. /\ registry' \in [OneShotSources -> [OneShotKinds -> ShotIds \union {0}]]
      /\ \A t \in OneShotSources, m \in OneShotKinds :
           registry'[t][m] = IF t = a.src /\ m = a.kind THEN 0 ELSE registry[t][m]
  BY <1>1, <1>2, <1>3 DEF TypeOKOneShot
<1>7. told'.shot = 0 /\ told'.rest = {} /\ told'.at = NoOneShot
  BY <1>1 DEF NotTold
<1>8. told' \in [shot : ShotIds \union {0}, rest : SUBSET OneShotListeners,
                 at : OneShotListeners \union {NoOneShot}, left : SUBSET OneShotListeners]
  BY <1>1 DEF NotTold
<1>9. TypeOKOneShot'
  BY <1>1, <1>2, <1>5, <1>6, <1>8 DEF TypeOKOneShot
<1>10. RegistryOfLive'
  <2>1. ASSUME NEW x \in ShotIds
        PROVE  /\ shots'[x].linked => shots'[x].live
               /\ shots'[x].live => shots'[x].src \in OneShotSources /\ shots'[x].kind \in OneShotKinds
    BY <1>2, <1>4, <1>5 DEF RegistryOfLive
  <2>2. ASSUME NEW t \in OneShotSources, NEW m \in OneShotKinds, registry'[t][m] # 0
        PROVE  LET x == registry'[t][m]
               IN shots'[x].live /\ shots'[x].src = t /\ shots'[x].kind = m
    <3>1. /\ ~(t = a.src /\ m = a.kind) /\ registry'[t][m] = registry[t][m]
          /\ registry[t][m] \in ShotIds
      BY <2>2, <1>2, <1>6 DEF TypeOKOneShot
    <3>2. /\ shots[registry[t][m]].live /\ shots[registry[t][m]].src = t
          /\ shots[registry[t][m]].kind = m
      BY <2>2, <3>1, <1>2 DEF RegistryOfLive
    <3>3. registry[t][m] # i
      BY <3>1, <3>2
    <3> QED BY <3>1, <3>2, <3>3, <1>5
  <2> QED BY <2>1, <2>2 DEF RegistryOfLive
<1>11. LinkedWanted'
  <2> SUFFICES ASSUME NEW x \in ShotIds, shots'[x].linked
               PROVE  /\ registry'[shots'[x].src][shots'[x].kind] = x
                      /\ x # told'.shot => shots'[x].listeners \subseteq wants'[shots'[x].src][shots'[x].kind]
    BY DEF LinkedWanted
  <2>1. x # i /\ shots'[x] = shots[x]
    BY <1>4, <1>5
  <2>2. /\ registry[shots[x].src][shots[x].kind] = x
        /\ shots[x].listeners \subseteq wants[shots[x].src][shots[x].kind]
        /\ shots[x].src \in OneShotSources /\ shots[x].kind \in OneShotKinds
    BY <2>1, <1>2 DEF LinkedWanted, RegistryOfLive
  <2> QED BY <2>1, <2>2, <1>1, <1>3, <1>6
<1>12. TellingWanted'
  BY <1>7 DEF TellingWanted
<1> QED BY <1>9, <1>10, <1>11, <1>12 DEF ShotInv

LEMMA ExecuteShotKeeps ==
  ASSUME ShotInv, NEW i \in ShotIds, ExecuteShot(i)
  PROVE  ShotInv'
<1>1. /\ shots' = [shots EXCEPT ![i].task = "published"] /\ published' = Append(published, i)
      /\ UNCHANGED <<registry, told, wants>>
  BY DEF ExecuteShot
<1>2. TypeOKOneShot /\ RegistryOfLive /\ LinkedWanted /\ TellingWanted
  BY DEF ShotInv
<1>3. /\ shots' \in [ShotIds -> Shot]
      /\ \A x \in ShotIds : /\ shots'[x].live = shots[x].live /\ shots'[x].src = shots[x].src
                            /\ shots'[x].kind = shots[x].kind /\ shots'[x].linked = shots[x].linked
                            /\ shots'[x].listeners = shots[x].listeners
  BY <1>1, TaskOfShot
<1>4. published' \in Seq(ShotIds)
  BY <1>1, <1>2, AppendProperties DEF TypeOKOneShot
<1>5. TypeOKOneShot'
  BY <1>1, <1>2, <1>3, <1>4 DEF TypeOKOneShot
<1>6. RegistryOfLive'
  BY <1>1, <1>2, <1>3, ShotFieldsKept
<1>7. LinkedWanted'
  BY <1>1, <1>2, <1>3, SMTT(30) DEF LinkedWanted
<1>8. TellingWanted'
  <2>1. told.shot \in ShotIds \union {0}
    BY <1>2 DEF TypeOKOneShot
  <2> QED BY <2>1, <1>1, <1>2, <1>3 DEF TellingWanted
<1> QED BY <1>5, <1>6, <1>7, <1>8 DEF ShotInv

\* Who is told by a one-shot action asked for it and had not left before its
\* result came, and the action outlives the callbacks, which unlink and add any
\* listener (cutwriter.cpp:115-126), as long as none asks again for what is being
\* told: an action then takes the place of another that leaves the service.
THEOREM OneShotsTellWhoAsked ==
  ASSUME ReaddInCallback = FALSE
  PROVE  SpecOneShot => []OneShotTellsWhoAsked
<1>1. InitOneShot => ShotInv
  <2> SUFFICES ASSUME InitOneShot PROVE ShotInv
    OBVIOUS
  <2>1. /\ shots = [i \in ShotIds |-> NoShot]
        /\ registry = [s \in OneShotSources |-> [k \in OneShotKinds |-> 0]]
        /\ published = <<>> /\ told = NotTold
        /\ wants = [s \in OneShotSources |-> [k \in OneShotKinds |-> {}]]
    BY DEF InitOneShot
  <2>2. NoShot \in Shot /\ ~NoShot.live /\ ~NoShot.linked
    BY DEF NoShot, Shot
  <2>3. /\ told.shot = 0 /\ told.rest = {}
        /\ told \in [shot : ShotIds \union {0}, rest : SUBSET OneShotListeners,
                     at : OneShotListeners \union {NoOneShot}, left : SUBSET OneShotListeners]
    BY <2>1 DEF NotTold
  <2>4. TypeOKOneShot
    BY <2>1, <2>2, <2>3 DEF TypeOKOneShot
  <2>5. RegistryOfLive /\ LinkedWanted
    BY <2>1, <2>2 DEF RegistryOfLive, LinkedWanted
  <2>6. TellingWanted
    BY <2>3 DEF TellingWanted
  <2> QED BY <2>4, <2>5, <2>6 DEF ShotInv
<1>2. ShotInv /\ [NextOneShot]_oneShotVars => ShotInv'
  <2> SUFFICES ASSUME ShotInv, [NextOneShot]_oneShotVars PROVE ShotInv'
    OBVIOUS
  <2>1. CASE UNCHANGED oneShotVars
    BY <2>1 DEF oneShotVars, ShotInv, TypeOKOneShot, RegistryOfLive, LinkedWanted, TellingWanted
  <2>2. ASSUME NEW l \in OneShotListeners, NEW s \in OneShotSources, NEW k \in OneShotKinds,
               AddOneShot(l, s, k) \/ UnlinkOneShot(l, s, k)
        PROVE  ShotInv'
    BY <2>2, AddOneShotKeeps, UnlinkOneShotKeeps
  <2>3. ASSUME NEW i \in ShotIds, ExecuteShot(i)
        PROVE  ShotInv'
    BY <2>3, ExecuteShotKeeps
  <2>4. CASE ShotLoop
    BY <2>4, OnShotResultKeeps, TellShotKeeps, ShotToldKeeps, FinishShotKeeps DEF ShotLoop
  <2> QED BY <2>1, <2>2, <2>3, <2>4 DEF NextOneShot
<1>3. ShotInv => OneShotTellsWhoAsked
  BY DEF ShotInv, TellingWanted, OneShotTellsWhoAsked
<1> QED BY <1>1, <1>2, <1>3, PTL DEF SpecOneShot

-----------------------------------------------------------------------------
(* The devices                                                             *)

DevicesInv == TypeOKDevices /\ DevicesHeld

\* The users of a TDevice are finitely many.
LEMMA UsersFinite ==
  ASSUME NEW p \in Places
  PROVE  IsFiniteSet(UsersOf(p)) /\ Cardinality(UsersOf(p)) \in Nat
<1>1. UsersOf(p) \subseteq DeviceUsers
  BY DEF UsersOf
<1> QED BY <1>1, DevicesAssumption, FS_Subset, FS_CardinalityType

LEMMA InitDevicesInv == InitDevices => DevicesInv
<1> SUFFICES ASSUME InitDevices PROVE DevicesInv
  OBVIOUS
<1>1. Places # {}
  <2>1. PICK t \in ThreadTokens, d \in TangoDevices : TRUE
    BY DevicesAssumption
  <2>2. <<t, d>> \in Places
    BY DEF Places
  <2> QED BY <2>2
<1>2. TypeOKDevices
  BY <1>1 DEF InitDevices, TypeOKDevices, NoTDevice
<1>3. \A p \in Places : UsersOf(p) = {}
  BY DEF InitDevices, UsersOf, Using
<1>4. DevicesHeld
  <2>1. \A p \in Places : Cardinality(UsersOf(p)) = 0
    BY <1>3, FS_EmptySet
  <2>2. \A p \in Places : devmap[p].refCnt = 0 /\ devmap[p].valid = FALSE
    BY DEF InitDevices, NoTDevice
  <2> QED BY <2>1, <2>2 DEF DevicesHeld
<1> QED BY <1>2, <1>4 DEF DevicesInv

\* A new user, and one more reference.
LEMMA InitUserInv ==
  ASSUME DevicesInv, NEW x \in DeviceUsers, NEW p \in Places, InitUser(x, p)
  PROVE  DevicesInv'
<1> USE DEF DevicesInv, TypeOKDevices
<1>1. TypeOKDevices'
  <2> DEFINE valid == IF devmap[p].refCnt = 0 THEN p[2] \in database ELSE devmap[p].valid
  <2>1. devmap[p] \in [refCnt : Nat, valid : BOOLEAN]
    OBVIOUS
  <2>2. (p[2] \in database) \in BOOLEAN
    BY SMT
  <2>3. valid \in BOOLEAN
    BY <2>1, <2>2
  <2>4. devmap' = [devmap EXCEPT ![p] = [refCnt |-> devmap[p].refCnt + 1, valid |-> valid]]
    BY DEF InitUser, GetDevice
  <2> HIDE DEF valid
  <2>5. devmap' \in [Places -> [refCnt : Nat, valid : BOOLEAN]]
    BY <2>1, <2>3, <2>4
  <2> QED BY <2>5 DEF InitUser
<1>2. ~Using(x) /\ UsersOf(p)' = UsersOf(p) \union {x}
  BY DEF InitUser, UsersOf, Using
<1>3. Cardinality(UsersOf(p)') = Cardinality(UsersOf(p)) + 1
  BY <1>2, UsersFinite, FS_AddElement DEF UsersOf
<1>4. /\ Cardinality(UsersOf(p)') <= devmap'[p].refCnt
      /\ devmap'[p].valid => devmap'[p].refCnt = Cardinality(UsersOf(p)')
  <2>1. devmap'[p].refCnt = devmap[p].refCnt + 1
    BY DEF InitUser, GetDevice
  <2>2. devmap[p].refCnt # 0 => devmap'[p].valid = devmap[p].valid
    BY DEF InitUser, GetDevice
  <2>3. devmap[p].refCnt \in Nat
    OBVIOUS
  <2> HIDE DEF TypeOKDevices
  <2> QED BY <1>3, <2>1, <2>2, <2>3, UsersFinite DEF DevicesHeld
<1>5. ASSUME NEW q \in Places, q # p
      PROVE  UsersOf(q)' = UsersOf(q) /\ devmap'[q] = devmap[q]
  BY <1>2, <1>5 DEF InitUser, GetDevice, UsersOf, Using
<1> QED BY <1>1, <1>4, <1>5 DEF DevicesHeld

\* A user less, and one reference less.
LEMMA Released ==
  ASSUME DevicesInv, NEW x \in DeviceUsers, NEW p \in Places, x \in UsersOf(p),
         RemoveRef(p), UsersOf(p)' = UsersOf(p) \ {x},
         \A q \in Places : q # p => UsersOf(q)' = UsersOf(q)
  PROVE  DevicesHeld' /\ devmap' \in [Places -> [refCnt : Nat, valid : BOOLEAN]]
<1> USE DEF DevicesInv, TypeOKDevices
<1>1. Cardinality(UsersOf(p)') = Cardinality(UsersOf(p)) - 1
  BY UsersFinite, FS_RemoveElement
<1>2. Cardinality(UsersOf(p)) \in Nat /\ Cardinality(UsersOf(p)') \in Nat
  <2>1. UsersOf(p)' \subseteq UsersOf(p)
    OBVIOUS
  <2> QED BY <2>1, UsersFinite, FS_Subset, FS_CardinalityType
<1>3. devmap' \in [Places -> [refCnt : Nat, valid : BOOLEAN]]
  BY SMTT(30) DEF RemoveRef, NoTDevice
<1>4. /\ Cardinality(UsersOf(p)') <= devmap'[p].refCnt
      /\ devmap'[p].valid => devmap'[p].refCnt = Cardinality(UsersOf(p)')
  <2>1. CASE devmap[p].refCnt <= 1
    <3>1. devmap'[p].refCnt = 0 /\ devmap'[p].valid = FALSE
      BY <2>1 DEF RemoveRef, NoTDevice
    <3> QED BY <1>1, <1>2, <2>1, <3>1 DEF DevicesHeld
  <2>2. CASE ~(devmap[p].refCnt <= 1)
    <3>1. devmap'[p].refCnt = devmap[p].refCnt - 1 /\ devmap'[p].valid = devmap[p].valid
      BY <2>2 DEF RemoveRef
    <3> QED BY <1>1, <1>2, <3>1 DEF DevicesHeld
  <2> QED BY <2>1, <2>2
<1>5. \A q \in Places : q # p => devmap'[q] = devmap[q]
  BY DEF RemoveRef
<1> QED BY <1>3, <1>4, <1>5 DEF DevicesHeld

\* Who does not use it is not counted.
LEMMA Unchanged ==
  ASSUME DevicesInv, devmap' = devmap, \A p \in Places : UsersOf(p)' = UsersOf(p)
  PROVE  DevicesHeld'
BY DEF DevicesInv, DevicesHeld

LEMMA ExecuteUserInv ==
  ASSUME DevicesInv, NEW x \in DeviceUsers, ExecuteUser(x)
  PROVE  DevicesInv'
<1>1. PICK p \in Places : p = uses[x] /\ x \in UsersOf(p)
  BY DEF ExecuteUser, DevicesInv, TypeOKDevices, UsersOf, Using
<1>2. (phase' \in [DeviceUsers -> {"out", "init", "run"}]) /\ uses' = uses /\ database' = database
  BY DEF ExecuteUser, DevicesInv, TypeOKDevices
<1>3. ASSUME UserKind[x] \in {"config", "write"}
      PROVE  /\ UsersOf(p)' = UsersOf(p) \ {x}
             /\ \A q \in Places : q # p => UsersOf(q)' = UsersOf(q)
  BY <1>1, <1>3 DEF ExecuteUser, DevicesInv, TypeOKDevices, UsersOf, Using
<1>4. CASE UserKind[x] \in {"config", "write"} /\ RemoveRef(p)
  BY <1>1, <1>2, <1>3, <1>4, Released DEF DevicesInv, TypeOKDevices
<1>5. CASE UserKind[x] = "write" /\ ~devmap[p].valid /\ UNCHANGED devmap
  <2>1. Cardinality(UsersOf(p)') = Cardinality(UsersOf(p)) - 1
    BY <1>1, <1>3, <1>5, UsersFinite, FS_RemoveElement
  <2>2. Cardinality(UsersOf(p)) \in Nat /\ devmap[p].refCnt \in Nat
    BY <1>1, UsersFinite DEF DevicesInv, TypeOKDevices
  <2>3. Cardinality(UsersOf(p)) <= devmap[p].refCnt
    BY <1>1 DEF DevicesInv, DevicesHeld
  <2>4. Cardinality(UsersOf(p)') <= devmap'[p].refCnt
    BY <1>5, <2>1, <2>2, <2>3
  <2>5. ASSUME NEW q \in Places, q # p
        PROVE  UsersOf(q)' = UsersOf(q) /\ devmap'[q] = devmap[q]
    BY <1>3, <1>5, <2>5
  <2>6. ~devmap'[p].valid
    BY <1>5
  <2>7. ASSUME NEW q \in Places
        PROVE  /\ Cardinality(UsersOf(q)') <= devmap'[q].refCnt
               /\ devmap'[q].valid => devmap'[q].refCnt = Cardinality(UsersOf(q)')
    <3>1. CASE q = p
      BY <2>4, <2>6, <3>1
    <3>2. CASE q # p
      <4>1. /\ Cardinality(UsersOf(q)) <= devmap[q].refCnt
            /\ devmap[q].valid => devmap[q].refCnt = Cardinality(UsersOf(q))
        BY DEF DevicesInv, DevicesHeld
      <4> QED BY <2>5, <3>2, <4>1
    <3> QED BY <3>1, <3>2
  <2>8. DevicesHeld'
    BY <2>7 DEF DevicesHeld
  <2> QED BY <1>2, <1>5, <2>8 DEF DevicesInv, TypeOKDevices
<1>6. CASE UserKind[x] \in {"poll", "event"} /\ UNCHANGED devmap
  <2>1. \A q \in Places : UsersOf(q)' = UsersOf(q)
    BY <1>6 DEF ExecuteUser, DevicesInv, TypeOKDevices, UsersOf, Using
  <2> QED BY <1>2, <1>6, <2>1, Unchanged DEF DevicesInv, TypeOKDevices
<1> QED BY <1>1, <1>4, <1>5, <1>6 DEF ExecuteUser

LEMMA ExitUserInv ==
  ASSUME DevicesInv, NEW x \in DeviceUsers, ExitUser(x)
  PROVE  DevicesInv'
<1> DEFINE p == uses[x]
<1>1. p \in Places
  BY DEF DevicesInv, TypeOKDevices
<1>2. (phase' \in [DeviceUsers -> {"out", "init", "run"}]) /\ uses' = uses /\ database' = database
  BY DEF ExitUser, DevicesInv, TypeOKDevices
<1>3. CASE UserKind[x] \in {"poll", "event"}
  <2>1. x \in UsersOf(p) /\ RemoveRef(p)
    BY <1>3 DEF ExitUser, UsersOf, Using
  <2>2. /\ UsersOf(p)' = UsersOf(p) \ {x}
        /\ \A q \in Places : q # p => UsersOf(q)' = UsersOf(q)
    BY <1>1 DEF ExitUser, DevicesInv, TypeOKDevices, UsersOf, Using
  <2> QED BY <1>1, <1>2, <2>1, <2>2, Released DEF DevicesInv, TypeOKDevices
<1>4. CASE UserKind[x] \notin {"poll", "event"}
  <2>1. UNCHANGED devmap /\ \A q \in Places : UsersOf(q)' = UsersOf(q)
    BY <1>4 DEF ExitUser, DevicesInv, TypeOKDevices, UsersOf, Using
  <2> QED BY <1>2, <2>1, Unchanged DEF DevicesInv, TypeOKDevices
<1> QED BY <1>3, <1>4

LEMMA NextDevicesInv == DevicesInv /\ [NextDevices]_devicesVars => DevicesInv'
<1> SUFFICES ASSUME DevicesInv, [NextDevices]_devicesVars PROVE DevicesInv'
  OBVIOUS
<1>1. ASSUME NEW x \in DeviceUsers, NEW p \in Places, InitUser(x, p)
      PROVE  DevicesInv'
  BY <1>1, InitUserInv
<1>2. ASSUME NEW x \in DeviceUsers, ExecuteUser(x)
      PROVE  DevicesInv'
  BY <1>2, ExecuteUserInv
<1>3. ASSUME NEW x \in DeviceUsers, ExitUser(x)
      PROVE  DevicesInv'
  BY <1>3, ExitUserInv
<1>4. CASE EditDatabase
  <2>1. \A p \in Places : UsersOf(p)' = UsersOf(p)
    BY <1>4 DEF EditDatabase, UsersOf, Using
  <2> QED BY <1>4, <2>1, Unchanged DEF EditDatabase, DevicesInv, TypeOKDevices
<1>5. CASE UNCHANGED devicesVars
  <2>1. \A p \in Places : UsersOf(p)' = UsersOf(p)
    BY <1>5 DEF devicesVars, UsersOf, Using
  <2> QED BY <1>5, <2>1, Unchanged DEF devicesVars, DevicesInv, TypeOKDevices
<1> QED BY <1>1, <1>2, <1>3, <1>4, <1>5 DEF NextDevices

\* However activities come and go, none is left with a deleted TDevice, and a
\* connected TDevice is deleted exactly when its last activity leaves it
\* (cutthreaddevices.cpp:54-73, cudevicefactoryservice.cpp:72-90).
THEOREM DevicesAlwaysHeld == SpecDevices => []DevicesHeld
<1>1. SpecDevices => []DevicesInv
  BY InitDevicesInv, NextDevicesInv, PTL DEF SpecDevices
<1> QED BY <1>1, PTL DEF DevicesInv
=============================================================================
