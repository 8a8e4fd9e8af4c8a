-------------------------- MODULE CuPollingActivity --------------------------
(***************************************************************************)
(* The activity that polls one Tango device: the commands and attributes   *)
(* that the poller adds and removes with events, the attributes that wait  *)
(* for a later execution, the values kept to tell whether data changed,    *)
(* and the period, which grows while the device does not answer.  All of   *)
(* it belongs to one thread: events and executions follow one another in   *)
(* the order of the thread's queue (module CuThread).                      *)
(*                                                                         *)
(* The update policy says what is sent when an attribute has not changed:  *)
(* everything, a timestamp, nothing.  It is compared as a whole, so that   *)
(* with SkipFirstReadUpdate it is always the last.                         *)
(***************************************************************************)
EXTENDS Integers, Sequences, FiniteSets, SequencesExt, Selection

CONSTANTS
  PolledAtts, PolledCmds,
  AttValues,
  NoAttValue,         \* no value: never read, or read with an error
  UpdatePolicies,     \* subset of {"always", "timestamp", "noupdate"}
  MaxAdded            \* bound on the times a source is added and not removed

ASSUME PollingAssumption ==
  /\ NoAttValue \notin AttValues /\ PolledAtts \intersect PolledCmds = {}
  /\ UpdatePolicies \subseteq {"always", "timestamp", "noupdate"}
  /\ MaxAdded \in Nat

VARIABLES
  data_updpo,     \* the policy, and SkipFirstReadUpdate: never change
  devDefined,     \* the device is in the database: never changes
  cmds,
  din_cache,      \* the commands whose information was read
  v_attd, v_attn, \* two coupled vectors: source and last value; name
  m_attd_future, m_attn_future,  \* attributes and how many executions later
                                 \* they are polled; d->updcnt is where they
                                 \* would count from
  rate,           \* repeat, in periods; -1 if it executes no more
  consecutiveErrCnt,   \* not beyond 4, from where the rate is the same
  readFailed,     \* the last execution failed
  failures,       \* history: executions that could not read attributes since
                  \* the last that succeeded, not beyond 4
  calm,           \* history: what these failures followed was no recovery from
                  \* others, but two successes or nothing
  wanted,         \* the sources added and not removed
  goodValue,      \* the last value read without error, since it was added
  sentValue       \* the last value sent to the poller
pollingVars == <<data_updpo, devDefined, cmds, din_cache, v_attd, v_attn, m_attd_future,
                 m_attn_future, rate, consecutiveErrCnt, readFailed, failures, calm, wanted,
                 goodValue, sentValue>>
pollingConf == <<data_updpo, devDefined>>
pollingRate == <<rate, consecutiveErrCnt, readFailed, failures, calm>>

Times(s, e) == Cardinality({k \in DOMAIN s : s[k] = e})
Scheduled(fut, a) == {k \in DOMAIN fut : fut[k].att = a}

-----------------------------------------------------------------------------
(* event: AddPollAction, RemovePollAction                                  *)

AddPollAtt(a) ==
  /\ Times(v_attn, a) + Cardinality(Scheduled(m_attn_future, a)) < MaxAdded
  /\ IF data_updpo.skip
     THEN /\ m_attd_future' = Append(m_attd_future, [left |-> 2, att |-> a])
          /\ m_attn_future' = Append(m_attn_future, [left |-> 2, att |-> a])
          /\ UNCHANGED <<v_attd, v_attn>>
     ELSE /\ v_attd' = Append(v_attd, [src |-> a, value |-> NoAttValue])
          /\ v_attn' = Append(v_attn, a)
          /\ UNCHANGED <<m_attd_future, m_attn_future>>
  /\ wanted' = wanted \union {a}
  /\ goodValue' = [goodValue EXCEPT ![a] = NoAttValue]
  /\ UNCHANGED <<pollingConf, pollingRate, cmds, din_cache, sentValue>>

AddPollCmd(c) ==
  /\ Times(cmds, c) < MaxAdded
  /\ cmds' = Append(cmds, c) /\ wanted' = wanted \union {c}
  /\ UNCHANGED <<pollingConf, pollingRate, din_cache, v_attd, v_attn, m_attd_future,
                 m_attn_future, goodValue, sentValue>>

\* m_cmd_remove: every occurrence
RemovePollCmd(c) ==
  /\ Times(cmds, c) > 0
  /\ cmds' = Kept(cmds, {k \in DOMAIN cmds : cmds[k] # c}) /\ wanted' = wanted \ {c}
  /\ UNCHANGED <<pollingConf, pollingRate, din_cache, v_attd, v_attn, m_attd_future,
                 m_attn_future, goodValue, sentValue>>

\* The name that goes is the last: the vectors are no more coupled.
BugWithoutName(a) == IF Times(v_attn, a) > 0 THEN Front(v_attn) ELSE v_attn

WithoutName(a) == RemoveFirst(v_attn, a)
WithoutSrc(attd, a) == RemoveFirstMatch(attd, LAMBDA d : d.src = a)
Unscheduled(fut, a) == Kept(fut, DOMAIN fut \ Scheduled(fut, a))

\* m_v_attd_remove: the first occurrence in the vectors, every one in the maps
RemovePollAtt(a) ==
  /\ a \in wanted
  /\ v_attd' = WithoutSrc(v_attd, a)
  /\ v_attn' = WithoutName(a)
  /\ m_attd_future' = Unscheduled(m_attd_future, a)
  /\ m_attn_future' = Unscheduled(m_attn_future, a)
  /\ wanted' = wanted \ {a}
  /\ UNCHANGED <<pollingConf, pollingRate, cmds, din_cache, goodValue, sentValue>>

-----------------------------------------------------------------------------
(* execute                                                                 *)

\* m_add_scheduled, after the count of executions has grown.  The entries of
\* one of the maps are never erased; they never match again.
Due(fut) == Kept(fut, {k \in DOMAIN fut : fut[k].left = 1})
Later(fut) ==
  LET rest == Kept(fut, {k \in DOMAIN fut : fut[k].left > 1})
  IN  [i \in 1..Len(rest) |-> [rest[i] EXCEPT !.left = @ - 1]]
AttdNow == v_attd \o [i \in 1..Len(Due(m_attd_future)) |->
                        [src |-> Due(m_attd_future)[i].att, value |-> NoAttValue]]
AttnNow == v_attn \o [i \in 1..Len(Due(m_attn_future)) |-> Due(m_attn_future)[i].att]
AddScheduled(attd) ==
  /\ v_attd' = attd /\ v_attn' = AttnNow
  /\ m_attd_future' = Later(m_attd_future) /\ m_attn_future' = Later(m_attn_future)

\* An error of an earlier attribute of the reply hides the change.
BugChanged(names, old, value, i) ==
  value[names[i]] # old[i].value /\ \A j \in 1..i : value[names[j]] # NoAttValue

\* m_cache_upd, and no error of this attribute (extractData)
Changed(names, old, value, i) ==
  value[names[i]] # old[i].value /\ value[names[i]] # NoAttValue

\* read_atts, the device answers: a value, or an error, for each name.  The
\* values sent go to the sources of v_attd.
ReadAtts(names, attd, value) ==
  LET always == data_updpo.policy = "always" /\ ~data_updpo.skip
      sent == {i \in 1..Len(names) :
                 IF always THEN value[names[i]] # NoAttValue
                 ELSE Changed(names, attd, value, i)}
  IN /\ AddScheduled(IF always THEN attd
                     ELSE [i \in 1..Len(attd) |-> [attd[i] EXCEPT !.value = value[names[i]]]])
     /\ sentValue' = [a \in PolledAtts |->
          IF \E i \in sent : attd[i].src = a THEN value[names[CHOOSE i \in sent : attd[i].src = a]]
          ELSE sentValue[a]]
     /\ goodValue' = [a \in PolledAtts |->
          IF Contains(names, a) /\ value[a] # NoAttValue THEN value[a] ELSE goodValue[a]]

\* read_atts, the device is down: the values kept are sent, with the error.
ReadNothing(attd) ==
  /\ AddScheduled(attd)
  /\ sentValue' = [a \in PolledAtts |->
       LET kept == {d \in ToSet(attd) : d.src = a /\ d.value # NoAttValue}
       IN  IF kept = {} THEN sentValue[a] ELSE (CHOOSE d \in kept : TRUE).value]
  /\ UNCHANGED goodValue

\* decreasePolling with the default slowDownRate
SlowDownRate(n) == IF n >= 4 THEN 10 ELSE IF n >= 2 THEN 5 ELSE IF n >= 1 THEN 3 ELSE 1

\* A success resets the count first, and the period never.
BugOutcome(success, errs) ==
  /\ consecutiveErrCnt' = IF success THEN 0 ELSE errs
  /\ rate' = IF ~success THEN SlowDownRate(errs) ELSE rate

\* The first success after errors restores the period and keeps the count, the
\* second resets it.
Outcome(success, errs) ==
  \/ success /\ rate # 1 /\ rate' = 1 /\ consecutiveErrCnt' = errs
  \/ success /\ rate = 1 /\ rate' = 1 /\ consecutiveErrCnt' = 0
  \/ ~success /\ rate' = SlowDownRate(errs) /\ consecutiveErrCnt' = errs

\* The commands: information is asked for those that have none, and the
\* outcome of the last that was asked counts; their results do not.
AskedCmds == Kept(cmds, {k \in DOMAIN cmds : cmds[k] \notin din_cache})
ReadCmds(known) == din_cache' = din_cache \union known
CmdSuccess(known) == IF AskedCmds = <<>> THEN TRUE ELSE Last(AskedCmds) \in known

\* known: the commands whose information the device gives; value: what it
\* gives for each attribute.  With attributes to read, it is their outcome that
\* counts: of the last.
ExecutePolling(known, down, value) ==
  LET success == IF AttnNow = <<>> THEN CmdSuccess(known)
                 ELSE IF down THEN FALSE ELSE value[Last(AttnNow)] # NoAttValue
      errs == IF AttnNow # <<>> /\ ~success /\ consecutiveErrCnt < 4
              THEN consecutiveErrCnt + 1 ELSE consecutiveErrCnt
  IN /\ devDefined /\ rate > 0
     /\ ReadCmds(known)
     /\ IF down THEN ReadNothing(AttdNow) ELSE ReadAtts(AttnNow, AttdNow, value)
     /\ Outcome(success, errs)
     /\ readFailed' = ~success
     /\ failures' = IF success THEN 0
                    ELSE IF AttnNow # <<>> /\ failures < 4 THEN failures + 1 ELSE failures
     /\ calm' = IF success THEN ~readFailed ELSE calm
     /\ UNCHANGED <<pollingConf, cmds, wanted>>

\* Not defined in the database: it executes once.
ExecuteUndefined ==
  /\ ~devDefined /\ rate > 0
  /\ rate' = -1 /\ readFailed' = TRUE
  /\ AddScheduled(AttdNow)
  /\ UNCHANGED <<pollingConf, cmds, din_cache, consecutiveErrCnt, failures, calm, wanted,
                 goodValue, sentValue>>

-----------------------------------------------------------------------------
InitPolling ==
  /\ data_updpo \in [policy : UpdatePolicies, skip : BOOLEAN] /\ devDefined \in BOOLEAN
  /\ cmds = <<>> /\ din_cache = {}
  /\ v_attd = <<>> /\ v_attn = <<>> /\ m_attd_future = <<>> /\ m_attn_future = <<>>
  /\ rate = 1 /\ consecutiveErrCnt = 0 /\ readFailed = FALSE
  /\ failures = 0 /\ calm = TRUE
  /\ wanted = {}
  /\ goodValue = [a \in PolledAtts |-> NoAttValue]
  /\ sentValue = [a \in PolledAtts |-> NoAttValue]

NextPolling ==
  \/ \E a \in PolledAtts : AddPollAtt(a) \/ RemovePollAtt(a)
  \/ \E c \in PolledCmds : AddPollCmd(c) \/ RemovePollCmd(c)
  \/ \E known \in SUBSET ToSet(AskedCmds) :
       \/ ExecutePolling(known, TRUE, <<>>)
       \/ \E value \in [ToSet(AttnNow) -> AttValues \union {NoAttValue}] :
            ExecutePolling(known, FALSE, value)
  \/ ExecuteUndefined

SpecPolling == InitPolling /\ [][NextPolling]_pollingVars

-----------------------------------------------------------------------------
(* Properties                                                              *)

\* The two vectors stay coupled (the comment at cupollingactivity.cpp:98),
\* through additions, removals and attributes that are to be polled later,
\* and every source that was added is polled, or will be.
PolledOrScheduled ==
  /\ Len(v_attd) = Len(v_attn)
  /\ \A i \in 1..Len(v_attn) : v_attd[i].src = v_attn[i]
  /\ m_attd_future = m_attn_future
  /\ \A a \in wanted \intersect PolledAtts :
       Contains(v_attn, a) \/ \E i \in 1..Len(m_attn_future) : m_attn_future[i].att = a
  /\ \A c \in wanted \intersect PolledCmds : Contains(cmds, c)

\* Whatever the policy leaves out, the last value sent of an attribute is the
\* last value read (cutango-world.cpp:825): an error or a device that is down
\* in between does not hide a change.
GoodValueSent ==
  \A a \in PolledAtts :
    goodValue[a] # NoAttValue /\ a \in wanted => sentValue[a] = goodValue[a]

\* The period is longer only as long as executions fail, at most ten times, and
\* is restored by the first success.  It is never shorter than the failures in a
\* row ask for (cupollingactivity.cpp:188-193), and exactly that if they come
\* after two successes in a row: after a single one the failures before it are
\* still counted (cupollingactivity.cpp:395-398).
SlowdownFollowsErrors ==
  devDefined =>
    IF readFailed
    THEN rate >= SlowDownRate(failures) /\ rate <= 10 /\ (calm => rate = SlowDownRate(failures))
    ELSE rate = 1
=============================================================================
