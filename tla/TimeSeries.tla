----------------------------- MODULE TimeSeries -----------------------------
(***************************************************************************)
(* One entity of one time series and one aggregation spec over rolling     *)
(* days (timeseries.ts): points arrive in batches, late ones apart, and    *)
(* the aggregation recomputes only the windows touched since its last run. *)
(*                                                                         *)
(* A point is known by the batch that wrote it, and the value of a window  *)
(* by the points in it, so that two windows are equal only when every      *)
(* aggregate of them is.  ingestedAt is an instant; instants are used up   *)
(* by batches, since nothing else reads the time.                          *)
(***************************************************************************)
EXTENDS Naturals, FiniteSets

CONSTANTS
    LastDay,       \* points are of the days 1..LastDay
    Rolling,       \* window.rolling
    LateTolerance, \* LATE_TOLERANCE_DAYS
    Batches,       \* the sets of days a batch may hold
    MaxBatches,    \* bound: batches written
    Writers,       \* calls of writePoints
    Aggregators,   \* calls of runAggregation that may overlap
    WritersRace    \* whether batches may overlap or share an instant

ASSUME SeriesAssumption ==
    /\ LastDay \in Nat /\ Rolling \in Nat \ {0} /\ LateTolerance \in Nat /\ MaxBatches \in Nat
    /\ Batches \subseteq SUBSET (1..LastDay) /\ WritersRace \in BOOLEAN

VARIABLES
    points,    \* per day: the batch its point is of (0: no point) and its ingestedAt
    lateRows,  \* ts_late_arrivals: batches with a day that came too late
    writing,   \* per writer: the batch it has stamped and is about to upsert
    batchCount,
    instant,
    windows,   \* ts_agg_runs, per last day: what the window held when it was computed; {} without a run
    snapshot,  \* the object's property: the window it was taken from
    lastRunAt, \* of the spec; 0 before the first run
    aggs       \* per aggregator: what it has read and the windows it has left to do

seriesVars == <<points, lateRows, writing, batchCount, instant, windows, snapshot, lastRunAt, aggs>>

SeriesDays == 1..LastDay
Instants == 0..MaxBatches
Point == [batch : 0..MaxBatches, at : Instants]
NoPoint == [batch |-> 0, at |-> 0]
Content == SUBSET (SeriesDays \X (1..MaxBatches))
Writing == [batch : 0..MaxBatches, days : SUBSET SeriesDays, at : Instants]
NoWriting == [batch |-> 0, days |-> {}, at |-> 0]
Agg == [at : {"idle", "spec", "touched", "windows"}, since : Instants, touched : SUBSET SeriesDays, seen : Instants,
        all : [SeriesDays -> Point], ends : SUBSET SeriesDays, had : Content]
NoAgg == [at |-> "idle", since |-> 0, touched |-> {}, seen |-> 0, all |-> [d \in SeriesDays |-> NoPoint],
          ends |-> {}, had |-> {}]

SeriesTypeOK ==
    /\ points \in [SeriesDays -> Point] /\ lateRows \in SUBSET (SeriesDays \X (1..MaxBatches))
    /\ writing \in [Writers -> Writing] /\ batchCount \in 0..MaxBatches /\ instant \in Instants
    /\ windows \in [SeriesDays -> Content] /\ snapshot \in Content /\ lastRunAt \in Instants
    /\ aggs \in [Aggregators -> Agg]

SeriesInit ==
    /\ points = [d \in SeriesDays |-> NoPoint] /\ lateRows = {}
    /\ writing = [w \in Writers |-> NoWriting] /\ batchCount = 0 /\ instant = 0
    /\ windows = [d \in SeriesDays |-> {}] /\ snapshot = {} /\ lastRunAt = 0
    /\ aggs = [a \in Aggregators |-> NoAgg]

With(pts) == {d \in SeriesDays : pts[d].batch # 0}
Latest(pts) == CHOOSE d \in With(pts) : \A e \in With(pts) : e <= d
InWindow(pts, end) == {<<d, pts[d].batch>> : d \in {e \in With(pts) : e <= end /\ e + Rolling > end}}
Highest(numbers) == CHOOSE n \in numbers : \A m \in numbers : m <= n

-----------------------------------------------------------------------------
(* writePoints *)

\* A batch reads the latest day and takes its ingestedAt; what is older than the tolerance is put
\* among the late arrivals at once.
WriteStamps(w) == \E days \in Batches, at \in {instant, instant + 1} \cap Instants :
    LET late == IF With(points) = {} THEN {} ELSE {d \in days : d + LateTolerance < Latest(points)} IN
    /\ writing[w].batch = 0 /\ batchCount < MaxBatches
    /\ at = instant => WritersRace /\ instant > 0
    /\ WritersRace \/ \A v \in Writers : writing[v].batch = 0
    /\ batchCount' = batchCount + 1 /\ instant' = at
    /\ lateRows' = lateRows \cup {<<d, batchCount + 1>> : d \in late}
    /\ writing' = [writing EXCEPT ![w] = [batch |-> batchCount + 1, days |-> days \ late, at |-> at]]
    /\ UNCHANGED <<points, windows, snapshot, lastRunAt, aggs>>

\* The others are stored, over points of the same days.
WriteUpserts(w) == LET b == writing[w] IN
    /\ b.batch # 0
    /\ points' = [d \in SeriesDays |-> IF d \in b.days THEN [batch |-> b.batch, at |-> b.at] ELSE points[d]]
    /\ writing' = [writing EXCEPT ![w] = NoWriting]
    /\ UNCHANGED <<lateRows, batchCount, instant, windows, snapshot, lastRunAt, aggs>>

\* The batch is lost before it is stored.
BatchLost(w) ==
    /\ writing[w].batch # 0
    /\ writing' = [writing EXCEPT ![w] = NoWriting]
    /\ UNCHANGED <<points, lateRows, batchCount, instant, windows, snapshot, lastRunAt, aggs>>

-----------------------------------------------------------------------------
(* runAggregation *)

\* The spec is read with its lastRunAt,
AggReadsSpec(a) ==
    /\ aggs[a].at = "idle"
    /\ aggs' = [aggs EXCEPT ![a] = [NoAgg EXCEPT !.at = "spec", !.since = lastRunAt]]
    /\ UNCHANGED <<points, lateRows, writing, batchCount, instant, windows, snapshot, lastRunAt>>

\* then the points ingested since, all of them at first; without any there is nothing to do.
AggReadsTouched(a) ==
    LET since == aggs[a].since
        touched == {d \in With(points) : since = 0 \/ points[d].at > since} IN
    /\ aggs[a].at = "spec"
    /\ aggs' = [aggs EXCEPT ![a] =
                 IF touched = {} THEN NoAgg
                 ELSE [@ EXCEPT !.at = "touched", !.touched = touched,
                                !.seen = Highest({since} \cup {points[d].at : d \in touched})]]
    /\ UNCHANGED <<points, lateRows, writing, batchCount, instant, windows, snapshot, lastRunAt>>

\* A day is in the windows that end with it or up to Rolling - 1 days later, as far as there are points.
EndsTouched(d, last) == d..(d + Rolling - 1) \cap 1..last

\* All points and the object are read: the windows to compute are known.
AggReadsAll(a) == LET last == Latest(points) IN
    /\ aggs[a].at = "touched"
    /\ aggs' = [aggs EXCEPT ![a].at = "windows", ![a].all = points, ![a].had = snapshot,
                            ![a].ends = UNION {EndsTouched(d, last) : d \in aggs[a].touched}]
    /\ UNCHANGED <<points, lateRows, writing, batchCount, instant, windows, snapshot, lastRunAt>>

\* The next window, in the order of days, is computed of the points that were read and stored; the
\* window of the latest day goes to the object if it is news to the copy that was read.
AggComputes(a) ==
    LET g == aggs[a]
        end == CHOOSE e \in g.ends : \A f \in g.ends : e <= f
        value == InWindow(g.all, end) IN
    /\ g.at = "windows" /\ g.ends # {}
    /\ windows' = [windows EXCEPT ![end] = value]
    /\ snapshot' = IF end = Latest(g.all) /\ g.had # value THEN value ELSE snapshot
    /\ aggs' = [aggs EXCEPT ![a].ends = @ \ {end}]
    /\ UNCHANGED <<points, lateRows, writing, batchCount, instant, lastRunAt>>

\* The spec is put with the latest ingestedAt among the points that were new.
AggEnds(a) ==
    /\ aggs[a].at = "windows" /\ aggs[a].ends = {}
    /\ lastRunAt' = aggs[a].seen
    /\ aggs' = [aggs EXCEPT ![a] = NoAgg]
    /\ UNCHANGED <<points, lateRows, writing, batchCount, instant, windows, snapshot>>

\* It throws, or the process stops.
AggBreaks(a) ==
    /\ aggs[a].at # "idle"
    /\ aggs' = [aggs EXCEPT ![a] = NoAgg]
    /\ UNCHANGED <<points, lateRows, writing, batchCount, instant, windows, snapshot, lastRunAt>>

SeriesNext ==
    \/ \E w \in Writers : WriteStamps(w) \/ WriteUpserts(w) \/ BatchLost(w)
    \/ \E a \in Aggregators : \/ AggReadsSpec(a) \/ AggReadsTouched(a) \/ AggReadsAll(a)
                              \/ AggComputes(a) \/ AggEnds(a) \/ AggBreaks(a)

SeriesSpec == SeriesInit /\ [][SeriesNext]_seriesVars

-----------------------------------------------------------------------------
(* Properties *)

\* Nothing is under way and every stored point is older than the spec's lastRunAt.
UpToDate ==
    /\ \A w \in Writers : writing[w].batch = 0
    /\ \A a \in Aggregators : aggs[a].at = "idle"
    /\ \A d \in With(points) : points[d].at <= lastRunAt

\* Incremental is as good as full: when there is nothing left to aggregate, every window on record,
\* and there is one for each day with a point, holds the points as they are, whatever batches arrived
\* during an aggregation and wherever one broke off; and the object shows the latest one.
SeriesExact ==
    UpToDate =>
        /\ \A d \in SeriesDays : windows[d] # {} => windows[d] = InWindow(points, d)
        /\ \A d \in With(points) : windows[d] # {}
        /\ With(points) # {} => snapshot = InWindow(points, Latest(points))

\* One aggregation at a time.
OneAggregator == \A a, b \in Aggregators : a = b

\* What full recomputes: also the windows that end on a day without a point.
FullWouldChangeNothing ==
    UpToDate => \A end \in UNION {EndsTouched(d, Latest(points)) : d \in With(points)} :
        windows[end] = InWindow(points, end)

=============================================================================
