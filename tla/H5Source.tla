------------------------------ MODULE H5Source ------------------------------
(***************************************************************************)
(* The H5 mode of the viewer (class H5Source of src/viewer/viewer_h5.py,   *)
(* with what rolling_controls.py asks of it): one reader thread at a time  *)
(* indexes files, loads a range, reads one spectrum or refines the visible *)
(* part of the waterfalls.  What is asked while it runs is kept in flags;  *)
(* what was asked of it may have become stale when it answers.             *)
(*                                                                         *)
(* The handlers call one another and are operators on the state h; each    *)
(* event of the Qt loop, a timer and the thread are the actions.  A        *)
(* generation and a view revision only tell a request from a later one:    *)
(* the worker keeps whether its own still holds.  The drift measurement    *)
(* chooses two cells of the waterfalls, each with the number of its        *)
(* continuous segment in what was displayed then.                          *)
(***************************************************************************)
EXTENDS Integers, Sequences, FiniteSets, SequencesExt, FiniteSetsExt

CONSTANTS Records,      \* 1 .. n, the saved records of a catalog
          Catalogs,     \* file selections, positive numbers
          Ranges,       \* what From/To may select; the empty set too
          Windows,      \* what a zoom may show
          Freqs, Quantities,
          Configs,      \* RollingConfig, "off" among them
          Block,        \* of records that are read for a view
          Rows,         \* that a waterfall draws: a longer range is averaged in groups, or,
                        \* when its residuals wait, opened at its end
          MaxViews,     \* entries of the cache of views
          Breaks,       \* records that begin a continuous segment
          MaxActs       \* bound on what the user does

H5Assumption ==
  /\ Records = 1 .. Cardinality(Records) /\ Records # {}
  /\ Catalogs \subseteq Nat \ {0} /\ Ranges \subseteq SUBSET Records /\ Windows \subseteq SUBSET Records
  /\ "off" \in Configs /\ Block \in Nat \ {0} /\ Rows \in Nat \ {0} /\ MaxViews \in Nat \ {0}
  /\ Breaks \subseteq Records /\ MaxActs \in Nat

VARIABLES
  h,          \* the source; excused: history, what was given up, refused, not
              \* read or passed over, until it is asked for again
  acts,
  drift,      \* the cells that were chosen
  measured    \* the cells of the measurement that is shown

vars == <<h, acts, drift, measured>>

-----------------------------------------------------------------------------
(* The worker and the views.                                               *)

NoData == [cat |-> 0]
NoWorker == [kind |-> "none", job |-> NoData, holds |-> FALSE, fresh |-> FALSE,
             interrupted |-> FALSE, phase |-> "none"]

Idle(s) == s.worker.kind = "none"

Launch(s, kind, job) ==
  IF ~Idle(s) THEN s
  ELSE [s EXCEPT !.enabled = FALSE,
                 !.worker = [kind |-> kind, job |-> job, holds |-> TRUE, fresh |-> TRUE,
                             interrupted |-> FALSE, phase |-> "run"]]

ResetView(s) ==
  [s EXCEPT !.timer = FALSE, !.pendingView = FALSE, !.view = NoData, !.cache = <<>>,
            !.worker.fresh = FALSE]

Cancel(s) ==
  [ResetView(s) EXCEPT !.pendingLoad = FALSE, !.pendingSpectrum = FALSE, !.worker.holds = FALSE,
                       !.worker.interrupted = s.worker.kind # "none",
                       !.excused = {"load", "view", "spectrum"}]

StartTimer(s) == [s EXCEPT !.timer = TRUE, !.excused = @ \ {"view"}]

\* sync_y(), and the end of fit_time(): what is shown has moved.
Zoomed(s, window) ==
  StartTimer([s EXCEPT !.window = window, !.worker.fresh = FALSE,
                       !.worker.interrupted = @ \/ s.worker.kind = "view"])

FitTime(s) == IF s.data = NoData THEN s ELSE Zoomed(s, s.data.range)

-----------------------------------------------------------------------------
(* Spectra.                                                                *)

\* The record the spectrum is of: record 0 is the mean of the range.
Chosen(s) ==
  IF s.record = 0 THEN [cat |-> s.catalog, of |-> s.data.range]
  ELSE [cat |-> s.catalog, of |-> {Min(s.data.range) + s.record - 1}]

SpectrumData(s) ==
  IF s.record = 0 \/ s.spectrum = Chosen(s) THEN Chosen(s) ELSE NoData

Render(s) ==
  IF ~s.active \/ s.data = NoData THEN s
  ELSE IF SpectrumData(s) # NoData THEN [s EXCEPT !.shown = Chosen(s)]
  ELSE [s EXCEPT !.shown = NoData, !.pendingSpectrum = TRUE, !.excused = @ \ {"spectrum"},
                 !.posts = IF Idle(s) THEN Append(@, "spectrum") ELSE @]

RequestSpectrum(s) ==
  IF ~s.active \/ s.data = NoData THEN s
  ELSE IF ~Idle(s) THEN [s EXCEPT !.pendingSpectrum = TRUE]
  ELSE IF SpectrumData(s) # NoData THEN Render(s)
  ELSE [Launch(s, "spectrum", Chosen(s)) EXCEPT !.excused = @ \ {"spectrum"}]

-----------------------------------------------------------------------------
(* load(), loaded() and refine_view().                                     *)

\* Whether the meshes on display are those of the answer: only the traces
\* of another bin were read, or nothing at all.
SameMeshes(s, range, loadedRange) ==
  /\ s.data # NoData /\ s.data.quantity = s.quantity /\ s.data.range = range
  /\ \/ loadedRange /\ s.data.cfg = s.config
     \/ s.data.cfg = "off" /\ s.config = "off"

Load(s, loadedRange) ==
  LET range == IF loadedRange /\ s.data # NoData THEN s.data.range ELSE s.from
  IN  IF ~s.active \/ s.catalog = 0 \/ ~Idle(s) THEN s
      ELSE IF range = {} THEN [s EXCEPT !.excused = @ \cup {"load"}]
      ELSE [Launch(s, "data", [data |-> [cat |-> s.catalog, range |-> range, freq |-> s.freq,
                                         quantity |-> s.quantity, cfg |-> s.config],
                               reuse |-> SameMeshes(s, range, loadedRange)])
              EXCEPT !.excused = @ \ {"load"}]

\* Rows of a long range are opened at its end when their residuals wait.
Opened(s, fit) ==
  IF /\ s.data.cfg # "off" /\ Cardinality(s.data.range) > Rows /\ fit
  THEN Zoomed(s, {r \in s.data.range : r > Max(s.data.range) - Rows}) ELSE s

Loaded(s, job) ==
  LET d == job.data
      fit == s.fit \/ s.data = NoData \/ s.data.range # d.range
      first == fit \/ s.data.cfg = "off"
      base == IF job.reuse THEN s ELSE ResetView(s)
      taken == [base EXCEPT !.data = d, !.fit = FALSE, !.record = Min({@, Cardinality(d.range)})]
      drawn == IF job.reuse THEN taken ELSE Render(taken)
      fitted == Opened(IF fit THEN FitTime(drawn) ELSE drawn, first)
  IN  IF d.cfg # s.config THEN [s EXCEPT !.pendingLoad = TRUE]
      ELSE IF job.reuse THEN fitted ELSE StartTimer(fitted)

\* The positions in the data of the blocks that what is seen is in.
Prefetched(d, seen) ==
  LET at(r) == r - Min(d.range) + 1
      blocks == {(at(r) - 1) \div Block : r \in seen}
  IN  {n \in 1 .. Cardinality(d.range) : (n - 1) \div Block \in Min(blocks) .. Max(blocks)}

ViewKey(s, seen) ==
  [part |-> Prefetched(s.data, seen), group |-> (Cardinality(seen) + Rows - 1) \div Rows,
   quantity |-> s.data.quantity, cfg |-> s.data.cfg]

\* A view: its key, and what its rows were made of.
ViewOf(s, seen) == [key |-> ViewKey(s, seen), cat |-> s.data.cat, range |-> s.data.range]

\* A view is shown and is the newest of the cache.
ShowView(s, view) ==
  LET cache == Append(SelectSeq(s.cache, LAMBDA v : v.key # view.key), view)
      extra == IF Len(cache) > MaxViews THEN Len(cache) - MaxViews ELSE 0
  IN  [s EXCEPT !.view = view, !.cache = SubSeq(cache, extra + 1, Len(cache))]

\* refine_view(); the files may have changed.
Refine(s, unchanged) ==
  LET seen == s.window \cap s.data.range
      view == ViewOf(s, seen)
      cached == {i \in DOMAIN s.cache : s.cache[i].key = view.key}
  IN  IF ~s.active \/ s.data = NoData THEN s
      ELSE IF ~Idle(s) THEN [s EXCEPT !.pendingView = TRUE]
      ELSE IF seen = {} \/ (seen = s.data.range /\ s.data.cfg = "off") THEN [s EXCEPT !.view = NoData]
      ELSE IF s.view # NoData /\ s.view.key = view.key THEN s
      ELSE IF ~unchanged THEN [s EXCEPT !.excused = @ \cup {"view"}]
      ELSE IF cached # {} THEN ShowView(s, s.cache[Max(cached)])
      ELSE Launch(s, "view", view)

-----------------------------------------------------------------------------
(* Sources, files and settings.                                            *)

\* Mutant: data of other settings is shown again.
EnterAsLeft(s) ==
  IF s.active THEN s
  ELSE FitTime(Render([s EXCEPT !.active = TRUE, !.worker.holds = FALSE, !.shown = NoData,
                                !.enabled = Idle(s), !.excused = @ \ {"load"}]))

\* enter(): data of other settings goes, and is loaded again.
Enter(s) ==
  LET entered == [s EXCEPT !.active = TRUE, !.worker.holds = FALSE, !.shown = NoData,
                           !.enabled = Idle(s), !.excused = @ \ {"load"}]
      stale == s.data # NoData /\ s.data.cfg # s.config
      asked == IF Idle(s) THEN [entered EXCEPT !.posts = Append(@, "load")]
               ELSE [entered EXCEPT !.pendingLoad = TRUE]
  IN  IF s.active THEN s
      ELSE IF stale THEN [asked EXCEPT !.data = NoData]
      ELSE FitTime(Render(entered))

\* leave(), where the receivers of live data start.
Leave(s) ==
  IF ~s.active THEN s
  ELSE [Cancel([s EXCEPT !.active = FALSE]) EXCEPT !.shown = NoData]

Indexed(s, catalog) ==
  [ResetView(s) EXCEPT !.spectrum = NoData, !.catalog = catalog, !.data = NoData, !.shown = NoData,
                       !.from = Records, !.pendingLoad = TRUE, !.fit = TRUE, !.excused = @ \ {"load"}]

Open(s, catalog) ==
  LET t == Enter(s) IN IF Idle(t) THEN Launch(t, "index", [cat |-> catalog]) ELSE t

\* finished(): one thing that was asked meanwhile is started.
Finished(s) ==
  LET ended == [s EXCEPT !.worker = NoWorker, !.enabled = TRUE]
  IN  IF s.active /\ s.pendingLoad
      THEN [ended EXCEPT !.pendingLoad = FALSE, !.posts = Append(@, "load")]
      ELSE IF s.active /\ s.pendingSpectrum
      THEN [ended EXCEPT !.pendingSpectrum = FALSE, !.posts = Append(@, "spectrum")]
      ELSE IF s.active /\ s.pendingView
      THEN [ended EXCEPT !.pendingView = FALSE, !.timer = TRUE]
      ELSE ended

\* RollingController.change(): files that are being indexed are not given up.
Change(s, config) ==
  LET set == [s EXCEPT !.config = config]
      stopped == IF s.worker.kind = "index" THEN set ELSE Cancel(set)
  IN  IF config = s.config \/ ~s.active THEN set
      ELSE IF Idle(s) THEN Load(stopped, FALSE)
      ELSE [stopped EXCEPT !.pendingLoad = TRUE, !.excused = @ \ {"load"}]

-----------------------------------------------------------------------------
(* The user.  The controls of the H5 panel are disabled while it reads.    *)

Init ==
  /\ h = [active |-> FALSE, enabled |-> TRUE, catalog |-> 0, data |-> NoData, fit |-> FALSE,
          worker |-> NoWorker, timer |-> FALSE, posts |-> <<>>,
          pendingLoad |-> FALSE, pendingSpectrum |-> FALSE, pendingView |-> FALSE,
          view |-> NoData, cache |-> <<>>, spectrum |-> NoData, shown |-> NoData,
          from |-> {}, freq |-> Min(Freqs), quantity |-> Min(Quantities), record |-> 0,
          window |-> {}, config |-> "off", excused |-> {}]
  /\ acts = 0 /\ drift = <<>> /\ measured = <<>>

Act(s) == acts < MaxActs /\ acts' = acts + 1 /\ h' = s

Do(s) == h' = s /\ UNCHANGED acts

User ==
  \/ Act(Enter(h))
  \/ Act(Leave(h))
  \/ h.enabled /\ \E c \in Catalogs : Act(Open(h, c))
  \/ h.active /\ h.enabled /\ h.catalog # 0 /\ \E r \in Ranges : Act([h EXCEPT !.from = r])
  \/ h.active /\ Act(Load(h, FALSE))
  \/ /\ h.active /\ h.enabled /\ h.catalog # 0
     /\ Act(Load([h EXCEPT !.fit = TRUE, !.from = Records], FALSE))
  \/ h.active /\ h.enabled /\ \E f \in Freqs : Act(Load([h EXCEPT !.freq = f], TRUE))
  \/ h.active /\ h.enabled /\ \E q \in Quantities : Act(Load([h EXCEPT !.quantity = q], FALSE))
  \/ /\ h.active /\ h.enabled /\ h.data # NoData
     /\ \E r \in 0 .. Cardinality(h.data.range) : Act(RequestSpectrum([h EXCEPT !.record = r]))
  \/ h.active /\ \E w \in Windows : Act(Zoomed(h, w))
  \/ h.active /\ Act(FitTime(h))
  \/ h.active /\ ~Idle(h) /\ Act(Cancel(h))
  \/ \E c \in Configs \ {h.config} : Act(Change(h, c))

(* The thread, and what the Qt loop delivers of it.                        *)

Answer ==
  /\ h.worker.phase = "run"
  /\ \E phase \in IF h.worker.interrupted THEN {"ended"} ELSE {"ready", "failed"} :
       Do([h EXCEPT !.worker.phase = phase])

Taken(s) ==
  CASE s.worker.kind = "index" -> Indexed(s, s.worker.job.cat)
    [] s.worker.kind = "data" -> Loaded(s, s.worker.job)
    [] s.worker.kind = "spectrum" -> Render([s EXCEPT !.spectrum = s.worker.job])
    [] s.worker.kind = "view" -> IF s.worker.fresh THEN ShowView(s, s.worker.job) ELSE s

Deliver ==
  LET heard == h.active /\ h.worker.holds
      kind == IF h.worker.kind \in {"data", "index"} THEN "load" ELSE h.worker.kind
      ended == [h EXCEPT !.worker.phase = "ended"]
  IN  \/ h.worker.phase = "ready" /\ Do([(IF heard THEN Taken(ended) ELSE ended) EXCEPT !.worker.phase = "ended"])
      \/ /\ h.worker.phase = "failed"
         /\ Do([ended EXCEPT !.excused = IF heard THEN @ \cup {kind} ELSE @])

End == h.worker.phase = "ended" /\ Do(Finished(h))

\* A call that was posted by singleShot(0).  A load that finds a reader of
\* something else is passed over; a call that starts no reader leaves the view
\* that waits without one whose end would serve it.
Post ==
  /\ h.posts # <<>>
  /\ LET s == [h EXCEPT !.posts = Tail(@)]
         load == Head(h.posts) = "load"
         called == IF load THEN Load(s, FALSE) ELSE RequestSpectrum(s)
         left == called.pendingView /\ Idle(called) /\ ~called.timer /\ called.posts = <<>>
         passed == load /\ s.worker.kind \in {"view", "spectrum"}
     IN  Do([called EXCEPT !.excused =
               @ \cup {k \in {"load", "view"} : (k = "load" /\ passed) \/ (k = "view" /\ left)}])

\* The timer of the view; it may expire before a call that was posted runs.
Fire == h.timer /\ \E unchanged \in BOOLEAN : Do(Refine([h EXCEPT !.timer = FALSE], unchanged))

System == Answer \/ Deliver \/ End \/ Post \/ Fire

Asked == (User \/ System) /\ UNCHANGED <<drift, measured>>

-----------------------------------------------------------------------------
(* The drift measurement.  History, of a cell: cat and from, the catalog   *)
(* and the first record of the display that it was chosen on.              *)

\* The records that are drawn: of the view, or of all the data.
Drawn(s) ==
  IF s.view = NoData THEN s.data.range
  ELSE {Min(s.data.range) + n - 1 : n \in s.view.key.part}

\* The mesh of a record: its segment among those that are drawn.
Segment(s, r) == Cardinality({b \in Breaks : Min(Drawn(s)) < b /\ b <= r})

Measured(pair) ==
  IF Len(pair) = 2 /\ pair[1].segment = pair[2].segment THEN pair ELSE <<>>

Measure ==
  /\ acts < MaxActs /\ h.active /\ h.data # NoData /\ Idle(h)
  /\ \E r \in Drawn(h) \cap h.window :
       LET cell == [record |-> r, segment |-> Segment(h, r), cat |-> h.catalog, from |-> Min(Drawn(h))]
           pair == IF Len(drift) = 1 THEN Append(drift, cell) ELSE <<cell>>
       IN  /\ drift' = IF Len(pair) = 2 /\ Measured(pair) = <<>> THEN <<>> ELSE pair
           /\ measured' = Measured(pair)
  /\ acts' = acts + 1 /\ UNCHANGED h

\* clear_drift_measurement() of the window: it clears what is shown, and not
\* the cells.
Cleared == h'.config # h.config \/ h'.active # h.active

Display ==
  /\ User \/ System
  /\ measured' = IF Cleared THEN <<>> ELSE measured
  /\ UNCHANGED drift

Next == Display \/ Measure

Spec == Init /\ [][Next]_vars

-----------------------------------------------------------------------------
(* Properties.                                                             *)

Settled == Idle(h) /\ ~h.timer /\ h.posts = <<>>

\* The controls follow the reader, wherever the source was changed; the data
\* is of the catalog; one thing is read at a time, and nothing waits for a
\* reader that is not there.
TypeOK ==
  /\ acts \in 0 .. MaxActs
  /\ h.active => (h.enabled <=> Idle(h))
  /\ h.data # NoData => h.data.cat = h.catalog /\ h.data.range # {}
  /\ h.active /\ Idle(h) => ~h.pendingLoad
  /\ Len(h.cache) <= MaxViews

\* What refines the waterfalls is made of the data that is loaded: its files,
\* its range (the context of the medians), its quantity and its settings;
\* and so is every view in the cache.
ViewsAreOfTheData ==
  \A v \in {h.view} \cup {h.cache[i] : i \in DOMAIN h.cache} :
    v # NoData =>
      /\ h.data # NoData /\ v.cat = h.data.cat /\ v.range = h.data.range
      /\ v.key.quantity = h.data.quantity /\ v.key.cfg = h.data.cfg

\* When all is quiet the view is the one for what is on the screen, unless the
\* files had changed, it was given up, or it was passed over (Post).
ViewIsVisible ==
  h.active /\ Settled /\ "view" \notin h.excused /\ h.data # NoData =>
    LET seen == h.window \cap h.data.range
    IN  IF seen = {} \/ (seen = h.data.range /\ h.data.cfg = "off") THEN h.view = NoData
        ELSE h.view # NoData /\ h.view.key = ViewKey(h, seen)

\* When all is quiet the spectrum is of the record that is chosen, unless it or
\* a load was given up, refused, not read or passed over.
SpectrumIsChosen ==
  h.active /\ Settled /\ h.excused \cap {"load", "spectrum"} = {} /\ h.data # NoData =>
    h.shown = Chosen(h)

\* Data of other settings than the chosen ones is shown only while a load is
\* under way, or when it was given up, refused, not read or passed over.
SettingsAreApplied ==
  h.active /\ h.data # NoData /\ h.data.cfg # h.config =>
    \/ "load" \in h.excused
    \/ h.pendingLoad \/ (\E i \in DOMAIN h.posts : h.posts[i] = "load")
    \/ h.worker.kind \in {"data", "index"} /\ h.worker.holds

\* What was read for a request that was given up is never taken.
CancelledIsDropped == h.data' # h.data /\ h'.data # NoData => h.worker.holds /\ ~h.worker.interrupted

OneSegment(a, b) == \A k \in Breaks : (a < k <=> b < k)

\* A drift is measured within one segment of one catalog when the displays that
\* its cells were chosen on were of that catalog and began in one segment; a cell
\* stays when another catalog, range or part is displayed.
MeasuredInPlace ==
  LET a == measured[1]
      b == measured[2]
  IN  measured # <<>> /\ a.cat = b.cat /\ OneSegment(a.from, b.from) => OneSegment(a.record, b.record)

=============================================================================
