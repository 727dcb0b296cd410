------------------------------- MODULE Scales -------------------------------
(***************************************************************************)
(* The colour scales of the fast and the deep waterfall, as they change    *)
(* hands between the live source, the H5 source, the rolling modes, the    *)
(* link of the two and the settings that are kept between runs             *)
(* (src/viewer/rolling_controls.py, viewer_h5.py and viewer_fx.py), and    *)
(* the coherence threshold, which goes with them.                          *)
(*                                                                         *)
(* A scale is a value that was chosen for one kind of display: of is that  *)
(* kind, n the choice, 0 the default.  Setting a scale from the program    *)
(* emits no signal (ColorBarItem.setLevels() of pyqtgraph).                *)
(***************************************************************************)
EXTENDS Integers

CONSTANTS Picks,          \* what a user sets a scale or the threshold to
          MaxActs         \* bound on the acts of the user

ScalesAssumption ==
  Picks \subseteq Nat \ {0} /\ MaxActs \in Nat

VARIABLES
  s,      \* the viewer and its settings; history: before, the live display
          \* that was left for the H5 mode, and carried, the scales of a
          \* rolling mode that this run was begun with
  acts

scalesVars == <<s, acts>>

Modes == [on : BOOLEAN, clip : BOOLEAN]
Kinds == [h5 : BOOLEAN, on : BOOLEAN, clip : BOOLEAN]
Kind(h5, config) == [h5 |-> h5, on |-> config.on, clip |-> config.on /\ config.clip]

NoMode == [on |-> FALSE, clip |-> FALSE]
LiveOff == Kind(FALSE, NoMode)
Default(key) == [of |-> key, n |-> 0]
Nothing == <<>>

\* The kind of what is drawn: H5 data is drawn as it was loaded.
Displayed(v) ==
  IF ~v.h5 THEN Kind(FALSE, v.config)
  ELSE Kind(TRUE, IF v.data = Nothing THEN NoMode ELSE v.data)

Remember(v) ==
  IF v.key.h5 = v.h5 THEN [v EXCEPT !.levels[v.key] = <<v.fast, v.deep>>] ELSE v

LinkPowerFrom(v, scale) ==
  IF v.link THEN [v EXCEPT !.fast = scale, !.deep = scale, !.linked = scale] ELSE v

\* Both scales at a draw of the live waterfalls: the one that was moved last.
RenderWaterfalls(v) ==
  IF v.h5 THEN v
  ELSE LinkPowerFrom(v, IF v.fast = v.linked /\ v.deep # v.fast THEN v.deep ELSE v.fast)

\* Mutant: the scales stay when the kind of display changes.
StyleCaption(v, config) == [v EXCEPT !.key = Kind(v.h5, config)]

Style(v, config) ==
  LET key == Kind(v.h5, config)
      kept == Remember(v)
      default == IF key = LiveOff THEN <<v.fast, v.deep>> ELSE <<Default(key), Default(key)>>
      levels == IF kept.levels[key] = Nothing THEN default ELSE kept.levels[key]
  IN  IF key = v.key THEN v
      ELSE [kept EXCEPT !.fast = levels[1], !.deep = levels[2], !.key = key, !.levels[key] = levels]

\* render() of the live source.
RenderScales(v) == IF v.paused THEN v ELSE Style(RenderWaterfalls(v), v.config)

\* original_levels, which a rolling mode would have put aside, is empty.
SaveSettings(v) ==
  [v EXCEPT !.settings = [fast |-> v.fast, deep |-> v.deep, link |-> v.link, threshold |-> v.threshold]]

-----------------------------------------------------------------------------
Do(v) == s' = v

Act == acts < MaxActs /\ acts' = acts + 1

\* A user is slower than the timer that styles what is displayed.
Styled == s.h5 \/ s.key = Displayed(s)

Drag ==
  /\ Act /\ Styled
  /\ \E n \in Picks :
       LET scale == [of |-> Displayed(s), n |-> n]
       IN  \/ Do(Remember(LinkPowerFrom([s EXCEPT !.fast = scale], scale)))
           \/ Do(Remember(LinkPowerFrom([s EXCEPT !.deep = scale], scale)))

ToggleLink ==
  /\ Act /\ Styled /\ ~s.h5
  /\ Do(LinkPowerFrom([s EXCEPT !.link = ~s.link], s.fast))

SetThreshold ==
  /\ Act /\ ~(s.paused /\ ~s.h5)
  /\ \E n \in Picks : Do([s EXCEPT !.threshold = [h5 |-> s.h5, n |-> n]])

TogglePause ==
  /\ Act /\ Styled /\ ~s.h5
  /\ Do(RenderScales([s EXCEPT !.paused = ~s.paused]))

\* change(), and the pulse() it ends with; the H5 source loads anew.
Change ==
  /\ Act /\ Styled
  /\ \E config \in Modes \ {s.config} :
       LET changed == [Remember(s) EXCEPT !.config = config]
       IN  Do(IF s.h5 THEN changed ELSE RenderWaterfalls(Style(changed, config)))

\* Data is loaded in the H5 mode and drawn with the settings it was read with.
Load ==
  /\ s.h5 /\ s.data # s.config
  /\ Do(Style([s EXCEPT !.data = s.config], s.config))
  /\ UNCHANGED acts

Enter ==
  /\ Act /\ Styled /\ ~s.h5
  /\ LET left  == SaveSettings(Remember(s))
         same  == s.data = s.config
         begun == [left EXCEPT
           !.saved = [fast |-> s.fast, deep |-> s.deep, link |-> s.link, threshold |-> s.threshold],
           !.before = [config |-> s.config, fast |-> s.fast, deep |-> s.deep,
                       link |-> s.link, threshold |-> s.threshold],
           !.h5 = TRUE, !.link = FALSE, !.threshold = [h5 |-> TRUE, n |-> 0],
           !.fast = Default(Kind(TRUE, NoMode)), !.deep = Default(Kind(TRUE, NoMode)),
           !.data = IF same THEN @ ELSE Nothing]
     IN  Do(IF same THEN Style(begun, s.data) ELSE begun)

\* Mutant: the link stays as the H5 mode has it.
RestoredUnlinked(v) ==
  [Remember(v) EXCEPT
     !.h5 = FALSE, !.saved = Nothing, !.threshold = v.saved.threshold,
     !.fast = v.saved.fast, !.deep = v.saved.deep]

Restored(v) ==
  [Remember(v) EXCEPT
     !.h5 = FALSE, !.saved = Nothing, !.link = v.saved.link, !.threshold = v.saved.threshold,
     !.fast = v.saved.fast, !.deep = v.saved.deep]

Leave ==
  /\ Act /\ s.h5
  /\ Do(RenderWaterfalls(RenderScales(Restored(s))))

StylePulse == ~s.h5 /\ Do(Style(s, s.config)) /\ UNCHANGED acts

Frame == ~s.h5 /\ Do(RenderScales(s)) /\ UNCHANGED acts

Closed(v) == IF v.h5 THEN v ELSE SaveSettings(v)

\* A viewer with these settings; the memory of the scales begins with them, for
\* the live display, whichever kind they were set for.
Viewer(settings) ==
  LET fast == settings.fast
      deep == IF settings.link THEN fast ELSE settings.deep
  IN  [h5 |-> FALSE, config |-> NoMode, data |-> Nothing, paused |-> FALSE,
       fast |-> fast, deep |-> deep, link |-> settings.link,
       linked |-> IF settings.link THEN fast ELSE Nothing,
       key |-> LiveOff,
       levels |-> [k \in Kinds |-> IF k = LiveOff THEN <<fast, deep>> ELSE Nothing],
       threshold |-> settings.threshold,
       saved |-> Nothing, before |-> Nothing, settings |-> settings,
       carried |-> {x \in {fast, deep} : x.of # LiveOff}]

Restart == Act /\ Styled /\ Do(Viewer(Closed(s).settings))

NoSettings ==
  [fast |-> Default(LiveOff), deep |-> Default(LiveOff), link |-> TRUE,
   threshold |-> [h5 |-> FALSE, n |-> 0]]

ScalesInit == s = Viewer(NoSettings) /\ acts = 0

ScalesNext ==
  \/ Drag \/ ToggleLink \/ SetThreshold \/ TogglePause \/ Change
  \/ Load \/ Enter \/ Leave \/ StylePulse \/ Frame \/ Restart

ScalesSpec == ScalesInit /\ [][ScalesNext]_scalesVars

-----------------------------------------------------------------------------
(* Properties.                                                             *)

\* A scale was set for this kind of display.  One exception: a viewer that is
\* closed in a rolling mode saves the scales of that mode, since nothing fills
\* original_levels (viewer_fx.py:935), and the next one begins the live display
\* with them; they serve it until they are moved.
Suits(v, scale, key) == scale.of = key \/ (key = LiveOff /\ scale \in v.carried)

\* What is drawn has scales that were set for its kind: dB of power, dB over
\* the median, clipped or not, of the live stream or of files.
ScalesAreOfKind == s.key = Displayed(s) => Suits(s, s.fast, s.key) /\ Suits(s, s.deep, s.key)

\* What is remembered for a kind of display was set for it.
MemoryIsOfKind ==
  \A k \in Kinds :
    s.levels[k] # Nothing => Suits(s, s.levels[k][1], k) /\ Suits(s, s.levels[k][2], k)

\* Nothing of the H5 mode gets into the settings.
SettingsAreOfLive ==
  ~s.settings.fast.of.h5 /\ ~s.settings.deep.of.h5 /\ ~s.settings.threshold.h5

\* Scales are used and remembered for the kind of display that they were set
\* for, but for those of a rolling mode that a restart carried over to the live
\* display (Suits); nothing that is set in the H5 mode reaches the settings or a
\* live display (viewer_fx.py _style_waterfall(), viewer_h5.py set_h5_mode()).
ScalesKeepToKind == ScalesAreOfKind /\ MemoryIsOfKind /\ SettingsAreOfLive

\* Scales that are linked are one again when a visit ends, one of those before:
\* a pause lets the memory of a kind put two under a link.
VisitLeavesNoTrace ==
  s.h5 /\ ~s'.h5 /\ s'.config = s.before.config =>
    /\ IF s'.link THEN s'.fast = s'.deep /\ s'.fast \in {s.before.fast, s.before.deep}
       ELSE s'.fast = s.before.fast /\ s'.deep = s.before.deep
    /\ s'.link = s.before.link /\ s'.threshold = s.before.threshold

\* A visit to the H5 mode leaves the live display as it was: its scales, their
\* link and the threshold (viewer_h5.py set_h5_mode(), leave()).
VisitsLeaveNoTrace == [][VisitLeavesNoTrace]_scalesVars
=============================================================================
