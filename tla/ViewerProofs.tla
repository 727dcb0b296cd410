---------------------------- MODULE ViewerProofs ----------------------------
(***************************************************************************)
(* What the live viewer keeps, for any number of choices: the scales of    *)
(* the live and the H5 display (Scales), the curves of the selected bin    *)
(* (SelectedBin), the rolling median (RollingView), and the display as a   *)
(* whole (LiveViewer), whose history is that of LiveHistoryProofs.         *)
(*                                                                         *)
(* ScalesIInv: every scale is of the kind that it stands for, on the       *)
(* display, in the memory, in the settings, and in what was put aside at   *)
(* the start of a visit to the H5 mode.                                    *)
(*                                                                         *)
(* BinIInv: what is displayed was drawn of a trace of the bin that is      *)
(* followed, and so were the fringes as far as they are shown.             *)
(*                                                                         *)
(* RollIInv: every residual that is kept, by the controller or a worker,   *)
(* is of the run of frames that its signature says, and every mean is of   *)
(* all frames of its group; an answer that holds is of the settings of     *)
(* now; and the image is of the values it was drawn with.                  *)
(***************************************************************************)
EXTENDS LiveViewer, LiveHistoryProofs, FiniteSetTheorems, FunctionTheorems, TLAPS

-----------------------------------------------------------------------------
(* The scales.                                                             *)

Scale == [of : Kinds, n : Nat]
Threshold == [h5 : BOOLEAN, n : Nat]
Kept == [fast : Scale, deep : Scale, link : BOOLEAN, threshold : Threshold]
Left == [config : Modes, fast : Scale, deep : Scale, link : BOOLEAN, threshold : Threshold]
Pairs == Scale \X Scale

\* A viewer, and one that the code has in hand while it handles an event.
IsViewer(v) ==
  v \in [h5 : BOOLEAN, config : Modes, data : Modes \cup {Nothing}, paused : BOOLEAN,
         fast : Scale, deep : Scale, link : BOOLEAN, linked : Scale \cup {Nothing}, key : Kinds,
         levels : [Kinds -> Pairs \cup {Nothing}], threshold : Threshold,
         saved : Kept \cup {Nothing}, before : Left \cup {Nothing}, settings : Kept,
         carried : SUBSET Scale]

Remembered(v) ==
  /\ v.levels[LiveOff] # Nothing
  /\ \A k \in Kinds :
       v.levels[k] # Nothing => Suits(v, v.levels[k][1], k) /\ Suits(v, v.levels[k][2], k)

OfItsKind(v) == v.key.h5 = v.h5 => Suits(v, v.fast, v.key) /\ Suits(v, v.deep, v.key)

Good(v) == IsViewer(v) /\ Remembered(v) /\ OfItsKind(v)

\* All but the scales, their kind and the memory of them.
Same(v, w) ==
  /\ w.h5 = v.h5 /\ w.config = v.config /\ w.data = v.data /\ w.paused = v.paused
  /\ w.link = v.link /\ w.threshold = v.threshold /\ w.saved = v.saved
  /\ w.before = v.before /\ w.settings = v.settings /\ w.carried = v.carried

LEMMA SuitsStays ==
  ASSUME NEW v, NEW w, w.carried = v.carried
  PROVE  \A x, k : Suits(v, x, k) <=> Suits(w, x, k)
BY DEF Suits

LEMMA NothingIs ==
  /\ \A c \in Modes : c # Nothing
  /\ \A p \in Pairs : p # Nothing
  /\ \A x \in Scale : x # Nothing
  /\ \A x \in Kept : x # Nothing
  /\ \A x \in Left : x # Nothing
<1>1. \A c \in Modes : c # Nothing
  BY DEF Modes, Nothing
<1>2. \A p \in Pairs : p # Nothing
  BY DEF Pairs, Nothing
<1>3. \A x \in Scale : x # Nothing
  BY DEF Scale, Nothing
<1>4. \A x \in Kept : x # Nothing
  BY DEF Kept, Nothing
<1>5. \A x \in Left : x # Nothing
  BY DEF Left, Nothing
<1> QED
  BY <1>1, <1>2, <1>3, <1>4, <1>5

LEMMA KindIs ==
  /\ \A h \in BOOLEAN, c \in Modes : Kind(h, c) \in Kinds /\ Kind(h, c).h5 = h /\ (Kind(h, c).clip => Kind(h, c).on)
  /\ LiveOff \in Kinds /\ ~LiveOff.h5 /\ NoMode \in Modes /\ LiveOff = Kind(FALSE, NoMode)
  /\ \A k \in Kinds : Default(k) \in Scale /\ Default(k).of = k
BY DEF Kind, Kinds, Modes, LiveOff, NoMode, Default, Scale

LEMMA RememberIs ==
  ASSUME NEW v, Good(v)
  PROVE  LET w == Remember(v)
         IN  /\ Good(w) /\ Same(v, w) /\ w.fast = v.fast /\ w.deep = v.deep /\ w.key = v.key
             /\ w.linked = v.linked
             /\ \A k \in Kinds : k # v.key => w.levels[k] = v.levels[k]
             /\ v.key.h5 = v.h5 => w.levels[v.key] = <<v.fast, v.deep>>
             /\ v.key.h5 # v.h5 => w = v
<1>1. CASE v.key.h5 # v.h5
  BY <1>1 DEF Remember, Same
<1>2. CASE v.key.h5 = v.h5
  <2> DEFINE w == [v EXCEPT !.levels[v.key] = <<v.fast, v.deep>>]
  <2>1. Remember(v) = w
    BY <1>2 DEF Remember
  <2>2. <<v.fast, v.deep>> \in Pairs /\ v.key \in Kinds /\ v.levels \in [Kinds -> Pairs \cup {Nothing}]
    BY DEF Good, IsViewer, Pairs
  <2>3. w.levels = [v.levels EXCEPT ![v.key] = <<v.fast, v.deep>>]
    BY DEF Good, IsViewer
  <2>4. /\ Same(v, w) /\ w.fast = v.fast /\ w.deep = v.deep /\ w.key = v.key /\ w.linked = v.linked
    BY DEF Same, Good, IsViewer
  <2>5. IsViewer(w)
    BY <2>2, <2>3 DEF Good, IsViewer
  <2> HIDE DEF w
  <2>6. Remembered(w)
    <3>1. w.levels[LiveOff] # Nothing
      <4>1. w.levels[LiveOff] = v.levels[LiveOff] \/ w.levels[LiveOff] = <<v.fast, v.deep>>
        BY <2>2, <2>3, KindIs
      <4>2. v.levels[LiveOff] # Nothing /\ <<v.fast, v.deep>> # Nothing
        BY <2>2, NothingIs DEF Good, Remembered
      <4> QED
        BY <4>1, <4>2
    <3>2. ASSUME NEW k \in Kinds, w.levels[k] # Nothing
          PROVE  Suits(w, w.levels[k][1], k) /\ Suits(w, w.levels[k][2], k)
      <4>1. CASE k = v.key
        <5>1. w.levels[k] = <<v.fast, v.deep>>
          BY <2>2, <2>3, <4>1
        <5>2. Suits(v, v.fast, k) /\ Suits(v, v.deep, k)
          BY <1>2, <4>1 DEF Good, OfItsKind
        <5> QED
          BY <2>4, <5>1, <5>2, SuitsStays DEF Same
      <4>2. CASE k # v.key
        <5>1. w.levels[k] = v.levels[k]
          BY <2>2, <2>3, <4>2
        <5>2. Suits(v, v.levels[k][1], k) /\ Suits(v, v.levels[k][2], k)
          BY <3>2, <5>1 DEF Good, Remembered
        <5> QED
          BY <2>4, <5>1, <5>2, SuitsStays DEF Same
      <4> QED
        BY <4>1, <4>2
    <3> QED
      BY <3>1, <3>2 DEF Remembered
  <2>7. OfItsKind(w)
    BY <2>4, SuitsStays DEF Good, OfItsKind, Same
  <2> QED
    BY <1>2, <2>1, <2>2, <2>3, <2>4, <2>5, <2>6, <2>7 DEF Good
<1> QED
  BY <1>1, <1>2

LEMMA LinkIs ==
  ASSUME NEW v, Good(v), NEW x \in Scale, v.key.h5 = v.h5 => Suits(v, x, v.key)
  PROVE  LET w == LinkPowerFrom(v, x)
         IN  /\ Good(w) /\ Same(v, w) /\ w.key = v.key /\ w.levels = v.levels
             /\ v.link => w.fast = x /\ w.deep = x
             /\ ~v.link => w = v
<1>1. CASE ~v.link
  BY <1>1 DEF LinkPowerFrom, Same
<1>2. CASE v.link
  <2> DEFINE w == [v EXCEPT !.fast = x, !.deep = x, !.linked = x]
  <2>1. LinkPowerFrom(v, x) = w
    BY <1>2 DEF LinkPowerFrom
  <2>2. Same(v, w) /\ w.key = v.key /\ w.levels = v.levels /\ w.fast = x /\ w.deep = x
    BY DEF Same, Good, IsViewer
  <2>3. IsViewer(w)
    BY DEF Good, IsViewer
  <2>4. Remembered(w) /\ OfItsKind(w)
    BY <2>2, SuitsStays DEF Good, Remembered, OfItsKind, Same
  <2> HIDE DEF w
  <2> QED
    BY <1>2, <2>1, <2>2, <2>3, <2>4 DEF Good
<1> QED
  BY <1>1, <1>2 DEF Good, IsViewer

LEMMA RenderWaterfallsIs ==
  ASSUME NEW v, Good(v)
  PROVE  LET w == RenderWaterfalls(v)
         IN  /\ Good(w) /\ Same(v, w) /\ w.key = v.key /\ w.levels = v.levels
             /\ v.link /\ ~v.h5 => w.fast = w.deep /\ w.fast \in {v.fast, v.deep}
             /\ ~v.link \/ v.h5 => w = v
<1>1. CASE v.h5
  BY <1>1 DEF RenderWaterfalls, Same
<1>2. CASE ~v.h5
  <2> DEFINE x == IF v.fast = v.linked /\ v.deep # v.fast THEN v.deep ELSE v.fast
  <2>1. x \in Scale /\ x \in {v.fast, v.deep} /\ (v.key.h5 = v.h5 => Suits(v, x, v.key))
    BY DEF Good, IsViewer, OfItsKind
  <2>2. RenderWaterfalls(v) = LinkPowerFrom(v, x)
    BY <1>2 DEF RenderWaterfalls
  <2> HIDE DEF x
  <2> QED
    BY <1>2, <2>1, <2>2, LinkIs
<1> QED
  BY <1>1, <1>2 DEF Good, IsViewer

LEMMA StyleIs ==
  ASSUME NEW v, Good(v), NEW config \in Modes
  PROVE  LET w == Style(v, config)
             key == Kind(v.h5, config)
         IN  /\ Good(w) /\ Same(v, w) /\ w.key = key
             /\ \A k \in Kinds : k # v.key /\ (k # key \/ v.levels[k] # Nothing) => w.levels[k] = v.levels[k]
             /\ key # v.key /\ v.levels[key] # Nothing =>
                  w.fast = v.levels[key][1] /\ w.deep = v.levels[key][2]
             /\ v.key.h5 = v.h5 /\ key # v.key => w.levels[v.key] = <<v.fast, v.deep>>
             /\ v.key.h5 # v.h5 => \A k \in Kinds : k # key => w.levels[k] = v.levels[k]
             /\ key = v.key => w = v
<1> DEFINE key == Kind(v.h5, config)
           kept == Remember(v)
           default == IF key = LiveOff THEN <<v.fast, v.deep>> ELSE <<Default(key), Default(key)>>
           levels == IF kept.levels[key] = Nothing THEN default ELSE kept.levels[key]
           w == [kept EXCEPT !.fast = levels[1], !.deep = levels[2], !.key = key, !.levels[key] = levels]
<1>1. CASE key = v.key
  BY <1>1 DEF Style, Same
<1>2. CASE key # v.key
  <2>1. Style(v, config) = w
    BY <1>2 DEF Style
  <2>2. /\ Good(kept) /\ Same(v, kept) /\ kept.fast = v.fast /\ kept.deep = v.deep /\ kept.key = v.key
        /\ \A k \in Kinds : k # v.key => kept.levels[k] = v.levels[k]
        /\ v.key.h5 = v.h5 => kept.levels[v.key] = <<v.fast, v.deep>>
        /\ v.key.h5 # v.h5 => kept = v
    BY RememberIs
  <2>3. key \in Kinds /\ key.h5 = v.h5 /\ v.h5 \in BOOLEAN
    BY KindIs DEF Good, IsViewer
  <2> HIDE DEF kept, key
  <2>4. levels \in Pairs /\ Suits(kept, levels[1], key) /\ Suits(kept, levels[2], key)
    <3>1. CASE kept.levels[key] = Nothing
      <4>1. key # LiveOff
        BY <2>2, <3>1 DEF Good, Remembered
      <4>2. levels = <<Default(key), Default(key)>>
        BY <3>1, <4>1
      <4> QED
        <5> DEFINE d == Default(key)
        <5>1. d \in Scale /\ d.of = key
          BY <2>3, KindIs
        <5> HIDE DEF d
        <5> QED
          BY <4>2, <5>1 DEF Pairs, d, Suits
    <3>2. CASE kept.levels[key] # Nothing
      BY <2>2, <2>3, <3>2 DEF Good, Remembered, IsViewer
    <3> QED
      BY <3>1, <3>2
  <2>5. kept.levels[key] # Nothing => levels = kept.levels[key]
    OBVIOUS
  <2> HIDE DEF levels
  <2>6. levels[1] \in Scale /\ levels[2] \in Scale
    BY <2>4 DEF Pairs
  <2>7. /\ Same(kept, w) /\ w.fast = levels[1] /\ w.deep = levels[2] /\ w.key = key
        /\ w.levels = [kept.levels EXCEPT ![key] = levels]
    BY <2>2 DEF Good, IsViewer, Same
  <2>8. IsViewer(w)
    <3>1. w.levels \in [Kinds -> Pairs \cup {Nothing}]
      BY <2>2, <2>4, <2>7 DEF Good, IsViewer
    <3> QED
      BY <2>2, <2>3, <2>6, <2>7, <3>1 DEF Good, IsViewer
  <2> HIDE DEF w
  <2>9. kept.levels \in [Kinds -> Pairs \cup {Nothing}]
    BY <2>2 DEF Good, IsViewer
  <2>10. Remembered(w)
    <3>1. w.levels[LiveOff] # Nothing
      <4>1. w.levels[LiveOff] = kept.levels[LiveOff] \/ w.levels[LiveOff] = levels
        BY <2>3, <2>7, <2>9, KindIs
      <4>2. kept.levels[LiveOff] # Nothing /\ levels # Nothing
        BY <2>2, <2>4, NothingIs DEF Good, Remembered
      <4> QED
        BY <4>1, <4>2
    <3>2. ASSUME NEW k \in Kinds, w.levels[k] # Nothing
          PROVE  Suits(w, w.levels[k][1], k) /\ Suits(w, w.levels[k][2], k)
      <4>1. CASE k = key
        <5>1. w.levels[k] = levels
          BY <2>3, <2>7, <2>9, <4>1
        <5> QED
          BY <2>4, <2>7, <4>1, <5>1, SuitsStays DEF Same
      <4>2. CASE k # key
        <5>1. w.levels[k] = kept.levels[k]
          BY <2>7, <2>9, <4>2
        <5>2. Suits(kept, kept.levels[k][1], k) /\ Suits(kept, kept.levels[k][2], k)
          BY <2>2, <3>2, <5>1 DEF Good, Remembered
        <5> QED
          BY <2>7, <5>1, <5>2, SuitsStays DEF Same
      <4> QED
        BY <4>1, <4>2
    <3> QED
      BY <3>1, <3>2 DEF Remembered
  <2>11. OfItsKind(w)
    BY <2>4, <2>7, SuitsStays DEF OfItsKind, Same
  <2>12. Same(v, w)
    BY <2>2, <2>7 DEF Same
  <2>13. \A k \in Kinds : k # key => w.levels[k] = kept.levels[k]
    BY <2>7, <2>9
  <2>14. w.levels[key] = levels
    BY <2>3, <2>7, <2>9
  <2> QED
    <3>1. \A k \in Kinds : k # v.key /\ (k # key \/ v.levels[k] # Nothing) => w.levels[k] = v.levels[k]
      BY <2>2, <2>5, <2>13, <2>14
    <3>2. v.levels[key] # Nothing => w.fast = v.levels[key][1] /\ w.deep = v.levels[key][2]
      BY <1>2, <2>2, <2>3, <2>5, <2>7
    <3>3. v.key \in Kinds
      BY DEF Good, IsViewer
    <3>4. v.key.h5 = v.h5 => w.levels[v.key] = <<v.fast, v.deep>>
      BY <1>2, <2>2, <2>13, <3>3
    <3>5. v.key.h5 # v.h5 => \A k \in Kinds : k # key => w.levels[k] = v.levels[k]
      BY <2>2, <2>13
    <3> QED
      BY <1>2, <2>1, <2>7, <2>8, <2>10, <2>11, <2>12, <3>1, <3>2, <3>4, <3>5 DEF Good, key
<1> QED
  BY <1>1, <1>2

-----------------------------------------------------------------------------
\* Settings are of the live display, whose scales are clipped with rolling only.
Wellformed(k) == k.clip => k.on

LiveKept(x) ==
  /\ ~x.fast.of.h5 /\ ~x.deep.of.h5 /\ ~x.threshold.h5 /\ Wellformed(x.fast.of) /\ Wellformed(x.deep.of)

\* In the H5 mode the settings and the memory are those of the display that was
\* left, and what is drawn is what was loaded.
Visiting(v) ==
  LET key == Kind(FALSE, v.before.config) IN
  /\ v.saved \in Kept /\ v.before \in Left /\ v.settings = v.saved
  /\ v.before.fast = v.saved.fast /\ v.before.deep = v.saved.deep
  /\ v.before.link = v.saved.link /\ v.before.threshold = v.saved.threshold
  /\ Suits(v, v.saved.fast, key) /\ Suits(v, v.saved.deep, key)
  /\ v.levels[key] = <<v.saved.fast, v.saved.deep>>
  /\ IF v.key.h5 THEN v.data # Nothing /\ v.key = Kind(TRUE, v.data) ELSE v.key = key

Kindly(v) ==
  /\ Good(v) /\ Wellformed(v.key) /\ v.threshold.h5 = v.h5 /\ LiveKept(v.settings)
  /\ \A x \in v.carried : ~x.of.h5 /\ Wellformed(x.of)
  /\ v.h5 => Visiting(v)

ScalesIInv == acts \in Nat /\ Kindly(s)

LEMMA ViewerIs ==
  ASSUME NEW x \in Kept, LiveKept(x)
  PROVE  Kindly(Viewer(x)) /\ ~Viewer(x).h5
<1> DEFINE v == Viewer(x)
           other == IF x.link THEN x.fast ELSE x.deep
           linked == IF x.link THEN x.fast ELSE Nothing
           lev == [k \in Kinds |-> IF k = LiveOff THEN <<x.fast, other>> ELSE Nothing]
           carried == {y \in {x.fast, other} : y.of # LiveOff}
<1>1. /\ ~v.h5 /\ v.config = NoMode /\ v.data = Nothing /\ v.paused = FALSE /\ v.fast = x.fast /\ v.deep = other
      /\ v.link = x.link /\ v.linked = linked /\ v.key = LiveOff /\ v.levels = lev
      /\ v.threshold = x.threshold /\ v.saved = Nothing /\ v.before = Nothing /\ v.settings = x
      /\ v.carried = carried
  BY DEF Viewer
<1>2. /\ other \in Scale /\ x.fast \in Scale /\ linked \in Scale \cup {Nothing}
      /\ carried \in SUBSET Scale /\ other \in {x.fast, x.deep}
  BY DEF Kept
<1>fits. Suits(v, x.fast, LiveOff) /\ Suits(v, other, LiveOff)
  BY <1>1 DEF Suits
<1>carried. \A y \in v.carried : ~y.of.h5 /\ Wellformed(y.of)
  BY <1>1, <1>2 DEF LiveKept
<1>3. <<x.fast, other>> \in Pairs
  BY <1>2 DEF Pairs
<1> HIDE DEF other, linked, carried
<1>4. lev \in [Kinds -> Pairs \cup {Nothing}]
  BY <1>3
<1>5. IsViewer(v)
  BY <1>2, <1>4, KindIs DEF IsViewer, Viewer, Kept, other, linked, carried
<1>6. Remembered(v)
  <2>1. lev[LiveOff] = <<x.fast, other>> /\ \A k \in Kinds : k # LiveOff => lev[k] = Nothing
    BY KindIs
  <2> QED
    BY <1>1, <1>2, <1>3, <1>fits, <2>1, NothingIs DEF Remembered
<1>7. OfItsKind(v)
  BY <1>1, <1>2, <1>fits DEF OfItsKind
<1>8. Wellformed(LiveOff) /\ ~LiveOff.h5
  BY DEF Wellformed, LiveOff, Kind, NoMode
<1>9. LiveKept(v.settings) /\ v.threshold.h5 = v.h5
  <2>1. x.threshold.h5 = FALSE
    BY DEF LiveKept, Kept, Threshold
  <2>2. LiveKept(v.settings) /\ v.threshold = x.threshold /\ v.h5 = FALSE
    BY <1>1
  <2> QED
    BY <2>1, <2>2
<1>10. Wellformed(v.key)
  BY <1>1, <1>8
<1> HIDE DEF v
<1> QED
  BY <1>1, <1>5, <1>6, <1>7, <1>9, <1>10, <1>carried DEF Kindly, Good, v

LEMMA ScalesBegin == ScalesInit => ScalesIInv
<1>1. NoSettings \in Kept /\ LiveKept(NoSettings)
  BY KindIs DEF NoSettings, Kept, Threshold, LiveKept, Wellformed, LiveOff, Kind, NoMode
<1> QED
  BY <1>1, ViewerIs DEF ScalesInit, ScalesIInv

\* A draw, and what is styled, of the live display.
LEMMA LiveMoves ==
  ASSUME NEW v, Kindly(v), ~v.h5
  PROVE  /\ \A config \in Modes : Kindly(Style(v, config)) /\ Same(v, Style(v, config))
         /\ Kindly(RenderWaterfalls(v)) /\ Same(v, RenderWaterfalls(v))
         /\ Kindly(RenderScales(v)) /\ Same(v, RenderScales(v))
<1>1. ASSUME NEW w, Kindly(w), ~w.h5, NEW config \in Modes
      PROVE  Kindly(Style(w, config)) /\ Same(w, Style(w, config))
  <2>1. Good(Style(w, config)) /\ Same(w, Style(w, config)) /\ Style(w, config).key = Kind(w.h5, config)
    BY <1>1, StyleIs DEF Kindly
  <2>2. Wellformed(Style(w, config).key)
    BY <1>1, <2>1, KindIs DEF Wellformed, Kindly, Good, IsViewer
  <2> QED
    BY <1>1, <2>1, <2>2 DEF Kindly, Same
<1>2. Kindly(RenderWaterfalls(v)) /\ Same(v, RenderWaterfalls(v))
  <2>1. LET w == RenderWaterfalls(v) IN Good(w) /\ Same(v, w) /\ w.key = v.key
    BY RenderWaterfallsIs DEF Kindly
  <2> QED
    BY <2>1 DEF Kindly, Same
<1>3. Kindly(RenderScales(v)) /\ Same(v, RenderScales(v))
  <2> DEFINE w == RenderWaterfalls(v)
  <2>1. Kindly(w) /\ ~w.h5 /\ Same(v, w) /\ v.config \in Modes
    BY <1>2 DEF Same, Kindly, Good, IsViewer
  <2> HIDE DEF w
  <2>2. Kindly(Style(w, v.config)) /\ Same(w, Style(w, v.config))
    BY <1>1, <2>1
  <2>3. RenderScales(v) = IF v.paused THEN v ELSE Style(w, v.config)
    BY DEF RenderScales, w
  <2> QED
    BY <2>1, <2>2, <2>3 DEF Same
<1> QED
  BY <1>1, <1>2, <1>3

\* What moves the scales of one kind, and what is remembered of it.
LEMMA KindKept ==
  ASSUME NEW v, Kindly(v), NEW w, Good(w), Same(v, w), w.key = v.key,
         v.h5 => \A k \in Kinds : ~k.h5 => w.levels[k] = v.levels[k]
  PROVE  Kindly(w)
<1>1. ASSUME v.h5 PROVE Visiting(w)
  <2>1. v.before \in Left /\ v.before.config \in Modes
    BY <1>1 DEF Kindly, Visiting, Left
  <2>2. Kind(FALSE, v.before.config) \in Kinds /\ ~Kind(FALSE, v.before.config).h5
    BY <2>1, KindIs
  <2>3. \A x, k : Suits(v, x, k) <=> Suits(w, x, k)
    BY SuitsStays DEF Same
  <2> QED
    BY <1>1, <2>2, <2>3, ZenonT(60) DEF Kindly, Visiting, Same
<1> QED
  BY <1>1 DEF Kindly, Same

LEMMA DisplayedIs ==
  ASSUME NEW v, Kindly(v)
  PROVE  Displayed(v) \in Kinds /\ (v.h5 /\ v.key.h5 => v.key = Displayed(v))
<1>1. v.h5 \in BOOLEAN /\ v.config \in Modes /\ v.data \in Modes \cup {Nothing} /\ v.key \in Kinds
  BY DEF Kindly, Good, IsViewer
<1>2. Displayed(v) \in Kinds
  BY <1>1, KindIs DEF Displayed
<1> QED
  BY <1>2 DEF Kindly, Visiting, Displayed

LEMMA DragKept ==
  ASSUME NEW v, Kindly(v), v.h5 \/ v.key = Displayed(v), NEW n \in Nat,
         NEW w, LET x == [of |-> Displayed(v), n |-> n]
                IN  \/ w = Remember(LinkPowerFrom([v EXCEPT !.fast = x], x))
                    \/ w = Remember(LinkPowerFrom([v EXCEPT !.deep = x], x))
  PROVE  Kindly(w) /\ Same(v, w)
<1> DEFINE x == [of |-> Displayed(v), n |-> n]
<1>1. x \in Scale /\ (v.key.h5 = v.h5 => x.of = v.key)
  BY DisplayedIs DEF Scale
<1>fits. v.key.h5 = v.h5 => Suits(v, x, v.key)
  BY <1>1 DEF Suits
<1>2. PICK u \in {[v EXCEPT !.fast = x], [v EXCEPT !.deep = x]} : w = Remember(LinkPowerFrom(u, x))
  OBVIOUS
<1> HIDE DEF x
<1>3. Same(v, u) /\ u.key = v.key /\ u.levels = v.levels
  BY DEF Same, Kindly, Good, IsViewer
<1>4. Good(u)
  <2>1. IsViewer(u)
    BY <1>1 DEF Kindly, Good, IsViewer
  <2>2. u.fast \in {v.fast, x} /\ u.deep \in {v.deep, x}
    BY DEF Kindly, Good, IsViewer
  <2>3. OfItsKind(u)
    BY <1>3, <1>fits, <2>2, SuitsStays DEF Kindly, Good, OfItsKind, Same
  <2>4. Remembered(u)
    BY <1>3, SuitsStays DEF Kindly, Good, Remembered, Same
  <2> QED
    BY <2>1, <2>3, <2>4 DEF Good
<1> DEFINE l == LinkPowerFrom(u, x)
<1>5. Good(l) /\ Same(u, l) /\ l.key = u.key /\ l.levels = u.levels
  <2>1. u.key.h5 = u.h5 => Suits(u, x, u.key)
    BY <1>3, <1>fits, SuitsStays DEF Same
  <2>2. ~u.link => l = u
    BY <1>1, <1>4, <2>1, LinkIs
  <2> QED
    BY <1>1, <1>4, <2>1, LinkIs
<1> HIDE DEF l
<1>6. /\ Good(w) /\ Same(l, w) /\ w.key = l.key
      /\ \A k \in Kinds : k # l.key => w.levels[k] = l.levels[k]
      /\ l.key.h5 # l.h5 => w = l
  BY <1>2, <1>5, RememberIs DEF l
<1>7. Same(v, w) /\ w.key = v.key
  BY <1>3, <1>5, <1>6 DEF Same
<1>8. v.h5 => \A k \in Kinds : ~k.h5 => w.levels[k] = v.levels[k]
  <2>1. v.h5 \in BOOLEAN /\ v.key \in Kinds /\ v.key.h5 \in BOOLEAN
    BY DEF Kindly, Good, IsViewer, Kinds
  <2>2. l.key = v.key /\ l.h5 = v.h5 /\ l.levels = v.levels
    BY <1>3, <1>5 DEF Same
  <2>3. CASE ~v.key.h5 /\ v.h5
    BY <1>6, <2>1, <2>2, <2>3
  <2>4. CASE v.key.h5
    BY <1>6, <2>1, <2>2, <2>4
  <2> QED
    BY <2>1, <2>3, <2>4
<1> QED
  BY <1>6, <1>7, <1>8, KindKept

LEMMA ChangeKept ==
  ASSUME NEW v, Kindly(v), v.h5 \/ v.key = Displayed(v), NEW config \in Modes
  PROVE  LET changed == [Remember(v) EXCEPT !.config = config]
         IN  /\ Kindly(changed) /\ changed.h5 = v.h5
<1> DEFINE m == Remember(v)
           w == [m EXCEPT !.config = config]
<1>1. /\ Good(m) /\ Same(v, m) /\ m.key = v.key
      /\ \A k \in Kinds : k # v.key => m.levels[k] = v.levels[k]
      /\ v.key.h5 # v.h5 => m = v
  BY RememberIs DEF Kindly
<1>2. v.h5 => \A k \in Kinds : ~k.h5 => m.levels[k] = v.levels[k]
  BY <1>1
<1>3. Kindly(m)
  BY <1>1, <1>2, KindKept
<1> HIDE DEF m
<1>4. /\ w.h5 = m.h5 /\ w.data = m.data /\ w.paused = m.paused /\ w.link = m.link
      /\ w.threshold = m.threshold /\ w.saved = m.saved /\ w.before = m.before /\ w.settings = m.settings
      /\ w.fast = m.fast /\ w.deep = m.deep /\ w.key = m.key /\ w.levels = m.levels
      /\ w.carried = m.carried
  BY <1>1 DEF Good, IsViewer
<1>5. IsViewer(w)
  BY <1>1 DEF Good, IsViewer
<1>6. Remembered(w) /\ OfItsKind(w)
  BY <1>1, <1>4, SuitsStays DEF Good, Remembered, OfItsKind
<1> HIDE DEF w
<1>stays. \A x, k : Suits(m, x, k) <=> Suits(w, x, k)
  BY <1>4, SuitsStays
<1>7. Kindly(w)
  BY <1>3, <1>4, <1>5, <1>6, <1>stays, ZenonT(60) DEF Kindly, Good, Visiting
<1> QED
  BY <1>1, <1>4, <1>7 DEF w, m, Same

-----------------------------------------------------------------------------
\* The visits.

LEMMA LoadKept ==
  ASSUME NEW v, Kindly(v), v.h5
  PROVE  Kindly(Style([v EXCEPT !.data = v.config], v.config))
<1> DEFINE u == [v EXCEPT !.data = v.config]
           w == Style(u, v.config)
           key == Kind(TRUE, v.config)
<1>1. v.config \in Modes /\ v.h5 = TRUE
  BY DEF Kindly, Good, IsViewer
<1>2. /\ u.h5 = v.h5 /\ u.config = v.config /\ u.data = v.config /\ u.link = v.link
      /\ u.threshold = v.threshold /\ u.saved = v.saved /\ u.before = v.before /\ u.settings = v.settings
      /\ u.fast = v.fast /\ u.deep = v.deep /\ u.key = v.key /\ u.levels = v.levels
      /\ u.carried = v.carried
  BY DEF Kindly, Good, IsViewer
<1>3. Good(u)
  <2>1. IsViewer(u)
    BY <1>1 DEF Kindly, Good, IsViewer
  <2>2. Remembered(v) /\ OfItsKind(v)
    BY DEF Kindly, Good
  <2>3. \A x, k : Suits(v, x, k) <=> Suits(u, x, k)
    BY <1>2, SuitsStays
  <2>4. Remembered(u)
    BY <1>2, <2>2, <2>3 DEF Remembered
  <2>5. OfItsKind(u)
    BY <1>2, <2>2, <2>3 DEF OfItsKind
  <2> QED
    BY <2>1, <2>4, <2>5 DEF Good
<1> HIDE DEF u
<1>4. /\ Good(w) /\ Same(u, w) /\ w.key = key
      /\ \A k \in Kinds : k # u.key /\ (k # key \/ u.levels[k] # Nothing) => w.levels[k] = u.levels[k]
      /\ u.key.h5 # u.h5 => \A k \in Kinds : k # key => w.levels[k] = u.levels[k]
  <2>1. key = Kind(u.h5, v.config)
    BY <1>1, <1>2
  <2> HIDE DEF key
  <2> QED
    BY <1>1, <1>3, <2>1, StyleIs
<1> HIDE DEF w
<1>5. key \in Kinds /\ key.h5 = TRUE /\ (key.clip => key.on) /\ v.config # Nothing
  BY <1>1, KindIs, NothingIs
<1>6. Visiting(w)
  <2> DEFINE old == Kind(FALSE, v.before.config)
  <2>1. old \in Kinds /\ old.h5 = FALSE
    BY KindIs DEF Kindly, Visiting, Left
  <2>2. w.levels[old] = v.levels[old]
    <3>1. old # key
      BY <1>5, <2>1
    <3>2. CASE v.key.h5 = TRUE
      BY <1>2, <1>4, <2>1, <3>1, <3>2
    <3>3. CASE v.key.h5 # TRUE
      BY <1>1, <1>2, <1>4, <2>1, <3>1, <3>3
    <3> QED
      BY <3>2, <3>3
  <2> HIDE DEF old, key
  <2>3. w.key.h5 /\ w.data # Nothing
    BY <1>2, <1>4, <1>5 DEF Same
  <2>4. w.key = Kind(TRUE, w.data)
    BY <1>2, <1>4 DEF Same, key
  <2> QED
    <3>1. Visiting(v)
      BY DEF Kindly
    <3>2. w.before = v.before /\ w.saved = v.saved /\ w.settings = v.settings /\ w.carried = v.carried
      BY <1>2, <1>4 DEF Same
    <3> QED
      BY <2>2, <2>3, <2>4, <3>1, <3>2, SuitsStays, ZenonT(60) DEF Visiting, old
<1> HIDE DEF key
<1> QED
  BY <1>2, <1>4, <1>5, <1>6, ZenonT(60) DEF Kindly, Same, Wellformed, w, u

LEMMA EnterKept ==
  ASSUME NEW v, Kindly(v), ~v.h5, v.key = Displayed(v),
         NEW w,
         LET left  == SaveSettings(Remember(v))
             same  == v.data = v.config
             begun == [left EXCEPT
               !.saved = [fast |-> v.fast, deep |-> v.deep, link |-> v.link, threshold |-> v.threshold],
               !.before = [config |-> v.config, fast |-> v.fast, deep |-> v.deep,
                           link |-> v.link, threshold |-> v.threshold],
               !.h5 = TRUE, !.link = FALSE, !.threshold = [h5 |-> TRUE, n |-> 0],
               !.fast = Default(Kind(TRUE, NoMode)), !.deep = Default(Kind(TRUE, NoMode)),
               !.data = IF same THEN @ ELSE Nothing]
         IN  w = IF same THEN Style(begun, v.data) ELSE begun
  PROVE  Kindly(w)
<1> DEFINE m == Remember(v)
           left == SaveSettings(m)
           same == v.data = v.config
           kept == [fast |-> v.fast, deep |-> v.deep, link |-> v.link, threshold |-> v.threshold]
           before == [config |-> v.config, fast |-> v.fast, deep |-> v.deep,
                      link |-> v.link, threshold |-> v.threshold]
           scale == Default(Kind(TRUE, NoMode))
           data == IF same THEN left.data ELSE Nothing
           begun == [left EXCEPT !.saved = kept, !.before = before,
                       !.h5 = TRUE, !.link = FALSE, !.threshold = [h5 |-> TRUE, n |-> 0],
                       !.fast = scale, !.deep = scale, !.data = data]
           key == Kind(FALSE, v.config)
<1>1. /\ v.config \in Modes /\ v.h5 = FALSE /\ v.key = key /\ key \in Kinds /\ key.h5 = FALSE
      /\ v.threshold \in Threshold /\ v.fast \in Scale /\ v.deep \in Scale /\ v.link \in BOOLEAN
      /\ Suits(v, v.fast, key) /\ Suits(v, v.deep, key) /\ v.threshold.h5 = FALSE /\ Wellformed(key)
      /\ v.data \in Modes \cup {Nothing}
  BY KindIs, ZenonT(60) DEF Kindly, Good, IsViewer, Displayed, OfItsKind
<1>2. /\ Good(m) /\ Same(v, m) /\ m.fast = v.fast /\ m.deep = v.deep /\ m.key = v.key
      /\ m.levels[key] = <<v.fast, v.deep>>
  BY <1>1, RememberIs DEF Kindly
<1> HIDE DEF m
<1>live. ~v.fast.of.h5 /\ ~v.deep.of.h5 /\ Wellformed(v.fast.of) /\ Wellformed(v.deep.of)
  BY <1>1 DEF Kindly, Suits
<1>3. kept \in Kept /\ before \in Left /\ LiveKept(kept)
  BY <1>1, <1>live DEF Kept, Left, LiveKept
<1>4. /\ left = [m EXCEPT !.settings = kept]
  BY <1>2 DEF SaveSettings, Same
<1>5. scale \in Scale /\ scale.of = Kind(TRUE, NoMode) /\ data = (IF same THEN v.data ELSE Nothing)
      /\ data \in Modes \cup {Nothing}
  <2>1. left.data = v.data
    BY <1>2, <1>4 DEF Good, IsViewer, Same
  <2> QED
    BY <1>1, <2>1, KindIs
<1> HIDE DEF scale, kept, before, data, left
<1>6. /\ begun.h5 = TRUE /\ begun.key = key /\ begun.levels = m.levels /\ begun.saved = kept
      /\ begun.before = before /\ begun.settings = kept /\ begun.data = data
      /\ begun.threshold = [h5 |-> TRUE, n |-> 0] /\ begun.config = v.config
      /\ begun.carried = v.carried
  BY <1>1, <1>2, <1>4 DEF Good, IsViewer, Same
<1>7. IsViewer(begun)
  <2>1. scale \in Scale /\ data \in Modes \cup {Nothing}
    BY <1>5
  <2>2. left \in [h5 : BOOLEAN, config : Modes, data : Modes \cup {Nothing}, paused : BOOLEAN,
         fast : Scale, deep : Scale, link : BOOLEAN, linked : Scale \cup {Nothing}, key : Kinds,
         levels : [Kinds -> Pairs \cup {Nothing}], threshold : Threshold,
         saved : Kept \cup {Nothing}, before : Left \cup {Nothing}, settings : Kept,
         carried : SUBSET Scale]
    BY <1>2, <1>3, <1>4 DEF Good, IsViewer
  <2>3. [h5 |-> TRUE, n |-> 0] \in Threshold
    BY DEF Threshold
  <2> QED
    BY <1>3, <2>1, <2>2, <2>3 DEF IsViewer
<1> HIDE DEF begun
<1>8. Good(begun)
  <2>1. m.carried = begun.carried
    BY <1>2, <1>6 DEF Same
  <2> QED
    BY <1>1, <1>2, <1>6, <1>7, <2>1, SuitsStays DEF Good, Remembered, OfItsKind
<1>9. /\ kept.fast = v.fast /\ kept.deep = v.deep /\ kept.link = v.link /\ kept.threshold = v.threshold
      /\ before.fast = v.fast /\ before.deep = v.deep /\ before.link = v.link
      /\ before.threshold = v.threshold /\ before.config = v.config
  BY DEF kept, before
<1>10. Kindly(begun)
  <2>1. Visiting(begun)
    BY <1>1, <1>2, <1>3, <1>6, <1>9, SuitsStays DEF Visiting
  <2>2. begun.threshold.h5 = begun.h5
    <3>1. [h5 |-> TRUE, n |-> 0].h5 = TRUE
      OBVIOUS
    <3> QED
      BY ONLY <1>6, <3>1
  <2> QED
    BY <1>1, <1>3, <1>6, <1>8, <2>1, <2>2 DEF Kindly
<1>11. CASE ~same
  <2>1. w = begun
    BY <1>11 DEF begun, left, m, kept, before, scale, data
  <2> QED
    BY <1>10, <2>1
<1>12. CASE same
  <2>1. w = Style(begun, v.config)
    BY <1>12 DEF begun, left, m, kept, before, scale, data
  <2>2. [begun EXCEPT !.data = begun.config] = begun
    BY <1>5, <1>6, <1>7, <1>12 DEF IsViewer
  <2> QED
    BY <1>6, <1>10, <2>1, <2>2, LoadKept
<1> QED
  BY <1>11, <1>12

\* The display that comes back: its scales, before and after it is drawn.
LEMMA LeaveKept ==
  ASSUME NEW v, Kindly(v), v.h5
  PROVE  LET w == RenderWaterfalls(RenderScales(Restored(v)))
         IN  /\ Kindly(w) /\ ~w.h5 /\ w.config = v.config
             /\ w.link = v.before.link /\ w.threshold = v.before.threshold
             /\ v.config = v.before.config =>
                  IF w.link THEN w.fast = w.deep /\ w.fast \in {v.before.fast, v.before.deep}
                  ELSE w.fast = v.before.fast /\ w.deep = v.before.deep
<1> DEFINE m == Remember(v)
           r == Restored(v)
           a == RenderWaterfalls(r)
           b == Style(a, v.config)
           u == RenderScales(r)
           w == RenderWaterfalls(u)
           old == Kind(FALSE, v.before.config)
           pair == <<v.before.fast, v.before.deep>>
<1>0. /\ v.h5 = TRUE /\ v.config \in Modes /\ v.key \in Kinds /\ v.key.h5 \in BOOLEAN
      /\ Visiting(v) /\ v.saved \in Kept /\ v.before \in Left /\ old \in Kinds /\ old.h5 = FALSE
      /\ LiveKept(v.saved) /\ v.saved.threshold.h5 = FALSE /\ Good(v) /\ Wellformed(v.key)
  <2>1. v.h5 = TRUE /\ v.config \in Modes /\ v.key \in Kinds /\ v.key.h5 \in BOOLEAN
    BY DEF Kindly, Good, IsViewer, Kinds
  <2>2. Visiting(v) /\ v.saved \in Kept /\ v.before \in Left /\ LiveKept(v.saved) /\ Good(v) /\ Wellformed(v.key)
    BY DEF Kindly, Visiting
  <2>3. v.saved.threshold.h5 = FALSE
    BY <2>2 DEF LiveKept, Kept, Threshold
  <2>4. old \in Kinds /\ old.h5 = FALSE
    BY <2>2, KindIs DEF Left
  <2> QED
    BY <2>1, <2>2, <2>3, <2>4
<1>1. /\ Good(m) /\ Same(v, m) /\ m.key = v.key /\ m.levels[old] = pair
  <2>1. /\ Good(m) /\ Same(v, m) /\ m.key = v.key
        /\ \A k \in Kinds : k # v.key => m.levels[k] = v.levels[k]
        /\ v.key.h5 # v.h5 => m = v
    BY <1>0, RememberIs
  <2>2. v.levels[old] = pair
    BY <1>0 DEF Visiting
  <2>3. m.levels[old] = v.levels[old]
    <3>1. CASE v.key.h5 = TRUE
      BY <1>0, <2>1, <3>1
    <3>2. CASE v.key.h5 = FALSE
      BY <1>0, <2>1, <3>2
    <3> QED
      BY <1>0, <3>1, <3>2
  <2> QED
    BY <2>1, <2>2, <2>3
<1> HIDE DEF m, old, pair
<1>2. /\ r.h5 = FALSE /\ r.config = v.config /\ r.saved = Nothing /\ r.link = v.before.link
      /\ r.threshold = v.before.threshold /\ r.fast = v.before.fast /\ r.deep = v.before.deep
      /\ r.key = v.key /\ r.levels = m.levels /\ r.settings = v.settings /\ r.paused = v.paused
      /\ r.carried = v.carried /\ m.carried = v.carried
  BY <1>0, <1>1 DEF Restored, m, Good, IsViewer, Same, Visiting
<1>3. Good(r) /\ Kindly(r)
  <2>1. IsViewer(r)
    BY <1>0, <1>1 DEF Restored, m, Good, IsViewer, Kept
  <2>2. OfItsKind(r)
    <3>1. Suits(v, v.before.fast, old) /\ Suits(v, v.before.deep, old)
      BY <1>0 DEF Visiting, old
    <3>2. v.key.h5 = FALSE => v.key = old
      BY <1>0 DEF Visiting, old
    <3>3. \A x, k : Suits(v, x, k) <=> Suits(r, x, k)
      BY <1>2, SuitsStays
    <3> QED
      BY <1>2, <3>1, <3>2, <3>3 DEF OfItsKind
  <2>3. Good(r)
    BY <1>1, <1>2, <2>1, <2>2, SuitsStays DEF Good, Remembered
  <2>4. v.before.threshold.h5 = FALSE
    BY <1>0 DEF Visiting
  <2>5. LiveKept(r.settings)
    BY <1>0, <1>2 DEF Visiting
  <2> HIDE DEF r
  <2> QED
    BY <1>0, <1>2, <2>3, <2>4, <2>5 DEF Kindly
<1> HIDE DEF r
<1>4. /\ Kindly(a) /\ Same(r, a) /\ Good(a) /\ a.key = r.key /\ a.levels = r.levels /\ a.h5 = FALSE
      /\ a.link => a.fast = a.deep /\ a.fast \in {v.before.fast, v.before.deep}
      /\ ~a.link => a = r
  <2>1. Kindly(a) /\ Same(r, a)
    BY <1>2, <1>3, LiveMoves
  <2>2. /\ Good(a) /\ a.key = r.key /\ a.levels = r.levels
        /\ r.link /\ ~r.h5 => a.fast = a.deep /\ a.fast \in {r.fast, r.deep}
        /\ ~r.link \/ r.h5 => a = r
    BY <1>3, RenderWaterfallsIs
  <2> QED
    BY <1>2, <2>1, <2>2 DEF Same
<1>5. u = IF v.paused THEN r ELSE b
  BY <1>2 DEF RenderScales
<1>6. /\ Kindly(u) /\ Same(r, u)
  BY <1>2, <1>3, LiveMoves
<1>7. Kindly(w) /\ Same(u, w)
  <2>1. ~u.h5
    BY <1>2, <1>6 DEF Same
  <2> QED
    BY <1>6, <2>1, LiveMoves
<1>8. /\ w.h5 = FALSE /\ w.config = v.config /\ w.link = v.before.link /\ w.threshold = v.before.threshold
      /\ u.link = v.before.link /\ u.h5 = FALSE
  BY <1>2, <1>6, <1>7 DEF Same
<1>9. /\ w.link => w.fast = w.deep /\ w.fast \in {u.fast, u.deep}
      /\ ~w.link => w.fast = u.fast /\ w.deep = u.deep
  BY <1>6, <1>8, RenderWaterfallsIs DEF Kindly
<1>10. ASSUME v.config = v.before.config
       PROVE  /\ w.link => {u.fast, u.deep} \subseteq {v.before.fast, v.before.deep}
              /\ ~w.link => u.fast = v.before.fast /\ u.deep = v.before.deep
  <2>1. CASE v.paused
    BY <1>2, <1>5, <2>1
  <2>2. CASE ~v.paused
    <3>1. u = b /\ a.link = w.link /\ Kind(a.h5, v.config) = old
      BY <1>2, <1>4, <1>5, <1>8, <1>10, <2>2 DEF Same, old
    <3>2. /\ old # a.key /\ a.levels[old] # Nothing => b.fast = a.levels[old][1] /\ b.deep = a.levels[old][2]
          /\ old = a.key => b = a
      BY <1>0, <1>4, <3>1, StyleIs
    <3> HIDE DEF a, b, u, w
    <3>3. CASE old = a.key
      BY <1>2, <1>4, <3>1, <3>2, <3>3
    <3>4. CASE old # a.key
      <4>1. a.levels[old] = pair /\ pair[1] = v.before.fast /\ pair[2] = v.before.deep
        BY <1>1, <1>2, <1>4 DEF pair
      <4>2. pair # Nothing
        <5>1. pair \in Pairs
          BY <1>0 DEF pair, Left, Pairs
        <5> QED
          BY <5>1, NothingIs
      <4> QED
        BY <3>1, <3>2, <3>4, <4>1, <4>2
    <3> QED
      BY <3>3, <3>4
  <2> QED
    BY <2>1, <2>2
<1> HIDE DEF u
<1> QED
  BY <1>7, <1>8, <1>9, <1>10 DEF u, r

-----------------------------------------------------------------------------
LEMMA RestartKept ==
  ASSUME NEW v, Kindly(v), v.h5 \/ v.key = Displayed(v)
  PROVE  LET settings == Closed(v).settings
         IN  /\ Kindly(Viewer(settings)) /\ ~Viewer(settings).h5
             /\ v.h5 => settings = v.saved
<1> DEFINE x == Closed(v).settings
<1>1. x \in Kept /\ LiveKept(x) /\ (v.h5 => x = v.saved)
  <2>1. CASE v.h5
    BY <2>1 DEF Closed, Kindly, Visiting
  <2>2. CASE ~v.h5
    <3> DEFINE y == [fast |-> v.fast, deep |-> v.deep, link |-> v.link, threshold |-> v.threshold]
    <3>1. x = y
      BY <2>2 DEF Closed, SaveSettings, Kindly, Good, IsViewer
    <3>2. y \in Kept
      BY DEF Kindly, Good, IsViewer, Kept
    <3>3. v.h5 = FALSE /\ v.key = Kind(FALSE, v.config) /\ v.config \in Modes
      BY <2>2 DEF Displayed, Kindly, Good, IsViewer
    <3>4. Suits(v, v.fast, v.key) /\ Suits(v, v.deep, v.key) /\ ~v.key.h5 /\ Wellformed(v.key)
      BY <3>3, KindIs DEF Kindly, Good, OfItsKind
    <3>5. ~v.fast.of.h5 /\ ~v.deep.of.h5 /\ Wellformed(v.fast.of) /\ Wellformed(v.deep.of)
      BY <3>4 DEF Kindly, Suits
    <3>6. ~v.threshold.h5
      BY <2>2 DEF Kindly
    <3> QED
      BY <2>2, <3>1, <3>2, <3>5, <3>6 DEF LiveKept
  <2> QED
    BY <2>1, <2>2
<1> HIDE DEF x
<1> QED
  BY <1>1, ViewerIs DEF x

\* The invariant, and what a step makes of a visit.
LEMMA ScalesStep ==
  ASSUME ScalesAssumption, ScalesIInv, [ScalesNext]_scalesVars
  PROVE  ScalesIInv' /\ VisitLeavesNoTrace
<1> DEFINE Kept2 == Kindly(s') /\ VisitLeavesNoTrace
<1>1. Kindly(s) /\ s.h5 \in BOOLEAN /\ s.config \in Modes
  BY DEF ScalesIInv, Kindly, Good, IsViewer
<1>2. acts' \in Nat
  BY DEF ScalesIInv, ScalesNext, Act, Drag, ToggleLink, SetThreshold, TogglePause, Change, Load, Enter,
         Leave, StylePulse, Frame, Restart, scalesVars
<1>3. ASSUME Drag PROVE Kept2
  <2>1. PICK n \in Picks :
          LET x == [of |-> Displayed(s), n |-> n]
          IN  \/ s' = Remember(LinkPowerFrom([s EXCEPT !.fast = x], x))
              \/ s' = Remember(LinkPowerFrom([s EXCEPT !.deep = x], x))
    BY <1>3 DEF Drag, Do
  <2>2. n \in Nat /\ (s.h5 \/ s.key = Displayed(s))
    BY <1>3 DEF ScalesAssumption, Drag, Styled
  <2>3. Kindly(s') /\ Same(s, s')
    BY <1>1, <2>1, <2>2, DragKept
  <2> QED
    BY <2>3 DEF Same, VisitLeavesNoTrace
<1>4. ASSUME ToggleLink PROVE Kept2
  <2> DEFINE u == [s EXCEPT !.link = ~s.link]
  <2>1. ~s.h5 /\ s.key = Displayed(s) /\ s' = LinkPowerFrom(u, s.fast)
    BY <1>4 DEF ToggleLink, Styled, Do
  <2>2. /\ u.h5 = s.h5 /\ u.key = s.key /\ u.levels = s.levels /\ u.fast = s.fast /\ u.deep = s.deep
        /\ u.settings = s.settings /\ u.threshold = s.threshold /\ u.carried = s.carried
    BY <1>1 DEF Kindly, Good, IsViewer
  <2>3. IsViewer(u) /\ s.fast \in Scale
    BY <1>1 DEF Kindly, Good, IsViewer
  <2> HIDE DEF u
  <2>4. Kindly(u)
    BY <1>1, <2>1, <2>2, <2>3, SuitsStays DEF Kindly, Good, Remembered, OfItsKind
  <2>5. s.key.h5 = s.h5 => Suits(s, s.fast, s.key)
    BY <1>1 DEF Kindly, Good, OfItsKind
  <2>6. Good(s') /\ Same(u, s') /\ s'.key = u.key /\ s'.levels = u.levels
    <3>1. Good(u) /\ (u.key.h5 = u.h5 => Suits(u, s.fast, u.key))
      BY <2>2, <2>4, <2>5, SuitsStays DEF Kindly
    <3> QED
      BY <2>1, <2>3, <3>1, LinkIs
  <2>7. Kindly(s')
    BY <2>4, <2>6, KindKept
  <2> QED
    BY <2>1, <2>7 DEF VisitLeavesNoTrace
<1>5. ASSUME SetThreshold PROVE Kept2
  <2>1. PICK n \in Picks : s' = [s EXCEPT !.threshold = [h5 |-> s.h5, n |-> n]]
    BY <1>5 DEF SetThreshold, Do
  <2> DEFINE t == [h5 |-> s.h5, n |-> n]
  <2>2. t \in Threshold /\ t.h5 = s.h5
    BY <1>1 DEF ScalesAssumption, Threshold
  <2> HIDE DEF t
  <2>3. s' = [s EXCEPT !.threshold = t]
    BY <2>1 DEF t
  <2>4. /\ s'.h5 = s.h5 /\ s'.key = s.key /\ s'.levels = s.levels /\ s'.fast = s.fast /\ s'.deep = s.deep
        /\ s'.settings = s.settings /\ s'.threshold = t /\ s'.saved = s.saved /\ s'.before = s.before
        /\ s'.data = s.data /\ s'.carried = s.carried
    BY <1>1, <2>3 DEF Kindly, Good, IsViewer
  <2>5. IsViewer(s')
    BY <1>1, <2>2, <2>3 DEF Kindly, Good, IsViewer
  <2>stays. \A x, k : Suits(s, x, k) <=> Suits(s', x, k)
    BY <2>4, SuitsStays
  <2>6. Kindly(s')
    BY <1>1, <2>2, <2>4, <2>5, <2>stays, ZenonT(60) DEF Kindly, Good, Remembered, OfItsKind, Visiting
  <2> QED
    BY <2>4, <2>6 DEF VisitLeavesNoTrace
<1>6. ASSUME TogglePause PROVE Kept2
  <2> DEFINE u == [s EXCEPT !.paused = ~s.paused]
  <2>1. ~s.h5 /\ s' = RenderScales(u)
    BY <1>6 DEF TogglePause, Do
  <2>2. /\ u.h5 = s.h5 /\ u.key = s.key /\ u.levels = s.levels /\ u.fast = s.fast /\ u.deep = s.deep
        /\ u.settings = s.settings /\ u.threshold = s.threshold /\ u.carried = s.carried
    BY <1>1 DEF Kindly, Good, IsViewer
  <2>3. IsViewer(u)
    BY <1>1 DEF Kindly, Good, IsViewer
  <2> HIDE DEF u
  <2>4. Kindly(u)
    BY <1>1, <2>1, <2>2, <2>3, SuitsStays DEF Kindly, Good, Remembered, OfItsKind
  <2> QED
    BY <2>1, <2>2, <2>4, LiveMoves DEF VisitLeavesNoTrace
<1>7. ASSUME Change PROVE Kept2
  <2>1. PICK config \in Modes :
          LET changed == [Remember(s) EXCEPT !.config = config]
          IN  s' = IF s.h5 THEN changed ELSE RenderWaterfalls(Style(changed, config))
    BY <1>7 DEF Change, Do
  <2> DEFINE changed == [Remember(s) EXCEPT !.config = config]
  <2>2. Kindly(changed) /\ changed.h5 = s.h5
    BY <1>1, <1>7, ChangeKept DEF Change, Styled
  <2> HIDE DEF changed
  <2>3. s' = IF s.h5 THEN changed ELSE RenderWaterfalls(Style(changed, config))
    BY <2>1 DEF changed
  <2>4. CASE s.h5
    BY <2>2, <2>3, <2>4 DEF VisitLeavesNoTrace
  <2>5. CASE ~s.h5
    <3>1. Kindly(Style(changed, config)) /\ ~Style(changed, config).h5
      BY <2>2, <2>5, LiveMoves DEF Same
    <3>2. Kindly(s')
      BY <2>3, <2>5, <3>1, LiveMoves
    <3> QED
      BY <2>5, <3>2 DEF VisitLeavesNoTrace
  <2> QED
    BY <2>4, <2>5
<1>8. ASSUME Load PROVE Kept2
  <2>1. s.h5 /\ s' = Style([s EXCEPT !.data = s.config], s.config)
    BY <1>8 DEF Load, Do
  <2>2. Kindly(s')
    BY <1>1, <2>1, LoadKept
  <2>3. s'.h5 = s.h5
    <3> DEFINE u == [s EXCEPT !.data = s.config]
    <3>1. Good(u) /\ u.h5 = s.h5
      <4>1. /\ IsViewer(u) /\ u.h5 = s.h5 /\ u.key = s.key /\ u.levels = s.levels
            /\ u.fast = s.fast /\ u.deep = s.deep /\ u.carried = s.carried
        BY <1>1 DEF Kindly, Good, IsViewer
      <4> QED
        BY <1>1, <4>1, SuitsStays DEF Kindly, Good, Remembered, OfItsKind
    <3> HIDE DEF u
    <3>2. s' = Style(u, s.config)
      BY <2>1 DEF u
    <3>3. Same(u, s')
      BY <1>1, <3>1, <3>2, StyleIs
    <3> QED
      BY <3>1, <3>3 DEF Same
  <2> QED
    BY <2>1, <2>2, <2>3 DEF VisitLeavesNoTrace
<1>9. ASSUME Enter PROVE Kept2
  <2>1. ~s.h5
    BY <1>9 DEF Enter
  <2>2. Kindly(s')
    BY <1>1, <1>9, EnterKept DEF Enter, Styled, Do
  <2> QED
    BY <2>1, <2>2 DEF VisitLeavesNoTrace
<1>10. ASSUME Leave PROVE Kept2
  BY <1>1, <1>10, LeaveKept DEF Leave, Do, VisitLeavesNoTrace
<1>11. ASSUME StylePulse \/ Frame PROVE Kept2
  BY <1>1, <1>11, LiveMoves DEF StylePulse, Frame, Do, VisitLeavesNoTrace
<1>12. ASSUME Restart PROVE Kept2
  <2> DEFINE x == Closed(s).settings
  <2>1. (s.h5 \/ s.key = Displayed(s)) /\ s' = Viewer(x)
    BY <1>12 DEF Restart, Styled, Do
  <2>2. Kindly(Viewer(x)) /\ ~Viewer(x).h5 /\ (s.h5 => x = s.saved)
    BY <1>1, <2>1, RestartKept
  <2> HIDE DEF x
  <2>3. ASSUME s.h5
        PROVE  /\ s'.link = s.before.link /\ s'.threshold = s.before.threshold
               /\ s'.fast = s.before.fast /\ s'.deep = IF s'.link THEN s'.fast ELSE s.before.deep
    <3>1. Visiting(s)
      BY <1>1, <2>3 DEF Kindly
    <3>2. /\ s'.link = x.link /\ s'.threshold = x.threshold /\ s'.fast = x.fast
          /\ s'.deep = IF x.link THEN x.fast ELSE x.deep
      BY <2>1 DEF Viewer
    <3> QED
      BY <2>2, <2>3, <3>1, <3>2 DEF Visiting
  <2> QED
    BY <2>1, <2>2, <2>3 DEF VisitLeavesNoTrace
<1>13. ASSUME UNCHANGED scalesVars PROVE Kept2
  BY <1>1, <1>13 DEF scalesVars, VisitLeavesNoTrace
<1> HIDE DEF Kept2
<1>14. Kept2
  BY <1>3, <1>4, <1>5, <1>6, <1>7, <1>8, <1>9, <1>10, <1>11, <1>12, <1>13 DEF ScalesNext
<1> QED
  BY <1>2, <1>14 DEF ScalesIInv, Kept2

LEMMA ScalesSafe == ScalesIInv => ScalesKeepToKind
<1> SUFFICES ASSUME Kindly(s) PROVE ScalesKeepToKind
  BY DEF ScalesIInv
<1>1. ScalesAreOfKind
  <2>1. ASSUME s.key = Displayed(s) PROVE s.key.h5 = s.h5
    <3>1. s.h5 \in BOOLEAN /\ s.config \in Modes /\ s.data \in Modes \cup {Nothing}
      BY DEF Kindly, Good, IsViewer
    <3> QED
      BY <2>1, <3>1, KindIs DEF Displayed
  <2> QED
    BY <2>1 DEF ScalesAreOfKind, Kindly, Good, OfItsKind
<1>2. MemoryIsOfKind /\ SettingsAreOfLive
  BY DEF MemoryIsOfKind, SettingsAreOfLive, Kindly, Good, Remembered, LiveKept
<1> QED
  BY <1>1, <1>2 DEF ScalesKeepToKind

\* However a user moves between the live display, the H5 mode and the rolling
\* modes and starts again, a scale is used and remembered for its kind of display,
\* but for those that a restart carried over from a rolling mode to the live
\* display, and none of the H5 mode is saved.
THEOREM KindsApart ==
  ASSUME ScalesAssumption PROVE ScalesSpec => []ScalesKeepToKind
<1>1. ScalesInit => ScalesIInv
  BY ScalesBegin
<1>2. ScalesIInv /\ [ScalesNext]_scalesVars => ScalesIInv'
  BY ScalesStep
<1> QED
  BY <1>1, <1>2, ScalesSafe, PTL DEF ScalesSpec

\* A visit to the H5 mode changes nothing on the live display but, where a link
\* held two scales, which of them is the one.
THEOREM NoTrace ==
  ASSUME ScalesAssumption PROVE ScalesSpec => VisitsLeaveNoTrace
<1>1. ScalesInit => ScalesIInv
  BY ScalesBegin
<1>2. ScalesIInv /\ [ScalesNext]_scalesVars => ScalesIInv' /\ VisitLeavesNoTrace
  BY ScalesStep
<1> QED
  BY <1>1, <1>2, PTL DEF ScalesSpec, VisitsLeaveNoTrace

-----------------------------------------------------------------------------
(* The curves of the selected bin.                                         *)

\* The fields of the display.
HasCurves(d) == DOMAIN d = {"rows", "trace", "label", "gamma", "power", "fringe"}

\* What was drawn beside the fringes.
SameCurves(c, d) ==
  c.trace = d.trace /\ c.rows = d.rows /\ c.gamma = d.gamma /\ c.power = d.power

LEMMA WithFringeIs ==
  ASSUME NEW d, HasCurves(d), NEW b, NEW lin, NEW vis
  PROVE  HasCurves(Bin!WithFringe(d, b, lin, vis)) /\ SameCurves(Bin!WithFringe(d, b, lin, vis), d)
<1> DEFINE fringe == Bin!Fringe(d.rows, d.trace, b, lin)
           c == [d EXCEPT !.fringe = fringe]
<1>1. Bin!WithFringe(d, b, lin, vis) = IF vis THEN c ELSE d
  BY DEF Bin!WithFringe
<1> HIDE DEF fringe
<1>2. HasCurves(c) /\ SameCurves(c, d)
  BY DEF HasCurves, SameCurves
<1> HIDE DEF c
<1> QED
  BY <1>1, <1>2 DEF SameCurves

LEMMA RenderedHasCurves ==
  ASSUME NEW m, HasCurves(shown) PROVE HasCurves(Bin!Rendered(m))
<1> DEFINE curve == Bin!Curve(m.trace)
           d == [shown EXCEPT !.rows = m.rows, !.trace = m.trace, !.label = m.bin,
                              !.gamma = curve, !.power = curve]
<1> HIDE DEF curve
<1>1. HasCurves(d)
  BY DEF HasCurves
<1> HIDE DEF d
<1> QED
  BY <1>1, WithFringeIs DEF Bin!Rendered, d, curve

LEMMA BinStep ==
  ASSUME [Bin!Next]_bin, HasCurves(shown) PROVE HasCurves(shown)' /\ Bin!PausedIsHeld
<1>1. ASSUME NEW v, Bin!SelectFrequency(v)
      PROVE  IF bPaused THEN UNCHANGED shown ELSE shown' = Bin!Rendered(bModel')
  BY <1>1 DEF Bin!SelectFrequency
<1>2. ASSUME NEW v, Bin!SetFrequency(v)
      PROVE  UNCHANGED shown \/ (~bPaused /\ shown' = Bin!Rendered(bModel'))
  BY <1>1, <1>2 DEF Bin!SetFrequency
<1>3. \/ UNCHANGED shown
      \/ ~(bPaused /\ bPaused') /\ \E m : shown' = Bin!Rendered(m)
      \/ \E b, lin, vis : shown' = Bin!WithFringe(shown, b, lin, vis)
  <2>1. CASE UNCHANGED bin
    BY <2>1 DEF bin
  <2>2. ASSUME NEW skipped, NEW late, NEW restart, NEW q, Bin!Frame(skipped, late, restart, q)
        PROVE  UNCHANGED shown \/ (~bPaused /\ \E m : shown' = Bin!Rendered(m))
    BY <2>2 DEF Bin!Frame
  <2>3. ASSUME NEW v, Bin!EditFrequency(v) \/ Bin!StepBin(v) \/ Bin!Click(v) \/ Bin!Snap(v)
        PROVE  UNCHANGED shown \/ (~bPaused /\ \E m : shown' = Bin!Rendered(m))
    BY <1>2, <2>3 DEF Bin!EditFrequency, Bin!StepBin, Bin!Click, Bin!Snap
  <2>4. ASSUME NEW v, Bin!DragMarker(v) PROVE UNCHANGED shown
    BY <2>4 DEF Bin!DragMarker
  <2>5. CASE Bin!ReleaseMarker
    BY <2>5 DEF Bin!ReleaseMarker, Bin!CommitMarker
  <2>6. CASE Bin!TogglePause
    BY <2>6 DEF Bin!TogglePause
  <2>7. CASE Bin!ShowFringe
    BY <2>7 DEF Bin!ShowFringe
  <2>8. CASE Bin!SetMode
    BY <2>8 DEF Bin!SetMode
  <2>9. ASSUME NEW plot, NEW at, Bin!Hover(plot, at) PROVE UNCHANGED shown
    BY <2>9 DEF Bin!Hover
  <2> QED
    BY <2>1, <2>2, <2>3, <2>4, <2>5, <2>6, <2>7, <2>8, <2>9 DEF Bin!Next
<1>4. HasCurves(shown')
  BY <1>3, RenderedHasCurves, WithFringeIs
<1>5. bPaused /\ bPaused' => SameCurves(shown', shown)
  BY <1>3, WithFringeIs DEF SameCurves
<1> QED
  BY <1>4, <1>5 DEF Bin!PausedIsHeld, SameCurves, HasCurves

LEMMA PauseHolds == Bin!Spec => [][Bin!PausedIsHeld]_bin
<1>1. Bin!Init => HasCurves(shown)
  BY DEF Bin!Init, HasCurves
<1>2. HasCurves(shown) /\ [Bin!Next]_(Bin!vars) => HasCurves(shown)' /\ Bin!PausedIsHeld
  <2>1. [Bin!Next]_(Bin!vars) <=> [Bin!Next]_bin
    BY DEF Bin!vars, bin
  <2> QED
    BY <2>1, BinStep, Zenon
<1> QED
  BY <1>1, <1>2, PTL DEF Bin!Spec

-----------------------------------------------------------------------------
(* Sequences that are joined to one.                                       *)

\* The function that FlattenSeq() of SequencesExt is the last value of.
Flat(pieces, n) ==
  CHOOSE f : f = [i \in 1 .. n |-> IF i = 1 THEN pieces[i] ELSE f[i - 1] \o pieces[i]]

LEMMA FlatExists ==
  ASSUME NEW pieces, NEW n \in Nat
  PROVE  Flat(pieces, n) =
           [i \in 1 .. n |-> IF i = 1 THEN pieces[i] ELSE Flat(pieces, n)[i - 1] \o pieces[i]]
<1> DEFINE Of(f, k) == f = [i \in 1 .. k |-> IF i = 1 THEN pieces[i] ELSE f[i - 1] \o pieces[i]]
           bad == {k \in 0 .. n : ~\E f : Of(f, k)}
<1>1. bad = {}
  <2> SUFFICES ASSUME bad # {} PROVE FALSE
    OBVIOUS
  <2>1. bad \subseteq Nat
    <3> HIDE DEF Of
    <3> QED
      OBVIOUS
  <2>2. PICK m \in bad : \A k \in bad : <<k, m>> \notin OpToRel(<, Nat)
    BY <2>1, WFMin, NatLessThanWellFounded, Zenon
  <2>3. \A k \in bad : ~(k < m)
    BY <2>1, <2>2, Zenon DEF OpToRel
  <2>4. m \in 0 .. n /\ ~\E f : Of(f, m)
    OBVIOUS
  <2>5. CASE m = 0
    <3>1. Of([i \in 1 .. m |-> <<>>], m)
      BY <2>5
    <3> HIDE DEF Of
    <3> QED
      BY <3>1, <2>4
  <2>6. CASE m # 0
    <3>1. m - 1 \in 0 .. n /\ m - 1 < m
      BY <2>4, <2>6
    <3>2. m - 1 \notin bad
      BY <2>3, <3>1
    <3>3. PICK f : Of(f, m - 1)
      BY <3>1, <3>2
    <3> DEFINE end == IF m = 1 THEN pieces[m] ELSE f[m - 1] \o pieces[m]
               g == [i \in 1 .. m |-> IF i = m THEN end ELSE f[i]]
    <3>4. ASSUME NEW i \in 1 .. m
          PROVE  g[i] = IF i = 1 THEN pieces[i] ELSE g[i - 1] \o pieces[i]
      <4>1. CASE i = m
        <5>1. g[i] = end /\ (m # 1 => g[i - 1] = f[m - 1])
          BY <4>1, <2>4, <2>6
        <5> QED
          BY <5>1, <4>1
      <4>2. CASE i # m
        <5>1. i \in 1 .. m - 1 /\ g[i] = f[i]
          BY <4>2, <2>4
        <5>2. f[i] = IF i = 1 THEN pieces[i] ELSE f[i - 1] \o pieces[i]
          BY <5>1, <3>3
        <5>3. CASE i = 1
          BY <5>1, <5>2, <5>3
        <5>4. CASE i # 1
          <6>1. i - 1 \in 1 .. m /\ i - 1 # m
            BY <5>1, <5>4
          <6>2. g[i - 1] = f[i - 1]
            BY <6>1
          <6> HIDE DEF g
          <6> QED
            BY <5>1, <5>2, <5>4, <6>2
        <5> QED
          BY <5>3, <5>4
      <4> QED
        BY <4>1, <4>2
    <3>5. g = [i \in 1 .. m |-> IF i = 1 THEN pieces[i] ELSE g[i - 1] \o pieces[i]]
      <4> DEFINE h == [i \in 1 .. m |-> IF i = 1 THEN pieces[i] ELSE g[i - 1] \o pieces[i]]
      <4>1. DOMAIN g = 1 .. m /\ DOMAIN h = 1 .. m /\ g = [i \in 1 .. m |-> g[i]]
        OBVIOUS
      <4>2. \A i \in 1 .. m : g[i] = h[i]
        BY <3>4
      <4>3. h = [i \in 1 .. m |-> h[i]]
        OBVIOUS
      <4> HIDE DEF g, h
      <4>4. g = h
        BY <4>1, <4>2, <4>3
      <4> QED
        BY <4>4 DEF h
    <3> HIDE DEF g
    <3>6. Of(g, m)
      BY <3>5
    <3> HIDE DEF Of
    <3> QED
      BY <3>6, <2>4
  <2> QED
    BY <2>5, <2>6
<1>2. \E f : Of(f, n)
  <2> HIDE DEF Of
  <2> QED
    BY <1>1
<1> QED
  BY <1>2, Zenon DEF Flat

\* Each element stands to the next one as R says.
Chained(R, q) == \A k \in 1 .. Len(q) - 1 : <<q[k], q[k + 1]>> \in R
Has(q, x) == \E k \in 1 .. Len(q) : q[k] = x

\* Two chains with a link between them are one.
LEMMA ChainsJoin ==
  ASSUME NEW T, NEW R, NEW q \in Seq(T), NEW p \in Seq(T), Len(q) > 0, Len(p) > 0,
         Chained(R, q), Chained(R, p), <<q[Len(q)], p[1]>> \in R
  PROVE  /\ q \o p \in Seq(T) /\ Len(q \o p) > 0 /\ Chained(R, q \o p)
         /\ (q \o p)[Len(q \o p)] = p[Len(p)]
         /\ \A x : Has(q \o p, x) <=> Has(q, x) \/ Has(p, x)
<1> DEFINE r == q \o p
           n == Len(q)
           m == Len(p)
<1>1. /\ n \in Nat /\ m \in Nat /\ n > 0 /\ m > 0 /\ r \in Seq(T) /\ Len(r) = n + m
      /\ \A k \in 1 .. n : r[k] = q[k]
      /\ \A k \in 1 .. m : r[n + k] = p[k]
  OBVIOUS
<1>2. \A k \in n + 1 .. n + m : k - n \in 1 .. m /\ r[k] = p[k - n]
  <2>1. ASSUME NEW k \in n + 1 .. n + m PROVE k - n \in 1 .. m /\ r[k] = p[k - n]
    <3>1. k - n \in 1 .. m /\ n + (k - n) = k
      BY <1>1
    <3> HIDE DEF r, n, m
    <3> QED
      BY <3>1, <1>1
  <2> QED
    BY <2>1
<1>3. \A k \in 1 .. n - 1 : <<q[k], q[k + 1]>> \in R
  BY DEF Chained
<1>4. \A k \in 1 .. m - 1 : <<p[k], p[k + 1]>> \in R
  BY DEF Chained
<1>5. <<q[n], p[1]>> \in R
  OBVIOUS
<1> HIDE DEF r, n, m
<1>6. ASSUME NEW k \in 1 .. n + m - 1 PROVE <<r[k], r[k + 1]>> \in R
  <2>1. CASE k < n
    <3>1. k \in 1 .. n - 1 /\ r[k] = q[k] /\ r[k + 1] = q[k + 1]
      BY <2>1, <1>1
    <3> QED
      BY <3>1, <1>3
  <2>2. CASE k = n
    <3>1. r[k] = q[n] /\ r[k + 1] = p[1]
      BY <2>2, <1>1
    <3> QED
      BY <3>1, <1>5
  <2>3. CASE k > n
    <3>3. k \in Int /\ 1 <= k /\ k <= n + m - 1 /\ n \in Int /\ m \in Int
      BY <1>1
    <3>4. k - n \in 1 .. m - 1
      BY <2>3, <3>3
    <3>1. k - n \in 1 .. m - 1 /\ k \in n + 1 .. n + m /\ k + 1 \in n + 1 .. n + m
          /\ (k + 1) - n = (k - n) + 1
      BY <2>3, <3>3, <3>4
    <3>2. r[k] = p[k - n] /\ r[k + 1] = p[(k - n) + 1]
      BY <3>1, <1>2
    <3> QED
      BY <3>1, <3>2, <1>4
  <2> QED
    BY <2>1, <2>2, <2>3, <1>1
<1>7. ASSUME NEW x PROVE Has(r, x) <=> Has(q, x) \/ Has(p, x)
  <2>1. Len(q) = n /\ Len(p) = m
    BY DEF n, m
  <2>2. ASSUME NEW k \in 1 .. n + m, r[k] = x PROVE Has(q, x) \/ Has(p, x)
    <3>1. CASE k <= n
      BY <3>1, <2>1, <2>2, <1>1 DEF Has
    <3>2. CASE k > n
      <4>1. k \in n + 1 .. n + m
        BY <3>2, <1>1
      <4> QED
        BY <4>1, <2>1, <2>2, <1>2 DEF Has
    <3> QED
      BY <3>1, <3>2, <1>1
  <2>3. ASSUME NEW k \in 1 .. n, q[k] = x PROVE Has(r, x)
    BY <2>3, <1>1 DEF Has
  <2>4. ASSUME NEW k \in 1 .. m, p[k] = x PROVE Has(r, x)
    <3>1. n + k \in 1 .. n + m
      BY <1>1
    <3> QED
      BY <3>1, <2>4, <1>1 DEF Has
  <2> QED
    BY <2>1, <2>2, <2>3, <2>4, <1>1 DEF Has
<1>8. r[Len(r)] = p[Len(p)]
  <2>1. Len(p) = m
    BY DEF m
  <2> QED
    BY <2>1, <1>1
<1>9. Chained(R, r)
  BY <1>1, <1>6 DEF Chained
<1> QED
  BY <1>1, <1>7, <1>8, <1>9 DEF r

\* The pieces are linked, and so are the elements of each.
Linked(R, pieces) ==
  /\ \A i \in 1 .. Len(pieces) : Len(pieces[i]) > 0 /\ Chained(R, pieces[i])
  /\ \A i \in 2 .. Len(pieces) : <<pieces[i - 1][Len(pieces[i - 1])], pieces[i][1]>> \in R

\* What is flattened has all elements, and is a chain.
LEMMA FlattenIs ==
  ASSUME NEW T, NEW R, NEW pieces \in Seq(Seq(T)), Linked(R, pieces)
  PROVE  LET q == Bin!FlattenSeq(pieces) IN
         /\ q \in Seq(T) /\ Chained(R, q)
         /\ \A x : Has(q, x) <=> \E i \in 1 .. Len(pieces) : Has(pieces[i], x)
<1> DEFINE n == Len(pieces)
           flat == Flat(pieces, n)
           Fine(i) == /\ flat[i] \in Seq(T) /\ Len(flat[i]) > 0 /\ Chained(R, flat[i])
                      /\ flat[i][Len(flat[i])] = pieces[i][Len(pieces[i])]
                      /\ \A x : Has(flat[i], x) <=> \E k \in 1 .. i : Has(pieces[k], x)
           bad == {i \in 1 .. n : ~Fine(i)}
<1>1. /\ n \in Nat
      /\ \A i \in 1 .. n : pieces[i] \in Seq(T)
  OBVIOUS
<1>2. n # 0 => Bin!FlattenSeq(pieces) = flat[n]
  BY DEF Bin!FlattenSeq, Flat
<1>3. ASSUME NEW i \in 1 .. n
      PROVE  flat[i] = IF i = 1 THEN pieces[i] ELSE flat[i - 1] \o pieces[i]
  <2>1. flat = [j \in 1 .. n |-> IF j = 1 THEN pieces[j] ELSE flat[j - 1] \o pieces[j]]
    BY <1>1, FlatExists
  <2> HIDE DEF flat
  <2> QED
    BY <2>1
<1>4. /\ \A i \in 1 .. n : Len(pieces[i]) > 0 /\ Chained(R, pieces[i])
      /\ \A i \in 2 .. n : <<pieces[i - 1][Len(pieces[i - 1])], pieces[i][1]>> \in R
  BY DEF Linked
<1> HIDE DEF flat, n
<1>5. bad = {}
  <2> SUFFICES ASSUME bad # {} PROVE FALSE
    OBVIOUS
  <2>1. bad \subseteq Nat
    <3> HIDE DEF Fine
    <3> QED
      BY <1>1
  <2>2. PICK m \in bad : \A k \in bad : <<k, m>> \notin OpToRel(<, Nat)
    <3> HIDE DEF bad
    <3> QED
      BY <2>1, WFMin, NatLessThanWellFounded, Zenon
  <2>3. \A k \in bad : ~(k < m)
    <3> HIDE DEF bad
    <3> QED
      BY <2>1, <2>2, Zenon DEF OpToRel
  <2>4. m \in 1 .. n /\ ~Fine(m)
    <3> HIDE DEF Fine
    <3> QED
      OBVIOUS
  <2>5. CASE m = 1
    <3>1. flat[m] = pieces[m]
      BY <2>4, <2>5, <1>3
    <3>2. \A x : Has(flat[m], x) <=> \E k \in 1 .. m : Has(pieces[k], x)
      BY <2>5, <3>1
    <3>3. Fine(m)
      BY <2>4, <3>1, <3>2, <1>1, <1>4
    <3> QED
      BY <3>3, <2>4
  <2>6. CASE m # 1
    <3>1. m - 1 \in 1 .. n /\ m - 1 < m /\ m \in 2 .. n
      BY <2>4, <2>6, <1>1
    <3>2. Fine(m - 1)
      <4> HIDE DEF Fine
      <4> QED
        BY <2>3, <3>1
    <3> DEFINE q == flat[m - 1]
               p == pieces[m]
    <3>3. flat[m] = q \o p
      BY <2>4, <2>6, <1>3
    <3>4. /\ q \in Seq(T) /\ Len(q) > 0 /\ Chained(R, q) /\ p \in Seq(T) /\ Len(p) > 0
          /\ Chained(R, p) /\ <<q[Len(q)], p[1]>> \in R
      <4>1. <<pieces[m - 1][Len(pieces[m - 1])], p[1]>> \in R
        BY <3>1, <1>4
      <4> QED
        BY <4>1, <3>2, <2>4, <1>1, <1>4
    <3>5. \A x : Has(q, x) <=> \E k \in 1 .. m - 1 : Has(pieces[k], x)
      BY <3>2
    <3> HIDE DEF q
    <3>6. /\ q \o p \in Seq(T) /\ Len(q \o p) > 0 /\ Chained(R, q \o p)
          /\ (q \o p)[Len(q \o p)] = p[Len(p)]
          /\ \A x : Has(q \o p, x) <=> Has(q, x) \/ Has(p, x)
      BY <3>4, ChainsJoin
    <3>7. \A x : Has(flat[m], x) <=> \E k \in 1 .. m : Has(pieces[k], x)
      <4>1. \A k : k \in 1 .. m <=> k \in 1 .. m - 1 \/ k = m
        BY <2>4, <1>1
      <4> QED
        BY <4>1, <3>3, <3>5, <3>6
    <3>8. Fine(m)
      BY <3>3, <3>6, <3>7
    <3> QED
      BY <3>8, <2>4
  <2> QED
    BY <2>5, <2>6
<1>6. CASE n = 0
  <2>1. Bin!FlattenSeq(pieces) = pieces /\ pieces = <<>>
    BY <1>6 DEF Bin!FlattenSeq, n
  <2>2. <<>> \in Seq(T) /\ Len(<<>>) = 0
    OBVIOUS
  <2> QED
    BY <2>1, <2>2 DEF Chained, Has
<1>7. CASE n # 0
  <2>1. Fine(n)
    <3>1. n \in 1 .. n
      BY <1>1, <1>7
    <3> HIDE DEF Fine
    <3> QED
      BY <3>1, <1>5
  <2> QED
    BY <2>1, <1>2, <1>7 DEF n
<1> QED
  BY <1>6, <1>7

-----------------------------------------------------------------------------
(* The curves that are in sight are of one bin.                            *)

\* A frame that was sent, and a sample of bin b.
BinFrame == [s : Nat, id : Nat \ {0}, t : Nat \ {0}, q : Qualities \cup {"good"}]
BinSample(b) == [frame : BinFrame \cup {Bin!Gap}, bin : {b}]

\* Samples that a line may join, or that have a gap between them.
Neighbours(b) ==
  {w \in BinSample(b) \X BinSample(b) :
     w[1].frame = Bin!Gap \/ w[2].frame = Bin!Gap \/ ~Bin!Disjoint(w[1].frame, w[2].frame)}

Blank(b) == [frame |-> Bin!Gap, bin |-> b]

\* What stands in the curve for sample i.
Stretch(trace, i) ==
  IF i > 1 /\ trace[i].frame # Bin!Gap /\ trace[i - 1].frame # Bin!Gap
     /\ Bin!Disjoint(trace[i - 1].frame, trace[i].frame)
  THEN <<[trace[i] EXCEPT !.frame = Bin!Gap], trace[i]>> ELSE <<trace[i]>>

LEMMA StretchIs ==
  ASSUME NEW b, NEW trace \in Seq(BinSample(b)), NEW i \in 1 .. Len(trace)
  PROVE  LET q == Stretch(trace, i) IN
         /\ q \in Seq(BinSample(b)) /\ Len(q) > 0 /\ Chained(Neighbours(b), q)
         /\ q[Len(q)] = trace[i]
         /\ i > 1 => <<trace[i - 1], q[1]>> \in Neighbours(b)
         /\ \A x : Has(q, x) /\ x.frame # Bin!Gap => x = trace[i]
<1> DEFINE x == trace[i]
           g == Blank(b)
<1>1. x \in BinSample(b) /\ g \in BinSample(b) /\ g.frame = Bin!Gap
      /\ (i > 1 => trace[i - 1] \in BinSample(b))
  <2>1. x \in BinSample(b)
    OBVIOUS
  <2>2. ASSUME i > 1 PROVE trace[i - 1] \in BinSample(b)
    <3>1. i - 1 \in 1 .. Len(trace)
      BY <2>2
    <3> QED
      BY <3>1
  <2>3. g \in BinSample(b) /\ g.frame = Bin!Gap
    BY DEF Blank, BinSample
  <2> QED
    BY <2>1, <2>2, <2>3
<1>2. [x EXCEPT !.frame = Bin!Gap] = g
  BY <1>1 DEF Blank, BinSample
<1>3. CASE Stretch(trace, i) = <<g, x>>
  <2> DEFINE q == <<g, x>>
  <2>1. q \in Seq(BinSample(b)) /\ Len(q) = 2 /\ q[1] = g /\ q[2] = x
    BY <1>1
  <2> HIDE DEF q
  <2>2. \A y \in BinSample(b) : <<g, y>> \in Neighbours(b) /\ <<y, g>> \in Neighbours(b)
    BY <1>1 DEF Neighbours
  <2>3. Chained(Neighbours(b), q)
    <3>1. \A k \in 1 .. Len(q) - 1 : k = 1 /\ q[k] = g /\ q[k + 1] = x
      BY <2>1
    <3>2. <<g, x>> \in Neighbours(b)
      BY <1>1, <2>2
    <3> QED
      BY <3>1, <3>2 DEF Chained
  <2>4. i > 1 => <<trace[i - 1], q[1]>> \in Neighbours(b)
    BY <1>1, <2>1, <2>2
  <2>5. \A y : Has(q, y) /\ y.frame # Bin!Gap => y = x
    BY <1>1, <2>1 DEF Has
  <2> QED
    BY <1>3, <2>1, <2>3, <2>4, <2>5 DEF q
<1>4. CASE Stretch(trace, i) = <<x>> /\
           (i > 1 => x.frame = Bin!Gap \/ trace[i - 1].frame = Bin!Gap
                     \/ ~Bin!Disjoint(trace[i - 1].frame, x.frame))
  <2> DEFINE q == <<x>>
  <2>1. q \in Seq(BinSample(b)) /\ Len(q) = 1 /\ q[1] = x
    BY <1>1
  <2>2. Chained(Neighbours(b), q) /\ \A y : Has(q, y) => y = x
    <3> HIDE DEF q
    <3> QED
      BY <2>1 DEF Chained, Has
  <2>3. i > 1 => <<trace[i - 1], x>> \in Neighbours(b)
    BY <1>1, <1>4 DEF Neighbours
  <2> QED
    BY <1>4, <2>1, <2>2, <2>3
<1> QED
  BY <1>2, <1>3, <1>4 DEF Stretch

\* A curve is of all samples, and joins only those that follow one another.
LEMMA CurveIs ==
  ASSUME NEW b, NEW trace \in Seq(BinSample(b))
  PROVE  LET q == Bin!Curve(trace) IN
         /\ q \in Seq(BinSample(b)) /\ Chained(Neighbours(b), q)
         /\ \A x : x.frame # Bin!Gap => (Has(q, x) <=> Has(trace, x))
<1> DEFINE n == Len(trace)
           pieces == [i \in 1 .. n |-> Stretch(trace, i)]
<1>1. n \in Nat /\ DOMAIN trace = 1 .. n
  OBVIOUS
<1>2. Bin!Curve(trace) = Bin!FlattenSeq(pieces)
  BY <1>1 DEF Bin!Curve, Stretch
<1>3. \A i \in 1 .. n : pieces[i] = Stretch(trace, i)
  OBVIOUS
<1>4. pieces \in Seq(Seq(BinSample(b))) /\ Len(pieces) = n
  <2>1. \A i \in 1 .. n : Stretch(trace, i) \in Seq(BinSample(b))
    BY StretchIs
  <2> QED
    BY <1>1, <2>1
<1> HIDE DEF pieces
<1>5. Linked(Neighbours(b), pieces)
  <2>1. ASSUME NEW i \in 1 .. n PROVE Len(pieces[i]) > 0 /\ Chained(Neighbours(b), pieces[i])
    BY <1>3, StretchIs
  <2>2. ASSUME NEW i \in 2 .. n
        PROVE  <<pieces[i - 1][Len(pieces[i - 1])], pieces[i][1]>> \in Neighbours(b)
    <3>1. i \in 1 .. n /\ i - 1 \in 1 .. n /\ i > 1
      BY <1>1
    <3>2. pieces[i - 1][Len(pieces[i - 1])] = trace[i - 1]
      BY <3>1, <1>3, StretchIs
    <3>3. <<trace[i - 1], pieces[i][1]>> \in Neighbours(b)
      BY <3>1, <1>3, StretchIs
    <3> QED
      BY <3>2, <3>3
  <2> QED
    BY <2>1, <2>2, <1>4 DEF Linked
<1> DEFINE q == Bin!FlattenSeq(pieces)
<1>6. /\ q \in Seq(BinSample(b)) /\ Chained(Neighbours(b), q)
      /\ \A x : Has(q, x) <=> \E i \in 1 .. n : Has(pieces[i], x)
  BY <1>4, <1>5, FlattenIs
<1> HIDE DEF q
<1>7. ASSUME NEW x, x.frame # Bin!Gap PROVE Has(q, x) <=> Has(trace, x)
  <2>1. ASSUME NEW i \in 1 .. n, Has(pieces[i], x) PROVE Has(trace, x)
    <3>1. x = trace[i]
      BY <2>1, <1>3, <1>7, StretchIs
    <3> QED
      BY <3>1 DEF Has
  <2>2. ASSUME NEW i \in 1 .. n, trace[i] = x PROVE Has(pieces[i], x)
    <3>1. Len(pieces[i]) > 0 /\ pieces[i] \in Seq(BinSample(b))
          /\ pieces[i][Len(pieces[i])] = trace[i]
      BY <1>3, StretchIs
    <3>2. Len(pieces[i]) \in 1 .. Len(pieces[i])
      BY <3>1
    <3> QED
      BY <2>2, <3>1, <3>2 DEF Has
  <2> QED
    BY <1>6, <2>1, <2>2 DEF Has
<1> QED
  BY <1>2, <1>6, <1>7 DEF q

\* The display is of bin b but for the fringes, and with them.
Curved(d, b) ==
  /\ HasCurves(d) /\ d.label = b /\ d.trace \in Seq(BinSample(b))
  /\ d.gamma = Bin!Curve(d.trace) /\ d.power = Bin!Curve(d.trace)

Fringed(d, b, lin, vis) ==
  Curved(d, b) /\ (vis => d.fringe = Bin!Fringe(d.rows, d.trace, b, lin))

LEMMA FringeDrawn ==
  ASSUME NEW d, NEW b, Curved(d, b), NEW lin, NEW vis
  PROVE  Fringed(Bin!WithFringe(d, b, lin, vis), b, lin, vis)
<1> DEFINE fringe == Bin!Fringe(d.rows, d.trace, b, lin)
           c == [d EXCEPT !.fringe = fringe]
<1>1. Bin!WithFringe(d, b, lin, vis) = IF vis THEN c ELSE d
  BY DEF Bin!WithFringe
<1> HIDE DEF fringe
<1>2. /\ HasCurves(c) /\ c.label = d.label /\ c.trace = d.trace /\ c.gamma = d.gamma
      /\ c.power = d.power /\ c.rows = d.rows /\ c.fringe = fringe
  BY DEF HasCurves, Curved
<1> HIDE DEF c
<1>3. CASE vis
  <2>1. Curved(c, b)
    BY <1>2 DEF Curved
  <2>2. c.fringe = Bin!Fringe(c.rows, c.trace, b, lin)
    BY <1>2 DEF fringe
  <2> QED
    BY <1>1, <1>3, <2>1, <2>2 DEF Fringed
<1> QED
  BY <1>1, <1>3 DEF Fringed

LEMMA RenderedIs ==
  ASSUME NEW m, m.trace \in Seq(BinSample(m.bin)), HasCurves(shown)
  PROVE  Fringed(Bin!Rendered(m), m.bin, linear, visible)
<1> DEFINE curve == Bin!Curve(m.trace)
           d == [shown EXCEPT !.rows = m.rows, !.trace = m.trace, !.label = m.bin,
                              !.gamma = curve, !.power = curve]
<1>1. Bin!Rendered(m) = Bin!WithFringe(d, m.bin, linear, visible)
  BY DEF Bin!Rendered
<1> HIDE DEF curve
<1>2. /\ HasCurves(d) /\ d.label = m.bin /\ d.trace = m.trace /\ d.gamma = curve
      /\ d.power = curve
  BY DEF HasCurves
<1> HIDE DEF d
<1>3. Curved(d, m.bin)
  BY <1>2 DEF Curved, curve
<1> QED
  BY <1>1, <1>3, FringeDrawn

\* The points of a curve and of the fringes.
LEMMA PointsAre ==
  ASSUME NEW b, NEW trace \in Seq(BinSample(b))
  PROVE  /\ \A p \in Bin!Points(Bin!Curve(trace)) : p.bin = b
         /\ {p.frame : p \in Bin!Points(Bin!Curve(trace))} = Bin!Samples(trace)
<1> DEFINE q == Bin!Curve(trace)
<1>1. /\ q \in Seq(BinSample(b))
      /\ \A x : x.frame # Bin!Gap => (Has(q, x) <=> Has(trace, x))
  BY CurveIs
<1> HIDE DEF q
<1>2. DOMAIN q = 1 .. Len(q) /\ DOMAIN trace = 1 .. Len(trace)
  BY <1>1
<1>3. ASSUME NEW x PROVE x \in Bin!Points(q) <=> x.frame # Bin!Gap /\ Has(q, x)
  BY <1>2 DEF Bin!Points, Has
<1>4. \A p \in Bin!Points(q) : p \in BinSample(b)
  BY <1>1, <1>3 DEF Has
<1>5. ASSUME NEW f
      PROVE  f \in Bin!Samples(trace) <=> f # Bin!Gap /\ \E x : x.frame = f /\ Has(trace, x)
  BY <1>2 DEF Bin!Samples, Has
<1>6. {p.frame : p \in Bin!Points(q)} = Bin!Samples(trace)
  BY <1>1, <1>3, <1>5
<1> QED
  BY <1>4, <1>6 DEF q, BinSample

LEMMA FringePointsAre ==
  ASSUME NEW b, NEW trace \in Seq(BinSample(b)), NEW rows, NEW lin
  PROVE  LET curve == Bin!Curve(trace)
             fringe == Bin!Fringe(rows, trace, b, lin) IN
         /\ {p.frame : p \in Bin!Points(fringe)} = {p.frame : p \in Bin!Points(curve)}
         /\ \A p \in Bin!Points(fringe) :
              /\ p.bin = b /\ p.rowBin = b
              /\ p.finite => p.row = p.frame /\ (lin => p.row.q # "floor")
<1> DEFINE q == Bin!Curve(trace)
           fringe == Bin!Fringe(rows, trace, b, lin)
           RowOf(p) == IF p.frame = Bin!Gap THEN Bin!Gap ELSE Bin!Magnitude(rows, trace, p.frame)
           PointOf(p) == [frame |-> p.frame, bin |-> p.bin, row |-> RowOf(p), rowBin |-> b,
                          finite |-> p.frame # Bin!Gap
                                     /\ Bin!Reconstructed(RowOf(p), p.frame, lin)]
<1>1. fringe = [i \in DOMAIN q |-> PointOf(q[i])]
  BY DEF Bin!Fringe
<1>2. \A p \in Bin!Points(q) : p.bin = b
  BY PointsAre
<1> HIDE DEF q
<1>3. \A p : /\ PointOf(p).frame = p.frame /\ PointOf(p).bin = p.bin /\ PointOf(p).rowBin = b
             /\ PointOf(p).row = RowOf(p)
             /\ PointOf(p).finite <=> p.frame # Bin!Gap
                                      /\ Bin!Reconstructed(RowOf(p), p.frame, lin)
  <2> HIDE DEF RowOf
  <2> QED
    OBVIOUS
<1>4. ASSUME NEW p, p.frame # Bin!Gap, PointOf(p).finite
      PROVE  RowOf(p) = p.frame /\ (lin => p.frame.q # "floor")
  <2>1. Bin!Reconstructed(RowOf(p), p.frame, lin)
    <3> HIDE DEF RowOf, PointOf
    <3> QED
      BY <1>3, <1>4
  <2>2. RowOf(p) # Bin!Gap => RowOf(p) = p.frame
    BY DEF Bin!Magnitude
  <2> HIDE DEF RowOf
  <2> QED
    BY <2>1, <2>2 DEF Bin!Reconstructed
<1> HIDE DEF PointOf, fringe
<1>5. DOMAIN fringe = DOMAIN q /\ \A i \in DOMAIN q : fringe[i] = PointOf(q[i])
  BY <1>1
<1>6. ASSUME NEW x
      PROVE  x \in Bin!Points(fringe) <=> \E p \in Bin!Points(q) : x = PointOf(p)
  <2>1. x \in Bin!Points(fringe) <=> \E i \in DOMAIN q : q[i].frame # Bin!Gap /\ x = PointOf(q[i])
    BY <1>3, <1>5 DEF Bin!Points
  <2> QED
    BY <2>1 DEF Bin!Points
<1>7. {p.frame : p \in Bin!Points(fringe)} = {p.frame : p \in Bin!Points(q)}
  BY <1>3, <1>6
<1>8. ASSUME NEW x \in Bin!Points(fringe)
      PROVE  /\ x.bin = b /\ x.rowBin = b
             /\ x.finite => x.row = x.frame /\ (lin => x.row.q # "floor")
  <2>1. PICK p \in Bin!Points(q) : x = PointOf(p)
    BY <1>6
  <2>2. p.frame # Bin!Gap
    BY DEF Bin!Points
  <2> HIDE DEF RowOf
  <2> QED
    BY <2>1, <2>2, <1>2, <1>3, <1>4
<1> QED
  BY <1>7, <1>8 DEF fringe, q

LEMMA ShownTrue ==
  ASSUME NEW b, Fringed(shown, b, linear, visible), bModel.bin = b
  PROVE  Bin!DrawnOfOneBin /\ Bin!DrawnOfOneTrace /\ Bin!FringeOfOneFrame
<1> DEFINE trace == shown.trace
<1>1. /\ shown.label = b /\ trace \in Seq(BinSample(b))
      /\ shown.gamma = Bin!Curve(trace) /\ shown.power = Bin!Curve(trace)
      /\ visible => shown.fringe = Bin!Fringe(shown.rows, trace, b, linear)
  BY DEF Fringed, Curved
<1> HIDE DEF trace
<1>2. /\ \A p \in Bin!Points(shown.gamma) \cup Bin!Points(shown.power) : p.bin = b
      /\ {p.frame : p \in Bin!Points(shown.gamma)} = Bin!Samples(trace)
      /\ {p.frame : p \in Bin!Points(shown.power)} = Bin!Samples(trace)
  BY <1>1, PointsAre
<1>3. ASSUME visible
      PROVE  /\ {p.frame : p \in Bin!Points(shown.fringe)} = Bin!Samples(trace)
             /\ \A p \in Bin!Points(shown.fringe) :
                  /\ p.bin = b /\ p.rowBin = b
                  /\ p.finite => p.row = p.frame /\ (linear => p.row.q # "floor")
  BY <1>1, <1>2, <1>3, FringePointsAre
<1>4. Bin!DrawnOfOneBin
  BY <1>1, <1>2, <1>3 DEF Bin!DrawnOfOneBin
<1>5. Bin!DrawnOfOneTrace
  BY <1>2, <1>3 DEF Bin!DrawnOfOneTrace, trace
<1>6. Bin!FringeOfOneFrame
  BY <1>3 DEF Bin!FringeOfOneFrame
<1> QED
  BY <1>4, <1>5, <1>6

LEMMA LinesTrue ==
  ASSUME NEW b, Curved(shown, b) PROVE Bin!LinesJoinNeighbours
<1> DEFINE q == shown.gamma
<1>1. q \in Seq(BinSample(b)) /\ Chained(Neighbours(b), q)
  BY CurveIs DEF Curved
<1> SUFFICES ASSUME NEW i \in 1 .. Len(q) - 1, q[i].frame # Bin!Gap, q[i + 1].frame # Bin!Gap
             PROVE  LET f == q[i].frame
                        g == q[i + 1].frame
                    IN  f.s = g.s /\ g.id = f.id + 1 /\ f.t < g.t /\ g.t <= f.t + 3
  BY DEF Bin!LinesJoinNeighbours
<1> DEFINE f == q[i].frame
           g == q[i + 1].frame
<1>2. <<q[i], q[i + 1]>> \in Neighbours(b)
  BY <1>1 DEF Chained
<1>3. f \in BinFrame /\ g \in BinFrame /\ ~Bin!Disjoint(f, g)
  BY <1>2 DEF Neighbours, BinSample
<1> HIDE DEF f, g, q
<1>4. f.s = g.s /\ g.id = f.id + 1 /\ f.t < g.t /\ g.t <= f.t + 3
  BY <1>3 DEF BinFrame, Bin!Disjoint, Bin!Kept!Break
<1> QED
  BY <1>4 DEF f, g

\* The history of the bin that is followed.
IsBinModel(m) ==
  /\ DOMAIN m = {"session", "last", "bin", "rows", "trace"}
  /\ m.bin \in 0 .. MaxBin /\ m.last \in Nat /\ m.trace \in Seq(BinSample(m.bin))

BinIInv ==
  /\ bSent \in [s : Nat, id : Nat, t : Nat, q : Qualities \cup {"good"}]
  /\ IsBinModel(bModel)
  /\ spin \in Bin!Positions /\ Bin!Nearest(spin) = bModel.bin
  /\ DOMAIN marker = {"at", "held", "astray"} /\ marker.at \in Bin!Positions
  /\ Bin!MarkerAtBin
  /\ Fringed(shown, bModel.bin, linear, visible)

LEMMA PushKeepsBin ==
  ASSUME Bin!BinAssumption, NEW m, IsBinModel(m), NEW f \in BinFrame
  PROVE  IsBinModel(Bin!Kept!Push(m, f)) /\ Bin!Kept!Push(m, f).bin = m.bin
<1> DEFINE n == IF f.s = m.session THEN m
                ELSE [m EXCEPT !.session = f.s, !.last = 0, !.rows = <<>>, !.trace = <<>>]
           missing == IF n.last = 0 THEN 0 ELSE Bin!Kept!Lesser(Capacity, f.id - n.last - 1)
           holes == [k \in 1 .. missing |-> Bin!Gap]
           sample(g) == [frame |-> g, bin |-> n.bin]
           blanks == [k \in 1 .. missing |-> sample(Bin!Gap)]
           trace == Bin!Kept!Keep(n.trace \o Append(blanks, sample(f)), Capacity)
           rows == Bin!Kept!Keep(n.rows \o Append(holes, f), Capacity)
           r == [n EXCEPT !.last = f.id, !.rows = rows, !.trace = trace]
<1>1. f.id \in Nat /\ Capacity \in Nat \ {0}
  BY DEF BinFrame, Bin!BinAssumption
<1>2. IsBinModel(n) /\ n.bin = m.bin
  BY DEF IsBinModel
<1>3. Bin!Kept!Push(m, f) = IF f.id <= n.last THEN n ELSE r
  BY DEF Bin!Kept!Push, Bin!Gap
<1> HIDE DEF n
<1>4. ASSUME ~(f.id <= n.last) PROVE trace \in Seq(BinSample(n.bin))
  <2>1. missing \in Nat
    BY <1>1, <1>2, <1>4 DEF IsBinModel, Bin!Kept!Lesser
  <2>2. sample(f) \in BinSample(n.bin) /\ sample(Bin!Gap) \in BinSample(n.bin)
    BY DEF BinSample
  <2> HIDE DEF missing, sample
  <2>3. blanks \in Seq(BinSample(n.bin))
    BY <2>1, <2>2
  <2> HIDE DEF blanks
  <2> DEFINE q == n.trace \o Append(blanks, sample(f))
  <2>4. q \in Seq(BinSample(n.bin))
    BY <2>2, <2>3, <1>2 DEF IsBinModel
  <2> HIDE DEF q
  <2>5. Len(q) \in Nat /\ Bin!Kept!Greater(1, Len(q) - Capacity + 1) \in 1 .. Len(q) + 1
    BY <2>4, <1>1 DEF Bin!Kept!Greater
  <2>6. Bin!Kept!Keep(q, Capacity) \in Seq(BinSample(n.bin))
    BY <2>4, <2>5 DEF Bin!Kept!Keep
  <2> QED
    BY <2>6 DEF q
<1> HIDE DEF rows, trace
<1>5. ASSUME ~(f.id <= n.last) PROVE IsBinModel(r) /\ r.bin = n.bin
  BY <1>1, <1>2, <1>4, <1>5 DEF IsBinModel
<1> HIDE DEF r
<1> QED
  BY <1>2, <1>3, <1>5

LEMMA BinSelectIs ==
  ASSUME NEW m, IsBinModel(m), NEW b \in 0 .. MaxBin
  PROVE  IsBinModel(Bin!Kept!SelectBin(m, b)) /\ Bin!Kept!SelectBin(m, b).bin = b
<1> DEFINE r == [m EXCEPT !.bin = b, !.trace = <<>>]
<1>1. DOMAIN r = DOMAIN m /\ r.bin = b /\ r.trace = <<>> /\ r.last = m.last
  BY DEF IsBinModel
<1>2. <<>> \in Seq(BinSample(b))
  OBVIOUS
<1> HIDE DEF r
<1>3. IsBinModel(r)
  BY <1>1, <1>2 DEF IsBinModel
<1> QED
  BY <1>1, <1>3 DEF r, Bin!Kept!SelectBin

LEMMA NearestIs ==
  ASSUME Bin!BinAssumption
  PROVE  /\ \A v \in Bin!Positions : Bin!Nearest(v) \in 0 .. MaxBin
         /\ \A b \in 0 .. MaxBin : Bin!At(b) \in Bin!Positions /\ Bin!Nearest(Bin!At(b)) = b
BY DEF Bin!BinAssumption, Bin!Positions, Bin!Nearest, Bin!At

\* A frequency that is set is followed.
LEMMA FrequencyKept ==
  ASSUME Bin!BinAssumption, BinIInv, NEW v \in Bin!Positions, ~bPaused, Bin!SetFrequency(v),
         UNCHANGED <<bSent, bPaused, linear, visible>>
  PROVE  BinIInv'
<1>1. spin' = v /\ Bin!Nearest(v) \in 0 .. MaxBin
  BY NearestIs DEF Bin!SetFrequency
<1>2. CASE v = spin
  BY <1>2 DEF BinIInv, Bin!MarkerAtBin, Bin!SetFrequency
<1>3. CASE v # spin
  <2>1. /\ bModel' = IF Bin!Nearest(v) # bModel.bin THEN Bin!Kept!SelectBin(bModel, Bin!Nearest(v))
                     ELSE bModel
        /\ marker' = [marker EXCEPT !.at = Bin!At(bModel'.bin), !.astray = FALSE]
        /\ shown' = Bin!Rendered(bModel')
    BY <1>3 DEF Bin!SetFrequency, Bin!SelectFrequency
  <2>2. IsBinModel(bModel') /\ bModel'.bin = Bin!Nearest(v)
    <3>1. IsBinModel(bModel)
      BY DEF BinIInv
    <3>2. IsBinModel(Bin!Kept!SelectBin(bModel, Bin!Nearest(v)))
          /\ Bin!Kept!SelectBin(bModel, Bin!Nearest(v)).bin = Bin!Nearest(v)
      BY <3>1, <1>1, BinSelectIs
    <3> QED
      BY <2>1, <3>1, <3>2
  <2>3. Bin!At(bModel'.bin) \in Bin!Positions
    BY <1>1, <2>2, NearestIs
  <2>4. DOMAIN marker' = {"at", "held", "astray"} /\ marker'.at = Bin!At(bModel'.bin)
    BY <2>1 DEF BinIInv
  <2>5. Fringed(shown', bModel'.bin, linear, visible)
    BY <2>1, <2>2, RenderedIs DEF BinIInv, IsBinModel, Fringed, Curved
  <2> QED
    BY <1>1, <2>2, <2>3, <2>4, <2>5
       DEF BinIInv, Bin!MarkerAtBin, Fringed, Curved, IsBinModel, HasCurves, BinSample
<1> QED
  BY <1>2, <1>3

LEMMA FrameKept ==
  ASSUME Bin!BinAssumption, BinIInv, NEW skipped \in 0 .. 1, NEW late \in Lates,
         NEW restart \in BOOLEAN, NEW q \in Qualities, Bin!Frame(skipped, late, restart, q)
  PROVE  BinIInv'
<1> DEFINE f == IF restart THEN [s |-> bSent.s + 1, id |-> 1, t |-> bSent.t + 2 + late, q |-> q]
                ELSE [s |-> bSent.s, id |-> bSent.id + 1 + skipped,
                      t |-> bSent.t + (2 * (1 + skipped)) + late, q |-> q]
<1>1. /\ bSent' = f /\ bModel' = Bin!Kept!Push(bModel, f)
      /\ shown' = IF bPaused THEN shown ELSE Bin!Rendered(bModel')
      /\ UNCHANGED <<spin, marker, bPaused, linear, visible, hover>>
  BY DEF Bin!Frame
<1>2. f \in BinFrame
  <2>1. bSent.s \in Nat /\ bSent.id \in Nat /\ bSent.t \in Nat /\ late \in Nat
    <3>1. bSent \in [s : Nat, id : Nat, t : Nat, q : Qualities \cup {"good"}]
      BY DEF BinIInv
    <3>2. late \in {0, 3}
      BY DEF Bin!BinAssumption
    <3> QED
      BY <3>1, <3>2
  <2> QED
    BY <2>1 DEF BinFrame
<1> HIDE DEF f
<1>3. IsBinModel(bModel') /\ bModel'.bin = bModel.bin
  BY <1>1, <1>2, PushKeepsBin DEF BinIInv
<1>4. bSent' \in [s : Nat, id : Nat, t : Nat, q : Qualities \cup {"good"}]
  BY <1>1, <1>2 DEF BinFrame
<1>5. Fringed(shown', bModel'.bin, linear, visible)
  <2>1. CASE bPaused
    BY <2>1, <1>1, <1>3 DEF BinIInv
  <2>2. CASE ~bPaused
    BY <2>2, <1>1, <1>3, RenderedIs DEF BinIInv, IsBinModel, Fringed, Curved
  <2> QED
    BY <2>1, <2>2
<1> QED
  BY <1>1, <1>3, <1>4, <1>5 DEF BinIInv, Bin!MarkerAtBin

LEMMA MarkerKept ==
  ASSUME Bin!BinAssumption, BinIInv, Bin!ReleaseMarker PROVE BinIInv'
<1> DEFINE b == Bin!Nearest(marker.at)
<1>0. CASE bPaused
  <2>1. /\ marker' = [marker EXCEPT !.held = FALSE, !.astray = TRUE]
        /\ UNCHANGED <<bSent, spin, bModel, shown, bPaused, linear, visible>>
    BY <1>0 DEF Bin!ReleaseMarker
  <2>2. DOMAIN marker' = {"at", "held", "astray"} /\ marker'.at = marker.at /\ marker'.astray
    BY <2>1 DEF BinIInv
  <2> QED
    BY <2>1, <2>2 DEF BinIInv, Bin!MarkerAtBin
<1> SUFFICES ASSUME ~bPaused PROVE BinIInv'
  BY <1>0
<1>1. Bin!CommitMarker /\ UNCHANGED <<bSent, bPaused, linear, visible, hover>>
  BY DEF Bin!ReleaseMarker
<1>2. b \in 0 .. MaxBin /\ Bin!At(b) \in Bin!Positions /\ Bin!Nearest(Bin!At(b)) = b
  BY NearestIs DEF BinIInv
<1>3. CASE b = bModel.bin
  BY <1>1, <1>2, <1>3 DEF BinIInv, Bin!MarkerAtBin, Bin!CommitMarker, Bin!Put
<1>4. CASE b # bModel.bin
  <2>1. /\ spin' = Bin!At(b) /\ bModel' = Bin!Kept!SelectBin(bModel, b)
        /\ shown' = Bin!Rendered(bModel')
        /\ marker' = Bin!Put(bModel'.bin)
    BY <1>1, <1>4 DEF Bin!CommitMarker
  <2> HIDE DEF b
  <2>2. IsBinModel(bModel') /\ bModel'.bin = b
    BY <1>2, <2>1, BinSelectIs DEF BinIInv
  <2>3. Fringed(shown', bModel'.bin, linear, visible)
    BY <2>1, <2>2, RenderedIs DEF BinIInv, IsBinModel, Fringed, Curved
  <2>4. DOMAIN marker' = {"at", "held", "astray"} /\ marker'.at = Bin!At(b)
    BY <2>1, <2>2 DEF Bin!Put
  <2> QED
    BY <1>1, <1>2, <2>1, <2>2, <2>3, <2>4 DEF BinIInv, Bin!MarkerAtBin
<1> QED
  BY <1>3, <1>4

LEMMA BinBegins == ASSUME Bin!BinAssumption, Bin!Init PROVE BinIInv
<1>1. /\ 0 \in 0 .. MaxBin /\ Bin!At(0) \in Bin!Positions /\ Bin!Nearest(Bin!At(0)) = 0
      /\ 0 \in Nat /\ 1 \in Nat
  <2>1. MaxBin \in Nat
    BY DEF Bin!BinAssumption
  <2> QED
    BY <2>1, NearestIs
<1>2. bSent \in [s : Nat, id : Nat, t : Nat, q : Qualities \cup {"good"}]
  BY <1>1 DEF Bin!Init
<1>3. IsBinModel(bModel) /\ bModel.bin = 0
  BY <1>1 DEF Bin!Init, IsBinModel
<1>4. Bin!Curve(<<>>) = <<>>
  <2>1. DOMAIN <<>> = {} /\ \A f : [i \in {} |-> f] = <<>> /\ Len(<<>>) = 0
    OBVIOUS
  <2> QED
    BY <2>1 DEF Bin!Curve, Bin!FlattenSeq
<1>5. Bin!Fringe(<<>>, <<>>, 0, FALSE) = <<>>
  <2> DEFINE q == Bin!Fringe(<<>>, <<>>, 0, FALSE)
  <2>1. q = [i \in DOMAIN q |-> q[i]] /\ DOMAIN q = DOMAIN Bin!Curve(<<>>)
    BY DEF Bin!Fringe
  <2> HIDE DEF q
  <2>2. q = <<>>
    BY <1>4, <2>1
  <2> QED
    BY <2>2 DEF q
<1>6. Fringed(shown, 0, linear, visible)
  <2>1. <<>> \in Seq(BinSample(0))
    OBVIOUS
  <2>2. HasCurves(shown) /\ shown.label = 0 /\ shown.trace = <<>> /\ shown.rows = <<>>
        /\ shown.gamma = <<>> /\ shown.power = <<>> /\ shown.fringe = <<>> /\ linear = FALSE
    BY DEF Bin!Init, HasCurves
  <2> QED
    BY <2>1, <2>2, <1>4, <1>5 DEF Fringed, Curved
<1> QED
  BY <1>1, <1>2, <1>3, <1>6 DEF Bin!Init, BinIInv, Bin!MarkerAtBin, Bin!At

LEMMA BinKept ==
  ASSUME Bin!BinAssumption, BinIInv, [Bin!Next]_(Bin!vars) PROVE BinIInv'
<1>1. CASE UNCHANGED Bin!vars
  BY <1>1 DEF Bin!vars, BinIInv, Bin!MarkerAtBin
<1>2. ASSUME NEW skipped \in 0 .. 1, NEW late \in Lates, NEW restart \in BOOLEAN,
             NEW q \in Qualities, Bin!Frame(skipped, late, restart, q)
      PROVE  BinIInv'
  BY <1>2, FrameKept
<1>3. ASSUME NEW v \in Bin!Positions, Bin!EditFrequency(v) PROVE BinIInv'
  BY <1>3, FrequencyKept DEF Bin!EditFrequency
<1>4. ASSUME NEW delta \in {-1, 1}, Bin!StepBin(delta) PROVE BinIInv'
  <2> DEFINE b == Bin!Clip(bModel.bin + delta)
  <2>1. b \in 0 .. MaxBin
    BY DEF Bin!Clip, BinIInv, IsBinModel, Bin!BinAssumption
  <2> HIDE DEF b
  <2>2. Bin!At(b) \in Bin!Positions
    BY <2>1, NearestIs
  <2> QED
    BY <1>4, <2>2, FrequencyKept DEF Bin!StepBin, b
<1>5. ASSUME NEW b \in 0 .. MaxBin, Bin!Click(b) \/ Bin!Snap(b) PROVE BinIInv'
  <2>1. Bin!At(b) \in Bin!Positions
    BY NearestIs
  <2> QED
    BY <1>5, <2>1, FrequencyKept DEF Bin!Click, Bin!Snap
<1>6. ASSUME NEW v \in Bin!Positions, Bin!DragMarker(v) PROVE BinIInv'
  BY <1>6 DEF Bin!DragMarker, BinIInv, Bin!MarkerAtBin
<1>7. CASE Bin!ReleaseMarker
  BY <1>7, MarkerKept
<1>8. CASE Bin!TogglePause
  <2>1. Fringed(shown', bModel.bin, linear, visible)
    BY <1>8, RenderedIs DEF Bin!TogglePause, BinIInv, IsBinModel, Fringed, Curved
  <2> QED
    BY <1>8, <2>1 DEF Bin!TogglePause, BinIInv, Bin!MarkerAtBin
<1>9. CASE Bin!ShowFringe
  BY <1>9, FringeDrawn DEF Bin!ShowFringe, BinIInv, Bin!MarkerAtBin, Fringed
<1>10. CASE Bin!SetMode
  BY <1>10, FringeDrawn DEF Bin!SetMode, BinIInv, Bin!MarkerAtBin, Fringed
<1>11. ASSUME NEW plot, NEW at, Bin!Hover(plot, at) PROVE BinIInv'
  BY <1>11 DEF Bin!Hover, BinIInv, Bin!MarkerAtBin
<1> QED
  BY <1>1, <1>2, <1>3, <1>4, <1>5, <1>6, <1>7, <1>8, <1>9, <1>10, <1>11 DEF Bin!Next

\* OneBinIsShown: after keys, clicks, drags, pauses and frames in any order, the
\* spin box, the label and all curves are of the bin that is followed, and so is a
\* marker that is not dragged, unless it was let go in a pause that began in the
\* drag and has not been put to a bin since; all curves are of the samples of one
\* trace, a line joins neighbours only, and a point of the fringes has its two
\* factors from one observation.  (viewer_fx.py select_frequency(), step_bin(),
\* render(), _commit_marker_bin(), build_fringe_series())
THEOREM OneBinStays ==
  ASSUME Bin!BinAssumption PROVE Bin!Spec => []OneBinIsShown
<1>1. Bin!Init => BinIInv
  BY BinBegins
<1>2. BinIInv /\ [Bin!Next]_(Bin!vars) => BinIInv'
  BY BinKept
<1>3. BinIInv => OneBinIsShown
  <2> SUFFICES ASSUME BinIInv PROVE OneBinIsShown
    OBVIOUS
  <2>1. Bin!DrawnOfOneBin /\ Bin!DrawnOfOneTrace /\ Bin!FringeOfOneFrame
    BY ShownTrue DEF BinIInv
  <2>2. Bin!LinesJoinNeighbours
    BY LinesTrue DEF BinIInv, Fringed
  <2>3. Bin!SpinNamesBin /\ Bin!MarkerAtBin
    BY DEF BinIInv, Bin!SpinNamesBin, Bin!MarkerAtBin
  <2> QED
    BY <2>1, <2>2, <2>3 DEF OneBinIsShown, Bin!OneBinIsShown
<1> QED
  BY <1>1, <1>2, <1>3, PTL DEF Bin!Spec

-----------------------------------------------------------------------------
(* The rolling median.                                                     *)

\* The frames of a run, by the first and their number; what a signature says of
\* the frames of its residual.
Run(f, n) == {[s |-> f.s, id |-> f.id + k, t |-> f.t + 2 * k] : k \in 0 .. n - 1}
Made(sig) == IF sig.count < sig.c.min THEN {} ELSE Run(sig.first, sig.count)

\* What a computation makes from nothing.
Fresh(rows, c) ==
  [f \in {rows[i] : i \in Frames(rows)} |->
     [signature |-> Signature(rows, c, At(rows, f)),
      residual |-> Made(Signature(rows, c, At(rows, f)))]]

Full(rows, groups) ==
  {g \in ToSet(groups) : Cardinality(Members(rows, g)) = g.last.id - g.first.id + 1}

FreshDeep(rows, groups, c) ==
  [g \in Full(rows, groups) |-> {Fresh(rows, c)[rows[i]].residual : i \in Members(rows, g)}]

\* A cache, and the means beside it, that may be given to a worker: a residual
\* is what its signature says, and a mean is of all frames of its group, as the
\* cache has them.
Signed(cache) ==
  /\ IsFiniteSet(DOMAIN cache)
  /\ \A f \in DOMAIN cache : cache[f].residual = Made(cache[f].signature)

InGroup(cache, g) == {f \in DOMAIN cache : f.s = g.first.s /\ Covers(g, f)}

Usable(cache, means) ==
  /\ Signed(cache)
  /\ \A g \in DOMAIN means :
       /\ Cardinality(InGroup(cache, g)) = g.last.id - g.first.id + 1
       /\ means[g] = {cache[f].residual : f \in InGroup(cache, g)}

Rowed(rows) == \E top : Numbered(rows, top)

\* The settings of all residuals that are kept.
MadeFor(cache, c) == \A f \in DOMAIN cache : cache[f].signature.c = c

\* The fields of a worker and of a controller.
IsWorker(w) ==
  DOMAIN w = {"state", "token", "source", "base", "config", "cache", "deep", "offer", "asked"}

IsRoll(r) ==
  /\ DOMAIN r = {"config", "signature", "source", "suspended", "failed", "cache", "deep", "base",
                 "worker", "stale"}
  /\ r.config \in [enabled : BOOLEAN, clip : BOOLEAN, of : Settings] /\ IsWorker(r.worker)

WorkerOk(w, c) ==
  /\ w.token => w.config = c
  /\ w.state \in {"running", "ready"} =>
       Usable(w.cache, w.deep) /\ Rowed(w.base.rows) /\ w.config \in Settings
  /\ w.state = "ready" =>
       /\ w.cache = LiveCache(w.base.rows, w.config, None)
       /\ w.deep = LiveDeep(w.base.rows, w.base.groups, w.config, None, None)
       /\ MadeFor(w.cache, w.config)

Exact(r) ==
  r.base # NoBase =>
    /\ r.cache = LiveCache(r.base.rows, r.config.of, None)
    /\ r.deep = LiveDeep(r.base.rows, r.base.groups, r.config.of, None, None)

RollOk(r) ==
  /\ IsRoll(r) /\ Usable(r.cache, r.deep) /\ MadeFor(r.cache, r.config.of) /\ Exact(r)
  /\ WorkerOk(r.worker, r.config.of)

\* The settings of what is drawn, and that it is what the readout says.
DrawnFor(im, config) ==
  \A i \in DOMAIN im.fast :
    im.rows[i] # Gap =>
      IF config.enabled THEN im.fast[i].c \in {Pending, config.of} ELSE im.fast[i] = Off

DrawnAs(im, r) ==
  /\ \A i \in DOMAIN im.rows : im.rows[i] # Gap => im.fast[i].of = FastValue(r, im.rows[i]).of
  /\ \A n \in DOMAIN im.groups : im.deep[n].of = DeepValue(r, im.groups[n]).of

RollIInv ==
  /\ HistoryInv
  /\ RollOk(roll)
  /\ DrawnFor(image, roll.config) /\ (roll.stale \/ DrawnAs(image, roll))
-----------------------------------------------------------------------------
LEMMA FieldsIs ==
  ASSUME NEW f \in FrameRec
  PROVE  f.s \in Nat /\ f.id \in Nat /\ f.t \in Nat /\ f = [s |-> f.s, id |-> f.id, t |-> f.t]
BY DEF FrameRec

LEMMA RowIs ==
  ASSUME NEW rows, NEW top, Numbered(rows, top)
  PROVE  /\ rows \in Seq(FrameRec) /\ Len(rows) \in Nat /\ DOMAIN rows = 1 .. Len(rows)
         /\ \A i \in Frames(rows) :
              /\ i \in 1 .. Len(rows) /\ rows[i] # Gap /\ rows[i] \in FrameRec
              /\ At(rows, rows[i]) = i
         /\ \A i, j \in Frames(rows) : rows[i] = rows[j] => i = j
<1>1. rows \in Seq(FrameRec) /\ Len(rows) \in Nat /\ DOMAIN rows = 1 .. Len(rows)
  BY DEF Numbered
<1>2. \A i \in Frames(rows) : i \in 1 .. Len(rows) /\ rows[i] # Gap /\ rows[i] \in FrameRec
  BY <1>1 DEF Frames
<1>3. ASSUME NEW i \in Frames(rows), NEW j \in Frames(rows), rows[i] = rows[j] PROVE i = j
  <2>1. IsFrame(top)
    BY <1>1, <1>2 DEF Numbered
  <2>2. rows[i].id = top.id - (Len(rows) - i) /\ rows[j].id = top.id - (Len(rows) - j)
    BY <1>2 DEF Numbered
  <2>3. top.id - (Len(rows) - i) = top.id - (Len(rows) - j)
    BY <1>3, <2>2
  <2>4. top.id \in Nat /\ i \in Nat /\ j \in Nat
    BY <1>1, <1>2, <2>1, SMTT(30) DEF IsFrame, FrameRec
  <2> DEFINE a == top.id
             n == Len(rows)
  <2> HIDE DEF a, n
  <2>5. a - (n - i) = a - (n - j) /\ a \in Nat /\ n \in Nat
    BY <1>1, <2>3, <2>4 DEF a, n
  <2> QED
    BY <2>4, <2>5
<1>4. \A i \in Frames(rows) : At(rows, rows[i]) = i
  BY <1>3 DEF At
<1> QED
  BY <1>1, <1>2, <1>3, <1>4

\* A run of frames that nothing breaks.
Unbroken(rows, a, b) == \A k \in a .. b : rows[k] # Gap /\ (k = a \/ ~Broken(rows, k))

LEMMA RunIs ==
  ASSUME NEW rows, NEW top, Numbered(rows, top), NEW a \in 1 .. Len(rows), NEW b \in 1 .. Len(rows),
         Unbroken(rows, a, b)
  PROVE  \A k \in a .. b :
           rows[k] = [s |-> rows[a].s, id |-> rows[a].id + (k - a), t |-> rows[a].t + 2 * (k - a)]
<1> DEFINE want(k) == [s |-> rows[a].s, id |-> rows[a].id + (k - a), t |-> rows[a].t + 2 * (k - a)]
           T == {k \in a .. b : rows[k] # want(k)}
<1>1. rows \in Seq(FrameRec) /\ Len(rows) \in Nat /\ a \in Nat /\ b \in Nat
  BY RowIs
<1>2. SUFFICES ASSUME T # {} PROVE FALSE
  OBVIOUS
<1>3. T \subseteq 1 .. b
  BY <1>1
<1>4. PICK m \in T : \A k \in T : m <= k
  <2> HIDE DEF T
  <2> QED
    BY <1>1, <1>2, <1>3, FirstIs
<1>5. m \in a .. b /\ rows[m] # want(m) /\ m \in Nat
  BY <1>1, <1>4
<1>6. \A k \in a .. b : k \in 1 .. Len(rows) /\ rows[k] \in FrameRec
  BY <1>1
<1>7. m # a
  <2>1. a \in a .. b
    BY <1>1, <1>5
  <2>2. rows[a] \in FrameRec
    BY <2>1, <1>6
  <2> DEFINE u == rows[a].id
             v == rows[a].t
  <2>5. u \in Nat /\ v \in Nat
    BY <2>2, FieldsIs
  <2> HIDE DEF u, v
  <2>3. u + (a - a) = u /\ v + 2 * (a - a) = v
    BY <2>5, <1>1
  <2>4. rows[a] = want(a)
    BY <2>2, <2>3, FieldsIs DEF u, v
  <2> QED
    BY <2>4, <1>5
<1>8. m - 1 \in a .. b /\ m - 1 \notin T
  BY <1>1, <1>4, <1>5, <1>7
<1>9. rows[m - 1] = want(m - 1)
  BY <1>8
<1>10. ~Broken(rows, m) /\ rows[m] # Gap
  BY <1>5, <1>7 DEF Unbroken
<1>11. /\ rows[m - 1] # Gap /\ rows[m].s = rows[m - 1].s /\ rows[m].id = rows[m - 1].id + 1
       /\ ~(rows[m].t <= rows[m - 1].t) /\ ~(rows[m].t - rows[m - 1].t > 3)
  BY <1>10 DEF Broken
<1>12. m - 1 \in 1 .. Len(rows) - 1 /\ (m - 1) + 1 = m
  BY <1>1, <1>5, <1>7, SMTT(30)
<1>13. rows[m].t - rows[m - 1].t \in {2, 5}
  BY <1>10, <1>11, <1>12 DEF Numbered
<1>14. rows[m] \in FrameRec /\ rows[m - 1] \in FrameRec /\ rows[a] \in FrameRec
  BY <1>1, <1>5, <1>6, <1>8
<1>15. rows[m].t = rows[m - 1].t + 2
  <2> DEFINE u == rows[m - 1].t
             v == rows[m].t
  <2>1. u \in Nat /\ v \in Nat
    BY <1>14, FieldsIs
  <2>2. v - u \in {2, 5} /\ ~(v - u > 3)
    BY <1>11, <1>13
  <2> HIDE DEF u, v
  <2>3. v = u + 2
    BY <2>1, <2>2
  <2> QED
    BY <2>3 DEF u, v
<1> HIDE DEF T
<1> DEFINE f == rows[a]
           g == rows[m - 1]
           h == rows[m]
<1>16. /\ g = [s |-> f.s, id |-> f.id + (m - 1 - a), t |-> f.t + 2 * (m - 1 - a)]
       /\ h.s = g.s /\ h.id = g.id + 1 /\ h.t = g.t + 2 /\ h \in FrameRec /\ f \in FrameRec
       /\ h # [s |-> f.s, id |-> f.id + (m - a), t |-> f.t + 2 * (m - a)]
  BY <1>5, <1>9, <1>11, <1>14, <1>15
<1> HIDE DEF f, g, h
<1>17. /\ g.s = f.s /\ g.id = f.id + (m - 1 - a) /\ g.t = f.t + 2 * (m - 1 - a)
       /\ f.id \in Nat /\ f.t \in Nat
  BY <1>16, FieldsIs
<1>18. h.s = f.s /\ h.id = f.id + (m - a) /\ h.t = f.t + 2 * (m - a)
  <2> DEFINE u == f.id
             v == f.t
             x == h.id
             y == h.t
             d == m - 1 - a
             p == g.id
             q == g.t
  <2>1. /\ u \in Nat /\ v \in Nat /\ p = u + d /\ q = v + 2 * d /\ x = p + 1 /\ y = q + 2
    BY <1>16, <1>17
  <2> HIDE DEF u, v, x, y, p, q
  <2>2. x = u + (m - a) /\ y = v + 2 * (m - a)
    <3>1. m \in Nat /\ a \in Nat
      BY <1>1, <1>5
    <3> QED
      BY <2>1, <3>1
  <2> QED
    BY <2>2, <1>16, <1>17 DEF u, v, x, y
<1> QED
  BY <1>16, <1>18, FieldsIs

LEMMA TimesAre ==
  ASSUME NEW rows, NEW top, Numbered(rows, top), NEW a \in 1 .. Len(rows), NEW b \in 1 .. Len(rows),
         Unbroken(rows, a, b)
  PROVE  \A k \in a .. b : rows[k].t = rows[a].t + 2 * (k - a)
<1> SUFFICES ASSUME NEW k \in a .. b PROVE rows[k].t = rows[a].t + 2 * (k - a)
  OBVIOUS
<1>1. rows[k] = [s |-> rows[a].s, id |-> rows[a].id + (k - a), t |-> rows[a].t + 2 * (k - a)]
  BY RunIs
<1> QED
  BY <1>1

LEMMA WindowIs ==
  ASSUME NEW rows, NEW top, Numbered(rows, top), SettingsAssumption, NEW c \in Settings,
         NEW i \in Frames(rows)
  PROVE  \E a, b \in 1 .. Len(rows) :
           /\ a <= i /\ i <= b /\ Window(rows, c, i) = a .. b /\ Unbroken(rows, a, b)
<1> DEFINE n == Len(rows)
           W == Window(rows, c, i)
           before == IF c.centered THEN c.window \div 2 ELSE c.window
           after == IF c.centered THEN c.window \div 2 ELSE 0
           a == Min(W)
           b == Max(W)
<1>1. rows \in Seq(FrameRec) /\ n \in Nat /\ DOMAIN rows = 1 .. n /\ i \in 1 .. n /\ rows[i] # Gap
  BY RowIs
<1>2. before \in Nat /\ after \in Nat
  BY DEF SettingsAssumption
<1> HIDE DEF before, after
<1>3. \A j : j \in W <=> /\ j \in 1 .. n /\ SameSegment(rows, i, j)
                         /\ rows[i].t - before <= rows[j].t /\ rows[j].t <= rows[i].t + after
  BY <1>1 DEF Window, before, after
<1>4. \A k \in 1 .. n : rows[k] \in FrameRec /\ rows[k].t \in Nat
  BY <1>1, FieldsIs
<1>5. i \in W
  <2>1. SameSegment(rows, i, i)
    BY <1>1 DEF SameSegment, Lesser, Greater
  <2>2. rows[i].t \in Nat
    BY <1>1, <1>4
  <2>3. rows[i].t - before <= rows[i].t /\ rows[i].t <= rows[i].t + after
    BY <1>2, <2>2
  <2> QED
    BY <1>1, <1>3, <2>1, <2>3
<1>6. W \subseteq 1 .. n
  BY <1>3
<1> HIDE DEF W
<1>7. a \in W /\ b \in W /\ \A k \in W : a <= k /\ k <= b
  BY <1>1, <1>5, <1>6, FirstIs, LastIs DEF a, b
<1> HIDE DEF a, b
<1>8. a \in 1 .. n /\ b \in 1 .. n /\ a <= i /\ i <= b
  BY <1>5, <1>6, <1>7
<1>9. \A j \in 1 .. n : i <= j /\ SameSegment(rows, i, j) => Unbroken(rows, i, j)
  <2> SUFFICES ASSUME NEW j \in 1 .. n, i <= j, SameSegment(rows, i, j) PROVE Unbroken(rows, i, j)
    OBVIOUS
  <2>1. Lesser(i, j) = i /\ Greater(i, j) = j
    BY <1>1 DEF Lesser, Greater
  <2> QED
    BY <2>1 DEF SameSegment, Unbroken
<1>10. \A j \in 1 .. n : j <= i /\ SameSegment(rows, i, j) => Unbroken(rows, j, i)
  <2> SUFFICES ASSUME NEW j \in 1 .. n, j <= i, SameSegment(rows, i, j) PROVE Unbroken(rows, j, i)
    OBVIOUS
  <2>1. Lesser(i, j) = j /\ Greater(i, j) = i
    BY <1>1 DEF Lesser, Greater
  <2> QED
    BY <2>1 DEF SameSegment, Unbroken
<1>11. Unbroken(rows, a, i) /\ Unbroken(rows, i, b)
  BY <1>3, <1>7, <1>8, <1>9, <1>10
<1>12. Unbroken(rows, a, b)
  <2> SUFFICES ASSUME NEW k \in a .. b PROVE rows[k] # Gap /\ (k = a \/ ~Broken(rows, k))
    BY DEF Unbroken
  <2>0. a \in Nat /\ b \in Nat /\ i \in Nat /\ k \in Nat /\ a <= k /\ k <= b
    BY <1>1, <1>8
  <2>1. CASE k <= i
    <3>1. k \in a .. i
      BY <2>0, <2>1
    <3> QED
      BY <3>1, <1>11 DEF Unbroken
  <2>2. CASE i < k
    <3>1. k \in i .. b /\ k # i
      BY <2>0, <2>2
    <3> QED
      BY <3>1, <1>11 DEF Unbroken
  <2> QED
    BY <2>0, <2>1, <2>2
<1>13. ASSUME NEW k \in a .. b PROVE k \in W
  <2>0. k \in 1 .. n /\ k \in Nat
    BY <1>1, <1>8
  <2>1. CASE i <= k
    <3>1. Lesser(i, k) = i /\ Greater(i, k) = k
      BY <1>1, <2>0, <2>1 DEF Lesser, Greater
    <3>2. \A x \in i .. k : x \in i .. b
      BY <1>1, <1>8, <2>0
    <3>3. SameSegment(rows, i, k)
      BY <3>1, <3>2, <1>11 DEF SameSegment, Unbroken
    <3>4. k \in i .. b /\ b \in i .. b
      BY <1>1, <1>8, <2>0, <2>1
    <3>5. rows[k].t = rows[i].t + 2 * (k - i) /\ rows[b].t = rows[i].t + 2 * (b - i)
      <4>1. \A x \in i .. b : rows[x].t = rows[i].t + 2 * (x - i)
        BY <1>1, <1>8, <1>11, TimesAre
      <4> QED
        BY <3>4, <4>1
    <3>6. rows[b].t <= rows[i].t + after
      BY <1>3, <1>7
    <3> DEFINE u == rows[i].t
               v == rows[k].t
               w == rows[b].t
    <3>7. u \in Nat /\ v = u + 2 * (k - i) /\ w = u + 2 * (b - i) /\ w <= u + after
      BY <1>1, <1>4, <3>5, <3>6
    <3> HIDE DEF u, v, w
    <3>8. u - before <= v /\ v <= u + after
      <4>1. k - i \in Nat /\ b - i \in Nat /\ k - i <= b - i
        BY <1>1, <1>8, <2>0, <2>1
      <4> DEFINE p == k - i
                 q == b - i
      <4>2. p \in Nat /\ q \in Nat /\ p <= q /\ v = u + 2 * p /\ w = u + 2 * q
        BY <4>1, <3>7
      <4> HIDE DEF p, q
      <4> QED
        BY <4>2, <3>7, <1>2
    <3> QED
      BY <1>3, <2>0, <3>3, <3>8 DEF u, v
  <2>2. CASE k < i
    <3>1. Lesser(i, k) = k /\ Greater(i, k) = i
      BY <1>1, <2>0, <2>2 DEF Lesser, Greater
    <3>2. \A x \in k .. i : x \in a .. i /\ (x = k \/ x # a)
      BY <1>1, <1>8, <2>0
    <3>3. SameSegment(rows, i, k)
      BY <3>1, <3>2, <1>11 DEF SameSegment, Unbroken
    <3>4. k \in a .. i /\ i \in a .. i
      BY <1>1, <1>8, <2>0, <2>2
    <3>5. rows[k].t = rows[a].t + 2 * (k - a) /\ rows[i].t = rows[a].t + 2 * (i - a)
      <4>1. \A x \in a .. i : rows[x].t = rows[a].t + 2 * (x - a)
        BY <1>1, <1>8, <1>11, TimesAre
      <4> QED
        BY <3>4, <4>1
    <3>6. rows[i].t - before <= rows[a].t
      BY <1>3, <1>7
    <3> DEFINE u == rows[i].t
               v == rows[k].t
               w == rows[a].t
               p == k - a
               q == i - a
    <3>7. u \in Nat /\ w \in Nat /\ v = w + 2 * p /\ u = w + 2 * q /\ u - before <= w
      BY <1>1, <1>4, <1>8, <3>5, <3>6
    <3>8. p \in Nat /\ q \in Nat /\ p <= q
      BY <1>1, <1>8, <2>0, <2>2
    <3> HIDE DEF u, v, w, p, q
    <3>9. u - before <= v /\ v <= u + after
      BY <3>7, <3>8, <1>2
    <3> QED
      BY <1>3, <2>0, <3>3, <3>9 DEF u, v
  <2> QED
    BY <1>1, <2>0, <2>1, <2>2
<1>14. W = a .. b
  <2>1. \A k \in W : k \in a .. b
    BY <1>1, <1>6, <1>7, <1>8
  <2> QED
    BY <2>1, <1>13
<1> QED
  BY <1>8, <1>12, <1>14 DEF W

\* A residual is of the frames that its signature says.
LEMMA ResidualIs ==
  ASSUME NEW rows, NEW top, Numbered(rows, top), SettingsAssumption, NEW c \in Settings,
         NEW i \in Frames(rows)
  PROVE  Residual(rows, c, i) = Made(Signature(rows, c, i)) /\ Signature(rows, c, i).c = c
<1> DEFINE W == Window(rows, c, i)
<1>1. PICK a \in 1 .. Len(rows), b \in 1 .. Len(rows) :
        a <= i /\ i <= b /\ W = a .. b /\ Unbroken(rows, a, b)
  BY WindowIs
<1>2. a \in Nat /\ b \in Nat /\ i \in Nat /\ a <= b
  <2>1. Len(rows) \in Nat /\ i \in 1 .. Len(rows)
    BY RowIs
  <2> QED
    BY <2>1, <1>1
<1>3. Cardinality(W) = b - a + 1
  BY <1>1, <1>2, FS_Interval
<1>4. /\ (CHOOSE j \in W : \A k \in W : j <= k) = a
      /\ (CHOOSE j \in W : \A k \in W : k <= j) = b
  BY <1>1, <1>2
<1> DEFINE sig == [c |-> c, first |-> rows[a], last |-> rows[b], count |-> b - a + 1]
<1>5. Signature(rows, c, i) = sig
  BY <1>3, <1>4 DEF Signature
<1>6. \A k \in a .. b :
        rows[k] = [s |-> rows[a].s, id |-> rows[a].id + (k - a), t |-> rows[a].t + 2 * (k - a)]
  BY <1>1, RunIs
<1>7. {rows[j] : j \in a .. b} = Run(rows[a], b - a + 1)
  <2> DEFINE at(k) == [s |-> rows[a].s, id |-> rows[a].id + k, t |-> rows[a].t + 2 * k]
  <2>1. \A j \in a .. b : j - a \in 0 .. (b - a + 1) - 1 /\ rows[j] = at(j - a)
    BY <1>2, <1>6, SMTT(30)
  <2>2. \A k \in 0 .. (b - a + 1) - 1 : a + k \in a .. b /\ (a + k) - a = k
    BY <1>2
  <2>3. \A k \in 0 .. (b - a + 1) - 1 : a + k \in a .. b /\ rows[a + k] = at(k)
    BY <2>1, <2>2
  <2>4. Run(rows[a], b - a + 1) = {at(k) : k \in 0 .. (b - a + 1) - 1}
    BY DEF Run
  <2> HIDE DEF at
  <2>5. ASSUME NEW x \in {rows[j] : j \in a .. b} PROVE x \in {at(k) : k \in 0 .. (b - a + 1) - 1}
    BY <2>1, Zenon
  <2>6. ASSUME NEW x \in {at(k) : k \in 0 .. (b - a + 1) - 1} PROVE x \in {rows[j] : j \in a .. b}
    BY <2>3, Zenon
  <2> QED
    BY <2>4, <2>5, <2>6, Zenon
<1>8. Residual(rows, c, i) = IF b - a + 1 < c.min THEN {} ELSE {rows[j] : j \in a .. b}
  BY <1>1, <1>3 DEF Residual
<1>9. sig.c = c /\ sig.first = rows[a] /\ sig.count = b - a + 1
  OBVIOUS
<1> HIDE DEF sig
<1>10. Made(sig) = IF b - a + 1 < c.min THEN {} ELSE Run(rows[a], b - a + 1)
  BY <1>9 DEF Made
<1> QED
  BY <1>5, <1>7, <1>8, <1>9, <1>10

\* What is reused is what would be made.
LEMMA CacheIs ==
  ASSUME NEW rows, NEW top, Numbered(rows, top), SettingsAssumption, NEW c \in Settings,
         NEW prev, Signed(prev)
  PROVE  LiveCache(rows, c, prev) = Fresh(rows, c)
<1> SUFFICES ASSUME NEW f \in {rows[i] : i \in Frames(rows)}
             PROVE  (IF Reused(rows, c, prev, At(rows, f)) THEN prev[f].residual
                     ELSE Residual(rows, c, At(rows, f))) = Made(Signature(rows, c, At(rows, f)))
  BY DEF LiveCache, Fresh
<1>1. PICK i \in Frames(rows) : f = rows[i]
  OBVIOUS
<1>2. At(rows, f) = i
  BY <1>1, RowIs
<1>3. Residual(rows, c, i) = Made(Signature(rows, c, i))
  BY ResidualIs
<1>4. ASSUME Reused(rows, c, prev, i) PROVE prev[f].residual = Made(Signature(rows, c, i))
  BY <1>1, <1>4 DEF Reused, Signed
<1> QED
  BY <1>2, <1>3, <1>4

LEMMA NoneIs ==
  /\ DOMAIN None = {} /\ Usable(None, None) /\ \A c : MadeFor(None, c)
<1>1. DOMAIN None = {}
  BY DEF None
<1> QED
  BY <1>1, FS_EmptySet DEF Usable, Signed, MadeFor

\* The members of a group in the rows and in the cache of them.
LEMMA MembersAre ==
  ASSUME NEW rows, NEW top, Numbered(rows, top), NEW c, NEW g
  PROVE  /\ DOMAIN Fresh(rows, c) = {rows[i] : i \in Frames(rows)}
         /\ IsFiniteSet(DOMAIN Fresh(rows, c))
         /\ InGroup(Fresh(rows, c), g) = {rows[i] : i \in Members(rows, g)}
         /\ Cardinality(InGroup(Fresh(rows, c), g)) = Cardinality(Members(rows, g))
<1> DEFINE M == Members(rows, g)
           F == {rows[i] : i \in M}
           D == {rows[i] : i \in Frames(rows)}
<1>1. DOMAIN Fresh(rows, c) = D
  BY DEF Fresh
<1>2. Len(rows) \in Nat /\ Frames(rows) \subseteq 1 .. Len(rows) /\ M \subseteq Frames(rows)
  BY RowIs DEF Members
<1>3. IsFiniteSet(1 .. Len(rows))
  BY <1>2, FS_Interval
<1>4. IsFiniteSet(Frames(rows)) /\ IsFiniteSet(M)
  BY <1>2, <1>3, FS_Subset
<1>5. InGroup(Fresh(rows, c), g) = F
  BY <1>1 DEF InGroup, Members
<1> HIDE DEF M, F, D
<1> DEFINE h == [i \in M |-> rows[i]]
           all == [i \in Frames(rows) |-> rows[i]]
<1>6. h \in Bijection(M, F)
  <2>1. h \in [M -> F] /\ \A x \in F : \E i \in M : h[i] = x
    BY DEF F
  <2>2. \A i, j \in M : h[i] = h[j] => i = j
    BY <1>2, RowIs
  <2> QED
    BY <2>1, <2>2, Fun_IsBij
<1>7. Cardinality(F) = Cardinality(M)
  BY <1>4, <1>6, FS_Bijection DEF ExistsBijection
<1>8. all \in Surjection(Frames(rows), D)
  BY DEF D, Surjection
<1>9. IsFiniteSet(D)
  BY <1>4, <1>8, FS_Surjection
<1> QED
  BY <1>1, <1>5, <1>7, <1>9 DEF D, F, M

\* A mean that is kept is what would be made: the frames that the cache had of
\* its group are those that the rows have.
LEMMA DeepIs ==
  ASSUME NEW rows, NEW top, Numbered(rows, top), SettingsAssumption, NEW c \in Settings,
         NEW groups, NEW prev, NEW means, Usable(prev, means)
  PROVE  LiveDeep(rows, groups, c, prev, means) = FreshDeep(rows, groups, c)
<1> DEFINE cache == Fresh(rows, c)
           made(g) == {cache[rows[i]].residual : i \in Members(rows, g)}
           kept(g) == g \in DOMAIN means /\ \A i \in Members(rows, g) : Reused(rows, c, prev, i)
<1>1. Signed(prev) /\ LiveCache(rows, c, prev) = cache
  BY CacheIs DEF Usable
<1>2. \A i \in Frames(rows) : /\ cache[rows[i]].signature = Signature(rows, c, i)
                               /\ cache[rows[i]].residual = Made(Signature(rows, c, i))
  BY RowIs DEF Fresh
<1> HIDE DEF cache
<1>3. ASSUME NEW g \in Full(rows, groups), kept(g) PROVE means[g] = made(g)
  <2> DEFINE P == InGroup(prev, g)
             Q == InGroup(cache, g)
  <2>1. IsFiniteSet(P)
    <3>1. P \subseteq DOMAIN prev
      BY DEF InGroup
    <3> QED
      BY <3>1, <1>1, FS_Subset DEF Signed
  <2>2. Q = {rows[i] : i \in Members(rows, g)} /\ Cardinality(Q) = Cardinality(Members(rows, g))
    BY MembersAre DEF cache
  <2>3. Q \subseteq P
    <3> SUFFICES ASSUME NEW i \in Members(rows, g) PROVE rows[i] \in P
      BY <2>2
    <3>1. rows[i] \in DOMAIN prev
      BY <1>3 DEF Reused
    <3> QED
      BY <3>1 DEF InGroup, Members
  <2>4. Cardinality(P) = g.last.id - g.first.id + 1 /\ means[g] = {prev[f].residual : f \in P}
    BY <1>3 DEF Usable
  <2>5. Cardinality(Members(rows, g)) = g.last.id - g.first.id + 1
    BY DEF Full
  <2>6. P = Q
    BY <2>1, <2>2, <2>3, <2>4, <2>5, FS_Subset
  <2>7. \A i \in Members(rows, g) : prev[rows[i]].residual = cache[rows[i]].residual
    <3> SUFFICES ASSUME NEW i \in Members(rows, g)
                 PROVE  prev[rows[i]].residual = cache[rows[i]].residual
      OBVIOUS
    <3>1. rows[i] \in DOMAIN prev /\ prev[rows[i]].signature = Signature(rows, c, i)
      BY <1>3 DEF Reused
    <3>2. prev[rows[i]].residual = Made(Signature(rows, c, i))
      BY <3>1, <1>1 DEF Signed
    <3>3. i \in Frames(rows)
      BY DEF Members
    <3> QED
      BY <3>2, <3>3, <1>2
  <2>8. {prev[f].residual : f \in Q} = {prev[rows[i]].residual : i \in Members(rows, g)}
    BY <2>2
  <2> QED
    BY <2>4, <2>6, <2>7, <2>8
<1>4. LiveDeep(rows, groups, c, prev, means)
        = [g \in Full(rows, groups) |-> IF kept(g) THEN means[g] ELSE made(g)]
  BY <1>1 DEF LiveDeep, Full
<1>5. FreshDeep(rows, groups, c) = [g \in Full(rows, groups) |-> made(g)]
  BY DEF FreshDeep, cache
<1> HIDE DEF made, kept
<1> QED
  BY <1>3, <1>4, <1>5

\* A worker is given what it may use, and makes what may be given to the next.
LEMMA FreshUsable ==
  ASSUME NEW rows, NEW top, Numbered(rows, top), SettingsAssumption, NEW c \in Settings, NEW groups
  PROVE  Usable(Fresh(rows, c), FreshDeep(rows, groups, c)) /\ MadeFor(Fresh(rows, c), c)
<1> DEFINE cache == Fresh(rows, c)
           means == FreshDeep(rows, groups, c)
<1>1. IsFiniteSet(DOMAIN cache) /\ DOMAIN cache = {rows[i] : i \in Frames(rows)}
  BY MembersAre
<1>2. \A i \in Frames(rows) : /\ cache[rows[i]].signature = Signature(rows, c, i)
                               /\ cache[rows[i]].residual = Made(Signature(rows, c, i))
  BY RowIs DEF Fresh
<1>3. DOMAIN means = Full(rows, groups)
      /\ \A g \in Full(rows, groups) : means[g] = {cache[rows[i]].residual : i \in Members(rows, g)}
  BY DEF FreshDeep
<1> HIDE DEF cache, means
<1>4. Signed(cache)
  BY <1>1, <1>2 DEF Signed
<1>5. MadeFor(cache, c)
  BY <1>1, <1>2, ResidualIs DEF MadeFor
<1>6. ASSUME NEW g \in Full(rows, groups)
      PROVE  /\ Cardinality(InGroup(cache, g)) = g.last.id - g.first.id + 1
             /\ means[g] = {cache[f].residual : f \in InGroup(cache, g)}
  <2>1. /\ InGroup(cache, g) = {rows[i] : i \in Members(rows, g)}
        /\ Cardinality(InGroup(cache, g)) = Cardinality(Members(rows, g))
    BY MembersAre DEF cache
  <2>2. Cardinality(Members(rows, g)) = g.last.id - g.first.id + 1
    BY DEF Full
  <2>3. {cache[f].residual : f \in {rows[i] : i \in Members(rows, g)}}
          = {cache[rows[i]].residual : i \in Members(rows, g)}
    OBVIOUS
  <2> QED
    BY <1>3, <2>1, <2>2, <2>3
<1> QED
  BY <1>3, <1>4, <1>5, <1>6 DEF Usable, cache, means

\* What was made from a cache is what is made from nothing, and may be used.
LEMMA ComputedIs ==
  ASSUME NEW rows, Rowed(rows), SettingsAssumption, NEW c \in Settings,
         NEW groups, NEW prev, NEW means, Usable(prev, means)
  PROVE  LET cache == LiveCache(rows, c, prev)
             made == LiveDeep(rows, groups, c, prev, means)
         IN  /\ cache = LiveCache(rows, c, None) /\ made = LiveDeep(rows, groups, c, None, None)
             /\ Usable(cache, made) /\ MadeFor(cache, c)
<1>1. PICK top : Numbered(rows, top)
  BY DEF Rowed
<1>2. /\ LiveCache(rows, c, prev) = Fresh(rows, c)
      /\ LiveDeep(rows, groups, c, prev, means) = FreshDeep(rows, groups, c)
  BY <1>1, CacheIs, DeepIs DEF Usable
<1>3. /\ LiveCache(rows, c, None) = Fresh(rows, c)
      /\ LiveDeep(rows, groups, c, None, None) = FreshDeep(rows, groups, c)
  BY <1>1, NoneIs, CacheIs, DeepIs DEF Usable
<1> QED
  BY <1>1, <1>2, <1>3, FreshUsable

-----------------------------------------------------------------------------
\* The worker that another takes the place of, or that was cancelled.
LEMMA OutdatedIs ==
  ASSUME NEW w, IsWorker(w), NEW c, WorkerOk(w, c), NEW d
  PROVE  IsWorker(Outdated(w)) /\ WorkerOk(Outdated(w), d)
<1> DEFINE n == Outdated(w)
<1>1. IsWorker(n)
  BY DEF Outdated, IsWorker
<1>2. /\ n.token = FALSE /\ n.state = w.state /\ n.base = w.base /\ n.config = w.config
      /\ n.cache = w.cache /\ n.deep = w.deep
  BY DEF Outdated, IsWorker
<1> HIDE DEF n
<1>3. WorkerOk(n, d)
  BY <1>2 DEF WorkerOk
<1> QED
  BY <1>1, <1>3 DEF n

\* The fields that a drawing depends on.
SameValues(r, q) ==
  r.cache = q.cache /\ r.deep = q.deep /\ r.stale = q.stale /\ r.config = q.config

\* The settings are the same, and the values too, unless all is to be drawn anew.
Continues(r, q) == r.config = q.config /\ (r.stale = TRUE \/ SameValues(r, q))

LEMMA InvalidatedIs ==
  ASSUME NEW r, IsRoll(r), NEW c, WorkerOk(r.worker, c)
  PROVE  RollOk(Invalidated(r)) /\ Invalidated(r).stale = TRUE /\ Invalidated(r).config = r.config
<1> DEFINE n == Invalidated(r)
           w == Outdated(r.worker)
<1>1. IsWorker(r.worker) /\ r.config \in [enabled : BOOLEAN, clip : BOOLEAN, of : Settings]
  BY DEF IsRoll
<1>2. IsWorker(w) /\ WorkerOk(w, r.config.of)
  BY <1>1, OutdatedIs
<1> HIDE DEF w
<1>3. /\ DOMAIN n = DOMAIN r /\ n.cache = None /\ n.deep = None /\ n.base = NoBase
      /\ n.stale = TRUE /\ n.worker = w /\ n.config = r.config
  BY DEF Invalidated, IsRoll, w
<1> HIDE DEF n
<1>4. IsRoll(n)
  BY <1>1, <1>2, <1>3 DEF IsRoll
<1>5. Exact(n)
  BY <1>3 DEF Exact
<1>6. RollOk(n)
  BY <1>2, <1>3, <1>4, <1>5, NoneIs DEF RollOk
<1> QED
  BY <1>3, <1>6 DEF n

\* A change of fields that nothing here depends on.
LEMMA SameRoll ==
  ASSUME NEW r, RollOk(r), NEW q, DOMAIN q = DOMAIN r, q.config = r.config, q.cache = r.cache,
         q.deep = r.deep, q.base = r.base, q.worker = r.worker
  PROVE  RollOk(q)
<1>1. IsRoll(q)
  BY DEF RollOk, IsRoll
<1>2. Exact(q)
  BY DEF RollOk, Exact
<1> QED
  BY <1>1, <1>2 DEF RollOk

\* The snapshots that a worker may be given.
Base(v, m, d, stopped) ==
  IF stopped THEN [rows |-> v.rows, groups |-> v.groups] ELSE [rows |-> m.rows, groups |-> d.history]

LEMMA PulsedIs ==
  ASSUME NEW r, RollOk(r), NEW v, NEW m, NEW d, NEW stopped, Rowed(v.rows), Rowed(m.rows)
  PROVE  RollOk(Pulsed(r, v, m, d, stopped)) /\ Continues(Pulsed(r, v, m, d, stopped), r)
<1> DEFINE identity == Identity(v, m, stopped)
           x == [r EXCEPT !.source = identity]
           q == IF identity = r.source THEN r ELSE Invalidated(x)
           base == Base(v, m, d, stopped)
           w == [state |-> "running", token |-> TRUE, source |-> q.source, base |-> base,
                 config |-> q.config.of, cache |-> q.cache, deep |-> q.deep, offer |-> TRUE,
                 asked |-> FALSE]
           n == [q EXCEPT !.signature = base, !.worker = w]
<1>1. Pulsed(r, v, m, d, stopped) \in {r, q, n}
  BY DEF Pulsed, Base
<1> HIDE DEF identity
<1>2. RollOk(q) /\ q.config = r.config /\ (q.stale = TRUE \/ SameValues(q, r))
  <2>1. CASE identity = r.source
    BY <2>1 DEF SameValues
  <2>2. CASE identity # r.source
    <3>1. /\ DOMAIN x = DOMAIN r /\ x.config = r.config /\ x.cache = r.cache /\ x.deep = r.deep
          /\ x.base = r.base /\ x.worker = r.worker
      BY DEF RollOk, IsRoll
    <3>2. RollOk(x)
      BY <3>1, SameRoll
    <3> HIDE DEF x
    <3>3. IsRoll(x) /\ WorkerOk(x.worker, x.config.of)
      BY <3>2 DEF RollOk
    <3>4. RollOk(Invalidated(x)) /\ Invalidated(x).stale = TRUE /\ Invalidated(x).config = x.config
      BY <3>3, InvalidatedIs
    <3> QED
      BY <2>2, <3>1, <3>4
  <2> QED
    BY <2>1, <2>2
<1> HIDE DEF q
<1>3. Rowed(base.rows)
  BY DEF Base
<1> HIDE DEF base
<1>4. q.config.of \in Settings /\ Usable(q.cache, q.deep)
  BY <1>2 DEF RollOk, IsRoll
<1>5. IsWorker(w) /\ WorkerOk(w, q.config.of)
  <2>1. /\ w.state = "running" /\ w.base = base /\ w.config = q.config.of
        /\ w.cache = q.cache /\ w.deep = q.deep /\ IsWorker(w)
    BY DEF IsWorker
  <2> HIDE DEF w
  <2> QED
    BY <1>3, <1>4, <2>1 DEF WorkerOk
<1> HIDE DEF w
<1>6. /\ DOMAIN n = DOMAIN q /\ n.config = q.config /\ n.cache = q.cache /\ n.deep = q.deep
      /\ n.base = q.base /\ n.worker = w /\ n.stale = q.stale
  BY <1>2 DEF RollOk, IsRoll
<1> HIDE DEF n
<1>7. RollOk(n)
  <2>1. IsRoll(n)
    BY <1>2, <1>5, <1>6 DEF RollOk, IsRoll
  <2>2. Exact(n)
    BY <1>2, <1>6 DEF RollOk, Exact
  <2> QED
    BY <1>2, <1>5, <1>6, <2>1, <2>2 DEF RollOk
<1>8. SameValues(r, r) /\ SameValues(n, q)
  BY <1>6 DEF SameValues
<1> QED
  BY <1>1, <1>2, <1>6, <1>7, <1>8 DEF SameValues, Continues

LEMMA SameDrawing ==
  ASSUME NEW im, NEW r, NEW q, q.cache = r.cache, q.deep = r.deep,
         q.config.enabled = r.config.enabled, q.config.of = r.config.of
  PROVE  /\ DrawnFor(im, r.config) => DrawnFor(im, q.config)
         /\ DrawnAs(im, r) => DrawnAs(im, q)
<1>1. \A f : FastValue(q, f).of = FastValue(r, f).of
  BY DEF FastValue, Off
<1>2. \A g : DeepValue(q, g).of = DeepValue(r, g).of
  BY DEF DeepValue, Off
<1> QED
  BY <1>1, <1>2 DEF DrawnFor, DrawnAs

\* What is drawn is of the settings, and is what the readout says.
LEMMA DrawnIs ==
  ASSUME NEW r, RollOk(r), NEW v,
         r.stale = TRUE \/ (DrawnFor(image, r.config) /\ DrawnAs(image, r))
  PROVE  DrawnFor(Drawn(r, v), r.config) /\ DrawnAs(Drawn(r, v), r)
<1> DEFINE rows == v.rows
           groups == Shown(v)
           fast == [i \in DOMAIN rows |-> IF rows[i] = Gap THEN Off ELSE FastValue(r, rows[i])]
           deeper == [n \in DOMAIN groups |-> DeepValue(r, groups[n])]
           im == [rows |-> rows, groups |-> groups, fast |-> fast, deep |-> deeper]
<1>1. (Drawn(r, v) = image /\ ~r.stale) \/ Drawn(r, v) = im
  BY DEF Drawn
<1> HIDE DEF rows, groups
<1>2. \A i \in DOMAIN rows : rows[i] # Gap => fast[i] = FastValue(r, rows[i])
  OBVIOUS
<1>3. \A n \in DOMAIN groups : deeper[n] = DeepValue(r, groups[n])
  OBVIOUS
<1>4. DOMAIN fast = DOMAIN rows
  OBVIOUS
<1> HIDE DEF fast, deeper
<1>5. im.rows = rows /\ im.groups = groups /\ im.fast = fast /\ im.deep = deeper
  OBVIOUS
<1> HIDE DEF im
<1>6. DrawnAs(im, r)
  BY <1>2, <1>3, <1>5 DEF DrawnAs
<1>7. \A f : IF r.config.enabled THEN FastValue(r, f).c \in {Pending, r.config.of}
             ELSE FastValue(r, f) = Off
  <2> SUFFICES ASSUME NEW f
               PROVE  IF r.config.enabled THEN FastValue(r, f).c \in {Pending, r.config.of}
                      ELSE FastValue(r, f) = Off
    OBVIOUS
  <2>1. f \in DOMAIN r.cache => r.cache[f].signature.c = r.config.of
    BY DEF RollOk, MadeFor
  <2> QED
    BY <2>1 DEF FastValue
<1>8. DrawnFor(im, r.config)
  BY <1>2, <1>4, <1>5, <1>7 DEF DrawnFor
<1> QED
  BY <1>1, <1>6, <1>8

\* An answer was handled, or there is none.
LEMMA EndedIs ==
  ASSUME NEW r, RollOk(r)
  PROVE  RollOk(Ended(r)) /\ SameValues(Ended(r), r)
<1> DEFINE w == [r.worker EXCEPT !.state = "ended"]
           n == [r EXCEPT !.worker = w]
<1>1. IsRoll(r) /\ IsWorker(r.worker)
  BY DEF RollOk, IsRoll
<1>2. /\ IsWorker(w) /\ w.state = "ended" /\ w.token = r.worker.token /\ w.config = r.worker.config
  BY <1>1 DEF IsWorker
<1>3. Ended(r) = n
  BY <1>1 DEF Ended, IsRoll
<1> HIDE DEF w
<1>4. WorkerOk(w, r.config.of)
  BY <1>2 DEF WorkerOk, RollOk
<1>5. /\ DOMAIN n = DOMAIN r /\ n.config = r.config /\ n.cache = r.cache /\ n.deep = r.deep
      /\ n.base = r.base /\ n.worker = w /\ n.stale = r.stale
  BY <1>1 DEF IsRoll
<1> HIDE DEF n
<1>6. IsRoll(n)
  BY <1>1, <1>2, <1>5 DEF IsRoll
<1>7. RollOk(n)
  BY <1>4, <1>5, <1>6 DEF RollOk, Exact
<1> QED
  BY <1>3, <1>5, <1>7 DEF SameValues

\* A drawing of a controller that is to be drawn anew, or is as it was drawn.
LEMMA DrawIs ==
  ASSUME NEW r, RollOk(r), NEW v, Draw(r, v),
         r.stale = TRUE \/ (DrawnFor(image, r.config) /\ DrawnAs(image, r))
  PROVE  RollOk(roll') /\ DrawnFor(image', roll'.config) /\ DrawnAs(image', roll')
<1> DEFINE n == [r EXCEPT !.stale = FALSE]
<1>1. roll' = n /\ image' = Drawn(r, v)
  BY DEF Draw
<1>2. /\ DOMAIN n = DOMAIN r /\ n.config = r.config /\ n.cache = r.cache /\ n.deep = r.deep
      /\ n.base = r.base /\ n.worker = r.worker
  BY DEF RollOk, IsRoll
<1> HIDE DEF n
<1>3. RollOk(n)
  BY <1>2, SameRoll
<1>4. DrawnFor(Drawn(r, v), r.config) /\ DrawnAs(Drawn(r, v), r)
  BY DrawnIs
<1>5. DrawnFor(Drawn(r, v), n.config) /\ DrawnAs(Drawn(r, v), n)
  BY <1>2, <1>4, SameDrawing
<1> QED
  BY <1>1, <1>3, <1>5

\* A controller that is to be drawn anew, or has the values of what is drawn.
LEMMA KeptDrawing ==
  ASSUME NEW im, NEW r, NEW q, DrawnFor(im, r.config), q.config = r.config,
         r.stale \/ DrawnAs(im, r), q.stale = TRUE \/ SameValues(q, r)
  PROVE  DrawnFor(im, q.config) /\ (q.stale \/ DrawnAs(im, q))
<1>1. CASE q.stale = TRUE
  BY <1>1
<1>2. CASE SameValues(q, r)
  <2>1. q.cache = r.cache /\ q.deep = r.deep /\ q.stale = r.stale
    BY <1>2 DEF SameValues
  <2> QED
    BY <2>1, SameDrawing
<1> QED
  BY <1>1, <1>2

LEMMA HistoryRows == HistoryInv => Rowed(view.rows) /\ Rowed(model.rows)
BY DEF HistoryInv, ViewOk, ModelOk, Rowed

LEMMA RollBegins == HistoryAssumption /\ SettingsAssumption /\ RollInit => RollIInv
<1> SUFFICES ASSUME HistoryAssumption, SettingsAssumption, RollInit PROVE RollIInv
  OBVIOUS
<1>1. HistoryInv
  BY InitHistory DEF RollInit
<1>2. PICK c \in Settings, clip \in Clips : roll = NewRoll(c, clip)
  BY DEF RollInit
<1>3. clip \in BOOLEAN
  BY DEF SettingsAssumption
<1>4. WorkerOk(NoWorker, c) /\ IsWorker(NoWorker)
  BY DEF WorkerOk, NoWorker, IsWorker
<1>5. /\ roll.config = [enabled |-> FALSE, clip |-> clip, of |-> c] /\ roll.cache = None
      /\ roll.deep = None /\ roll.base = NoBase /\ roll.worker = NoWorker /\ roll.stale = TRUE
      /\ DOMAIN roll = {"config", "signature", "source", "suspended", "failed", "cache", "deep",
                        "base", "worker", "stale"}
  BY <1>2 DEF NewRoll
<1>6. IsRoll(roll) /\ roll.config.of = c
  BY <1>3, <1>4, <1>5 DEF IsRoll
<1>7. RollOk(roll)
  BY <1>4, <1>5, <1>6, NoneIs DEF RollOk, Exact
<1>8. DrawnFor(image, roll.config)
  <2>1. image.fast = <<>>
    BY DEF RollInit, NoImage
  <2>2. DOMAIN image.fast = {}
    BY <2>1
  <2> QED
    BY <2>2 DEF DrawnFor
<1> QED
  BY <1>1, <1>5, <1>7, <1>8 DEF RollIInv

\* The answer of a worker.
LEMMA ComputeKept ==
  ASSUME SettingsAssumption, RollIInv, Compute
  PROVE  RollOk(roll') /\ SameValues(roll', roll) /\ roll'.config = roll.config /\ UNCHANGED <<vars, image>>
<1> DEFINE w == roll.worker
           cache == LiveCache(w.base.rows, w.config, w.cache)
           means == LiveDeep(w.base.rows, w.base.groups, w.config, w.cache, w.deep)
           u == IF w.asked THEN [w EXCEPT !.state = "ended"]
                ELSE IF TooLarge(w.base.rows, w.config, w.cache) THEN [w EXCEPT !.state = "failed"]
                ELSE [w EXCEPT !.state = "ready", !.cache = cache, !.deep = means]
           n == [roll EXCEPT !.worker = u]
<1>1. IsRoll(roll) /\ IsWorker(w) /\ WorkerOk(w, roll.config.of) /\ RollOk(roll)
  BY DEF RollIInv, RollOk, IsRoll
<1>2. w.state = "running" /\ roll' = n /\ UNCHANGED <<vars, image>>
  BY DEF Compute
<1>3. /\ Usable(w.cache, w.deep) /\ Rowed(w.base.rows) /\ w.config \in Settings
      /\ w.token => w.config = roll.config.of
  BY <1>1, <1>2 DEF WorkerOk
<1>4. /\ cache = LiveCache(w.base.rows, w.config, None)
      /\ means = LiveDeep(w.base.rows, w.base.groups, w.config, None, None)
      /\ Usable(cache, means) /\ MadeFor(cache, w.config)
  BY <1>3, ComputedIs
<1> HIDE DEF cache, means
<1>5. /\ IsWorker(u) /\ u.token = w.token /\ u.config = w.config /\ u.base = w.base
      /\ \/ u.state = "ended"
         \/ u.state = "failed"
         \/ u.state = "ready" /\ u.cache = cache /\ u.deep = means
  BY <1>1 DEF IsWorker
<1> HIDE DEF u
<1>6. WorkerOk(u, roll.config.of)
  <2>1. CASE u.state = "ended" \/ u.state = "failed"
    BY <1>3, <1>5, <2>1 DEF WorkerOk
  <2>2. CASE u.state = "ready" /\ u.cache = cache /\ u.deep = means
    BY <1>3, <1>4, <1>5, <2>2 DEF WorkerOk
  <2> QED
    BY <1>5, <2>1, <2>2
<1>7. /\ DOMAIN n = DOMAIN roll /\ n.config = roll.config /\ n.cache = roll.cache
      /\ n.deep = roll.deep /\ n.base = roll.base /\ n.worker = u /\ n.stale = roll.stale
  BY <1>1 DEF IsRoll
<1> HIDE DEF n
<1>8. IsRoll(n)
  BY <1>1, <1>5, <1>7 DEF IsRoll
<1>9. RollOk(n)
  BY <1>1, <1>6, <1>7, <1>8 DEF RollOk, Exact
<1> QED
  BY <1>2, <1>7, <1>9 DEF SameValues

\* An answer is taken only with the settings of now.
LEMMA AcceptKept ==
  ASSUME RollIInv, Accept
  PROVE  /\ RollOk(roll') /\ DrawnFor(image', roll'.config)
         /\ roll'.stale \/ DrawnAs(image', roll')
         /\ UNCHANGED vars
<1> DEFINE w == roll.worker
           x == [roll EXCEPT !.cache = w.cache, !.deep = w.deep, !.base = w.base,
                             !.failed = FALSE, !.stale = TRUE]
<1>1. IsRoll(roll) /\ IsWorker(w) /\ WorkerOk(w, roll.config.of) /\ RollOk(roll)
  BY DEF RollIInv, RollOk, IsRoll
<1>2. w.state = "ready" /\ UNCHANGED vars
  BY DEF Accept
<1>3. CASE Current(w)
  <2>1. w.token /\ w.config = roll.config.of
    BY <1>1, <1>3 DEF Current, WorkerOk
  <2>2. /\ DOMAIN x = DOMAIN roll /\ x.config = roll.config /\ x.cache = w.cache /\ x.deep = w.deep
        /\ x.base = w.base /\ x.worker = w /\ x.stale = TRUE
    BY <1>1 DEF IsRoll
  <2>3. Draw(Ended(x), view)
    BY <1>3 DEF Accept
  <2> HIDE DEF x
  <2>4. IsRoll(x)
    BY <1>1, <2>2 DEF IsRoll
  <2>5. /\ Usable(w.cache, w.deep) /\ MadeFor(w.cache, roll.config.of)
        /\ w.cache = LiveCache(w.base.rows, roll.config.of, None)
        /\ w.deep = LiveDeep(w.base.rows, w.base.groups, roll.config.of, None, None)
    BY <1>1, <1>2, <2>1 DEF WorkerOk
  <2>6. RollOk(x)
    BY <1>1, <2>2, <2>4, <2>5 DEF RollOk, Exact
  <2>7. RollOk(Ended(x)) /\ Ended(x).stale = TRUE
    BY <2>2, <2>6, EndedIs DEF SameValues
  <2>8. RollOk(roll') /\ DrawnFor(image', roll'.config) /\ DrawnAs(image', roll')
    BY <2>3, <2>7, DrawIs
  <2> QED
    BY <1>2, <2>8
<1>4. CASE ~Current(w)
  <2>1. roll' = Ended(roll) /\ image' = image
    BY <1>4 DEF Accept
  <2>2. RollOk(roll') /\ SameValues(roll', roll)
    BY <1>1, <2>1, EndedIs
  <2>3. roll'.config = roll.config
    BY <2>2 DEF SameValues
  <2> QED
    BY <1>2, <2>1, <2>2, <2>3, KeptDrawing DEF RollIInv
<1> QED
  BY <1>3, <1>4

LEMMA ConfigIs ==
  ASSUME NEW p \in [enabled : BOOLEAN, clip : BOOLEAN, of : Settings],
         NEW q \in [enabled : BOOLEAN, clip : BOOLEAN, of : Settings],
         [p EXCEPT !.clip = FALSE] = [q EXCEPT !.clip = FALSE]
  PROVE  p.enabled = q.enabled /\ p.of = q.of
<1>1. /\ [p EXCEPT !.clip = FALSE].enabled = p.enabled /\ [p EXCEPT !.clip = FALSE].of = p.of
      /\ [q EXCEPT !.clip = FALSE].enabled = q.enabled /\ [q EXCEPT !.clip = FALSE].of = q.of
  OBVIOUS
<1> QED
  BY <1>1

\* A change of what the residuals depend on takes them all away; a change of
\* the clipping keeps them.
LEMMA CommitKept ==
  ASSUME SettingsAssumption, RollIInv, NEW config \in Configs, Commit(config)
  PROVE  /\ RollOk(roll') /\ DrawnFor(image', roll'.config)
         /\ roll'.stale \/ DrawnAs(image', roll')
<1> DEFINE r == IF roll.suspended THEN [roll EXCEPT !.signature = NoSignature, !.suspended = FALSE]
                ELSE roll
           displayOnly == [config EXCEPT !.clip = FALSE] = [r.config EXCEPT !.clip = FALSE]
           x == [r EXCEPT !.config = config]
           c == IF displayOnly THEN x ELSE Invalidated(x)
           y == [c EXCEPT !.stale = FALSE]
<1>1. /\ IsRoll(roll) /\ RollOk(roll) /\ Rowed(view.rows) /\ Rowed(model.rows)
      /\ DrawnFor(image, roll.config)
      /\ roll.stale \/ DrawnAs(image, roll)
  BY HistoryRows DEF RollIInv, RollOk
<1>2. /\ DOMAIN r = DOMAIN roll /\ r.config = roll.config /\ r.cache = roll.cache
      /\ r.deep = roll.deep /\ r.base = roll.base /\ r.worker = roll.worker /\ r.stale = roll.stale
  BY <1>1 DEF IsRoll
<1>3. config \in [enabled : BOOLEAN, clip : BOOLEAN, of : Settings]
  BY DEF Configs, SettingsAssumption
<1>4. /\ config = roll.config => roll' = Pulsed(r, view, model, deep, paused) /\ image' = image
      /\ config # roll.config => /\ image' = Drawn(c, view)
                                 /\ roll' = Pulsed(y, view, model, deep, paused)
  BY DEF Commit
<1> HIDE DEF r
<1>5. RollOk(r) /\ SameValues(r, roll)
  BY <1>1, <1>2, SameRoll DEF SameValues
<1>6. CASE config = roll.config
  <2> DEFINE z == Pulsed(r, view, model, deep, paused)
  <2>3. RollOk(z) /\ Continues(z, r)
    BY <1>1, <1>5, PulsedIs, Zenon
  <2> HIDE DEF z
  <2>4. roll' = z
    BY <1>4, <1>6 DEF z
  <2>1. /\ RollOk(roll') /\ roll'.config = roll.config
        /\ roll'.stale = TRUE \/ SameValues(roll', r)
    BY <1>2, <2>3, <2>4 DEF Continues
  <2>2. roll'.stale = TRUE \/ SameValues(roll', roll)
    BY <1>5, <2>1 DEF SameValues
  <2> QED
    BY <1>1, <1>4, <1>6, <2>1, <2>2, KeptDrawing
<1>7. CASE config # roll.config
  <2>1. /\ DOMAIN x = DOMAIN r /\ x.config = config /\ x.cache = r.cache /\ x.deep = r.deep
        /\ x.base = r.base /\ x.worker = r.worker /\ x.stale = r.stale
    BY <1>5 DEF RollOk, IsRoll
  <2> HIDE DEF x
  <2>2. IsRoll(x) /\ IsRoll(r)
    BY <1>3, <1>5, <2>1 DEF RollOk, IsRoll
  <2>3. /\ RollOk(c) /\ c.config = config
        /\ c.stale = TRUE \/ (DrawnFor(image, c.config) /\ DrawnAs(image, c))
    <3>1. CASE displayOnly
      <4>1. config.enabled = r.config.enabled /\ config.of = r.config.of
        BY <1>3, <2>2, <3>1, ConfigIs DEF IsRoll
      <4>2. RollOk(x)
        BY <1>5, <2>1, <2>2, <4>1 DEF RollOk, Exact
      <4>3. x.stale = TRUE \/ (DrawnFor(image, x.config) /\ DrawnAs(image, x))
        <5>1. DrawnFor(image, roll.config) => DrawnFor(image, x.config)
          BY <1>2, <2>1, <4>1, SameDrawing
        <5>2. DrawnAs(image, roll) => DrawnAs(image, x)
          BY <1>2, <2>1, <4>1, SameDrawing
        <5> QED
          BY <1>1, <1>2, <2>1, <5>1, <5>2
      <4> QED
        BY <2>1, <3>1, <4>2, <4>3
    <3>2. CASE ~displayOnly
      <4>1. WorkerOk(x.worker, r.config.of)
        BY <1>5, <2>1 DEF RollOk
      <4>2. RollOk(Invalidated(x)) /\ Invalidated(x).stale = TRUE /\ Invalidated(x).config = config
        BY <2>1, <2>2, <4>1, InvalidatedIs
      <4> QED
        BY <3>2, <4>2
    <3> QED
      BY <3>1, <3>2
  <2> HIDE DEF c
  <2>4. DrawnFor(image', config) /\ DrawnAs(image', c)
    BY <1>4, <1>7, <2>3, DrawnIs
  <2>5. /\ DOMAIN y = DOMAIN c /\ y.config = config /\ y.cache = c.cache /\ y.deep = c.deep
        /\ y.base = c.base /\ y.worker = c.worker
    BY <2>3 DEF RollOk, IsRoll
  <2>6. roll' = Pulsed(y, view, model, deep, paused)
    BY <1>4, <1>7
  <2> HIDE DEF y
  <2>7. RollOk(y)
    BY <2>3, <2>5, SameRoll
  <2>8. DrawnFor(image', y.config) /\ DrawnAs(image', y)
    BY <2>3, <2>4, <2>5, SameDrawing
  <2> DEFINE z == Pulsed(y, view, model, deep, paused)
  <2>10. RollOk(z) /\ Continues(z, y)
    BY <1>1, <2>7, PulsedIs, Zenon
  <2> HIDE DEF z
  <2>9. /\ RollOk(roll') /\ roll'.config = y.config
        /\ roll'.stale = TRUE \/ SameValues(roll', y)
    BY <2>6, <2>10 DEF z, Continues
  <2> QED
    BY <2>8, <2>9, KeptDrawing
<1> QED
  BY <1>6, <1>7

LEMMA CommitHistory ==
  ASSUME HistoryInv, NEW config, Commit(config)
  PROVE  HistoryInv'
<1>1. /\ sent' = sent /\ model' = model /\ deep' = deep /\ view' = view /\ paused' = paused
      /\ drift' = drift \/ drift' = Cleared
  BY DEF Commit
<1>2. DriftOk'
  <2>1. CASE drift' = drift
    BY <1>1, <2>1, DriftStays DEF HistoryInv
  <2>2. CASE drift' = Cleared
    <3>1. paused' \in BOOLEAN
      BY <1>1 DEF HistoryInv, DriftOk
    <3> QED
      BY <2>2, <3>1, NoPoints DEF Cleared, DriftOk
  <2> QED
    BY <1>1, <2>1, <2>2
<1> QED
  BY <1>1, <1>2 DEF HistoryInv

\* One step of the program.
LEMMA RollStep ==
  ASSUME HistoryAssumption, SettingsAssumption, RollIInv, [RollNext]_rollVars
  PROVE  RollIInv'
<1>1. /\ HistoryInv /\ RollOk(roll) /\ DrawnFor(image, roll.config)
      /\ roll.stale \/ DrawnAs(image, roll)
  BY DEF RollIInv
<1>2. Rowed(view.rows) /\ Rowed(model.rows)
  BY <1>1, HistoryRows
<1>3. IsRoll(roll) /\ IsWorker(roll.worker) /\ WorkerOk(roll.worker, roll.config.of)
  BY <1>1 DEF RollOk, IsRoll
<1>4. ASSUME UNCHANGED vars PROVE HistoryInv'
  <2>1. Next \/ UNCHANGED vars
    BY <1>4
  <2> QED
    BY <1>1, <2>1, NextHistory
\* A pulse, of this controller or of one that differs from it in the worker.
<1>5. ASSUME NEW q, RollOk(q), q.config = roll.config, SameValues(q, roll),
             roll' = Pulsed(q, view, model, deep, paused), UNCHANGED <<vars, image>>
      PROVE  RollIInv'
  <2> DEFINE z == Pulsed(q, view, model, deep, paused)
  <2>5. RollOk(z) /\ Continues(z, q)
    BY <1>2, <1>5, PulsedIs, Zenon
  <2> HIDE DEF z
  <2>1. RollOk(z) /\ z.config = q.config /\ (z.stale = TRUE \/ SameValues(z, q))
    BY <2>5 DEF Continues
  <2>2. z.stale = TRUE \/ SameValues(z, roll)
    BY <1>5, <2>1 DEF SameValues
  <2>3. DrawnFor(image, z.config) /\ (z.stale \/ DrawnAs(image, z))
    BY <1>1, <1>5, <2>1, <2>2, KeptDrawing
  <2>4. roll' = z /\ image' = image
    BY <1>5 DEF z
  <2> QED
    BY <1>4, <1>5, <2>1, <2>3, <2>4 DEF RollIInv
\* A step that leaves the values and the drawing alone.
<1>6. ASSUME RollOk(roll'), SameValues(roll', roll), UNCHANGED <<vars, image>>
      PROVE  RollIInv'
  <2>1. roll'.config = roll.config
    BY <1>6 DEF SameValues
  <2>2. DrawnFor(image, roll'.config) /\ (roll'.stale \/ DrawnAs(image, roll'))
    BY <1>1, <1>6, <2>1, KeptDrawing
  <2> QED
    BY <1>4, <1>6, <2>2 DEF RollIInv
<1>7. CASE UNCHANGED rollVars
  <2>1. roll' = roll /\ image' = image /\ UNCHANGED vars
    BY <1>7 DEF rollVars
  <2> QED
    BY <1>1, <1>6, <2>1 DEF SameValues
<1>8. CASE RollReceive
  <2>1. HistoryInv'
    <3>1. Next
      BY <1>8 DEF RollReceive, Next
    <3> QED
      BY <1>1, <3>1, NextHistory
  <2>2. CASE paused
    BY <1>1, <1>8, <2>1, <2>2 DEF RollReceive, RollIInv
  <2>3. CASE ~paused
    <3>1. Draw(roll, view')
      BY <1>8, <2>3 DEF RollReceive
    <3>2. roll.stale = TRUE \/ (DrawnFor(image, roll.config) /\ DrawnAs(image, roll))
      BY <1>1
    <3>3. RollOk(roll') /\ DrawnFor(image', roll'.config) /\ DrawnAs(image', roll')
      BY <1>1, <3>1, <3>2, DrawIs
    <3> QED
      BY <2>1, <3>3 DEF RollIInv
  <2> QED
    BY <2>2, <2>3
<1>9. RollOk(Invalidated(roll)) /\ Invalidated(roll).stale = TRUE /\ Invalidated(roll).config = roll.config
  BY <1>3, InvalidatedIs
<1>10. CASE RollPause
  <2>1. HistoryInv'
    <3>1. Next
      BY <1>10 DEF RollPause, Next
    <3> QED
      BY <1>1, <3>1, NextHistory
  <2>2. roll' = Invalidated(roll) /\ image' = image
    BY <1>10 DEF RollPause
  <2> QED
    BY <1>1, <1>9, <2>1, <2>2 DEF RollIInv
<1>11. CASE RollResume
  <2>1. HistoryInv'
    <3>1. Next
      BY <1>11 DEF RollResume, Next
    <3> QED
      BY <1>1, <3>1, NextHistory
  <2>2. roll' = Invalidated(roll) /\ image' = Drawn(roll, view')
    BY <1>11 DEF RollResume
  <2>3. DrawnFor(Drawn(roll, view'), roll.config)
    BY <1>1, DrawnIs
  <2> QED
    BY <1>9, <2>1, <2>2, <2>3 DEF RollIInv
<1>12. CASE Pulse
  BY <1>1, <1>5, <1>12 DEF Pulse, SameValues
<1>13. CASE Cancel
  <2> DEFINE o == Outdated(roll.worker)
             w == [o EXCEPT !.offer = FALSE]
  <2>1. IsWorker(o) /\ WorkerOk(o, roll.config.of)
    BY <1>3, OutdatedIs
  <2>2. roll' = [roll EXCEPT !.suspended = TRUE, !.signature = NoSignature, !.worker = w]
        /\ UNCHANGED <<vars, image>>
    BY <1>3, <1>13 DEF Cancel, IsRoll
  <2> HIDE DEF o
  <2>3. /\ IsWorker(w) /\ w.token = o.token /\ w.state = o.state /\ w.base = o.base
        /\ w.config = o.config /\ w.cache = o.cache /\ w.deep = o.deep
    BY <2>1 DEF IsWorker
  <2> HIDE DEF w
  <2>4. WorkerOk(w, roll.config.of)
    BY <2>1, <2>3 DEF WorkerOk
  <2>5. /\ DOMAIN roll' = DOMAIN roll /\ roll'.config = roll.config /\ roll'.cache = roll.cache
        /\ roll'.deep = roll.deep /\ roll'.base = roll.base /\ roll'.worker = w
        /\ roll'.stale = roll.stale
    BY <1>3, <2>2 DEF IsRoll
  <2>6. RollOk(roll')
    <3>1. IsRoll(roll')
      BY <1>3, <2>3, <2>5 DEF IsRoll
    <3> QED
      BY <1>1, <2>4, <2>5, <3>1 DEF RollOk, Exact
  <2> QED
    BY <1>6, <2>2, <2>5, <2>6 DEF SameValues
<1>14. ASSUME NEW config \in Configs, Commit(config) PROVE RollIInv'
  BY <1>1, <1>14, CommitHistory, CommitKept DEF RollIInv
<1>15. CASE Compute
  BY <1>6, <1>15, ComputeKept
<1>16. CASE Accept
  BY <1>4, <1>16, AcceptKept DEF RollIInv
<1>17. CASE Fail
  <2> DEFINE x == [roll EXCEPT !.failed = @ \/ Current(roll.worker)]
  <2>1. roll' = Ended(x) /\ UNCHANGED <<vars, image>>
    BY <1>17 DEF Fail
  <2>2. /\ DOMAIN x = DOMAIN roll /\ x.config = roll.config /\ x.cache = roll.cache
        /\ x.deep = roll.deep /\ x.base = roll.base /\ x.worker = roll.worker
        /\ x.stale = roll.stale
    BY <1>3 DEF IsRoll
  <2> HIDE DEF x
  <2>3. RollOk(x) /\ SameValues(x, roll)
    BY <1>1, <2>2, SameRoll DEF SameValues
  <2>4. RollOk(Ended(x)) /\ SameValues(Ended(x), x)
    BY <2>3, EndedIs
  <2> QED
    BY <1>6, <2>1, <2>3, <2>4 DEF SameValues
<1>18. CASE Finished
  <2> DEFINE x == [roll EXCEPT !.worker = NoWorker]
  <2>1. roll' = Pulsed(x, view, model, deep, paused) /\ UNCHANGED <<vars, image>>
    BY <1>18 DEF Finished
  <2>2. /\ DOMAIN x = DOMAIN roll /\ x.config = roll.config /\ x.cache = roll.cache
        /\ x.deep = roll.deep /\ x.base = roll.base /\ x.worker = NoWorker
        /\ x.stale = roll.stale
    BY <1>3 DEF IsRoll
  <2> HIDE DEF x
  <2>3. WorkerOk(NoWorker, roll.config.of) /\ IsWorker(NoWorker)
    BY DEF WorkerOk, NoWorker, IsWorker
  <2>4. RollOk(x)
    <3>1. IsRoll(x)
      BY <1>3, <2>2, <2>3 DEF IsRoll
    <3> QED
      BY <1>1, <2>2, <2>3, <3>1 DEF RollOk, Exact
  <2> QED
    BY <1>5, <2>1, <2>2, <2>4 DEF SameValues
<1> QED
  BY <1>7, <1>8, <1>10, <1>11, <1>12, <1>13, <1>14, <1>15, <1>16, <1>17, <1>18 DEF RollNext

\* A residual on the display, in the image as in the readout, is what a
\* computation from nothing makes under the settings of now: no residual
\* outlives a row of its window, and none is of other settings than those in
\* the title, whatever comes between a worker's start and its end
\* (rolling_controls.py, live_residuals() of rolling_median.py).
THEOREM ResidualsStayTrue ==
  ASSUME HistoryAssumption, SettingsAssumption PROVE RollSpec => []RollingIsTrue
<1>1. RollInit => RollIInv
  BY RollBegins
<1>2. RollIInv /\ [RollNext]_rollVars => RollIInv'
  BY RollStep
<1>3. RollIInv => RollingIsTrue
  BY DEF RollIInv, RollOk, Exact, DrawnFor, DrawnAs, RollingIsTrue, ResultsAreExact, ShownSettings,
         ImageIsReadout
<1> QED
  BY <1>1, <1>2, <1>3, PTL DEF RollSpec

-----------------------------------------------------------------------------
\* A frame that stays on the display keeps its coordinate, what is browsed and
\* what is paused do not move on, and a visit to the H5 mode leaves no trace.
THEOREM HoldsStill ==
  ASSUME HistoryAssumption, ScalesAssumption
  PROVE  Spec /\ Bin!Spec /\ ScalesSpec => DisplayHoldsStill
<1>1. Spec => [][FrameStays /\ RangeStays]_vars
  BY FramesHoldStill
<1>2. ScalesSpec => VisitsLeaveNoTrace
  BY NoTrace
<1> QED
  BY <1>1, <1>2, PauseHolds DEF DisplayHoldsStill

=============================================================================
