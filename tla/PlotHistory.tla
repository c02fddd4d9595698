----------------------------- MODULE PlotHistory ------------------------------
(***************************************************************************)
(* The plot panel: which series the charts have for the view mode and the  *)
(* checked joints, which frames are sampled, and which samples a series    *)
(* keeps and shows.  All series of the panel take the same frames, so one  *)
(* history of their x values stands for each of them; what is drawn of a   *)
(* sample is left out.  The worker's clock starts again on a reconnect     *)
(* and stands still while Disconnected, when poll() still passes the last  *)
(* frame.                                                                  *)
(***************************************************************************)
EXTENDS Selecting, FiniteSets, SequencesExt

CONSTANTS
  PlotJoints, \* how many joints the worker enumerates
  Windows,    \* the widths offered for the time window
  MaxPoints,  \* m_max_points, the cap of an XY trace
  Rate,       \* m_update_rate_ms
  Nominal,    \* the time a call counts for when the clock has not advanced
  MaxClock,   \* bound: the worker's clock
  MaxTaken    \* bound: samples taken between two clearings

ASSUME PlotAssumption ==
  /\ PlotJoints \in Nat \ {0} /\ MaxPoints \in Nat \ {0}
  /\ Windows \subseteq Nat \ {0} /\ Windows # {} /\ Rate \in Nat /\ Nominal \in Nat \ {0}
  /\ MaxClock \in Nat /\ MaxTaken \in Nat

VARIABLES
  known,    \* m_joint_names: the number of joints the panel knows
  checked,  \* the checked joint boxes
  view,     \* m_mode
  items,    \* m_items: the series that are fed, and by which joint
  charts,   \* m_charts: how many series each has
  points,   \* the x values a series holds
  latest,   \* m_latest_x
  window,   \* m_window_s
  frozen,   \* m_frozen
  elapsed,  \* m_elapsed_ms
  sampled,  \* last_update_time, static
  snapshot, \* the worker's last frame: its time and how many joints it has
  taken     \* history: the times sampled since the charts were built or cleared

plotVars == <<known, checked, view, items, charts, points, latest, window, frozen,
              elapsed, sampled, snapshot, taken>>

Views == {"Focus", "Overlay", "Stacked", "XY"}

TimeAxis == view # "XY"

-----------------------------------------------------------------------------
(* The series of each chart, by view: the first joint in six charts, two   *)
(* of them with the reference beside the measurement; or one signal of     *)
(* every joint.                                                            *)
ChartsOf(v, shown) ==
  CASE v = "Focus"   -> <<2, 1, 2, 1, 1, 1>>
    [] v = "Stacked" -> [c \in 1..Len(shown) |-> 1]
    [] OTHER         -> <<Len(shown)>>

Feed(c, s, j) == [chart |-> c, series |-> s, joint |-> j]

ItemsOf(v, shown) ==
  CASE v = "Focus"   -> IF shown = <<>> THEN {}
                        ELSE {Feed(c, 1, shown[1]) : c \in 1..6}
                               \cup {Feed(1, 2, shown[1]), Feed(3, 2, shown[1])}
    [] v = "Stacked" -> {Feed(i, 1, shown[i]) : i \in DOMAIN shown}
    [] OTHER         -> {Feed(1, i, shown[i]) : i \in DOMAIN shown}

(* At least one joint stays plotted, and its box is checked for it.        *)
KeptChecked(boxes, n) == IF boxes = {} /\ n > 0 THEN {0} ELSE boxes

(* Mutated form: clearing the points keeps the latest time.                *)
ClearedPoints ==
  /\ points' = <<>> /\ taken' = <<>>
  /\ elapsed' = 0 /\ UNCHANGED latest

(* clearAll() and new charts alike forget the samples and the latest time. *)
Cleared ==
  /\ points' = <<>> /\ latest' = 0 /\ taken' = <<>>
  /\ elapsed' = 0

RebuildCharts(v, boxes, n) ==
  LET now == KeptChecked(boxes, n)
      shown == Chosen([i \in 1..n |-> i - 1], now)
  IN  /\ checked' = now /\ view' = v /\ known' = n
      /\ charts' = ChartsOf(v, shown)
      /\ items' = ItemsOf(v, shown)
      /\ Cleared
      /\ UNCHANGED <<window, frozen, sampled, snapshot>>

PlotInit ==
  /\ known = 0 /\ checked = {} /\ view = "Focus"
  /\ charts = ChartsOf("Focus", <<>>) /\ items = {}
  /\ points = <<>> /\ latest = 0 /\ taken = <<>>
  /\ window \in Windows /\ frozen = FALSE /\ elapsed = 0 /\ sampled = 0
  /\ snapshot = [t |-> 0, joints |-> 0]

(* setJoints(): the first joint is checked.  poll() calls it once, as the  *)
(* worker enumerates the joints only when the bus comes up.                *)
SetJoints ==
  /\ known = 0
  /\ RebuildCharts(view, {0}, PlotJoints)

(* The view changed, or the signals of the one there is.                   *)
SetView == \E v \in Views : RebuildCharts(v, checked, known)

ToggleJoint ==
  \E j \in 0..(known - 1) : RebuildCharts(view, SymDiff(checked, {j}), known)

ClearHistory ==
  /\ Cleared
  /\ UNCHANGED <<known, checked, view, items, charts, window, frozen, sampled, snapshot>>

(* The window's box is disabled for XY traces.                             *)
SetWindowSeconds ==
  /\ TimeAxis
  /\ window' \in Windows
  /\ UNCHANGED <<known, checked, view, items, charts, points, latest, frozen, elapsed,
                 sampled, snapshot, taken>>

Freeze ==
  /\ frozen' = ~frozen
  /\ UNCHANGED <<known, checked, view, items, charts, points, latest, window, elapsed,
                 sampled, snapshot, taken>>

-----------------------------------------------------------------------------
(* append(): a time axis drops what left the window, an XY trace what is   *)
(* over its cap; the point that was appended is always the last.           *)
LastPoints(xs, n) == SubSeq(xs, Len(xs) - n + 1, Len(xs))

Trimmed(xs, from) ==
  LET old(n) == \A i \in 1..n : xs[i] < from
      drop == CHOOSE n \in 0..(Len(xs) - 1) :
                old(n) /\ (n = Len(xs) - 1 \/ ~old(n + 1))
  IN  LastPoints(xs, Len(xs) - drop)

Capped(xs) == IF Len(xs) > MaxPoints THEN LastPoints(xs, MaxPoints) ELSE xs

Later(t) == IF t > latest THEN t ELSE latest

AppendPoint(t) ==
  IF TimeAxis
  THEN /\ latest' = Later(t)
       /\ points' = Trimmed(Append(points, t), latest' - window)
  ELSE points' = Capped(Append(points, t)) /\ UNCHANGED latest

(* An item whose joint the frame does not have is skipped.                 *)
AppendSample ==
  IF \E i \in items : i.joint < snapshot.joints
  THEN AppendPoint(snapshot.t) /\ taken' = Append(taken, snapshot.t)
  ELSE UNCHANGED <<points, latest, taken>>

(* The time since the last sampled frame is counted again on every call.   *)
Spent == IF snapshot.t > sampled THEN snapshot.t - sampled ELSE Nominal

AppendFrame ==
  /\ ~frozen /\ Len(taken) < MaxTaken
  /\ IF elapsed + Spent < Rate
     THEN elapsed' = elapsed + Spent /\ UNCHANGED <<sampled, points, latest, taken>>
     ELSE elapsed' = 0 /\ sampled' = snapshot.t /\ AppendSample
  /\ UNCHANGED <<known, checked, view, items, charts, window, frozen, snapshot>>

(* The worker publishes a frame: its clock went on, or started again when  *)
(* the operator connected to the bus that had been left up.                *)
WorkerPublishes ==
  /\ \E t \in {0} \cup (snapshot.t + 1)..MaxClock : snapshot' = [t |-> t, joints |-> PlotJoints]
  /\ UNCHANGED <<known, checked, view, items, charts, points, latest, window, frozen,
                 elapsed, sampled, taken>>

PlotNext ==
  \/ SetJoints \/ SetView \/ ToggleJoint
  \/ ClearHistory \/ SetWindowSeconds \/ Freeze
  \/ AppendFrame \/ WorkerPublishes

PlotSpec == PlotInit /\ [][PlotNext]_plotVars

-----------------------------------------------------------------------------
(* Every series of every chart is fed by exactly one item, and once the    *)
(* joints are known something is plotted.                                  *)
SeriesFed ==
  LET series == UNION {{<<c, s>> : s \in 1..charts[c]} : c \in DOMAIN charts}
  IN  known > 0 => /\ items # {} /\ checked # {}
                   /\ {<<i.chart, i.series>> : i \in items} = series
                   /\ Cardinality(items) = Cardinality(series)
                   /\ {i.joint : i \in items} \subseteq checked

(* x_max of paintEvent().                                                  *)
RightEdge == IF latest > window THEN latest ELSE window

Visible(x) == RightEdge - window <= x /\ x <= RightEdge

Narrowest == CHOOSE w \in Windows : \A u \in Windows : w <= u

ClockWentOn == \A i \in 2..Len(taken) : taken[i - 1] <= taken[i]

(* Unless the worker's clock went back since the chart was cleared, what a *)
(* time chart holds is what was sampled, up to the newest frame and        *)
(* visible there, and nothing that any window still shows has been         *)
(* dropped; an XY trace holds the newest samples up to its cap.            *)
HistoryShown ==
  IF TimeAxis
  THEN ClockWentOn /\ taken # <<>> =>
         /\ IsSuffix(points, taken) /\ points # <<>>
         /\ Visible(Last(points))
         /\ \A i \in DOMAIN taken :
              taken[i] >= latest - Narrowest => Len(taken) - i < Len(points)
  ELSE points = Capped(taken)
=============================================================================
