--------------------------- MODULE WorkspaceFence ---------------------------
(***************************************************************************)
(* The recorded workspace: WorkspaceBounds in the app's memory, changed by *)
(* the /workspace routes on server threads, kept in a file that is written *)
(* in place, read back when the app starts (api/persist.py, api/state.py), *)
(* and checked by the policy thread at every tick. Positions have one      *)
(* coordinate. No lock guards any of it.                                   *)
(***************************************************************************)
EXTENDS Integers, Sequences, FiniteSets, FiniteSetsExt, SequencesExt

CONSTANTS
  Handlers,   \* server threads
  Corners,    \* measured positions an operator records
  Margins,    \* margins an operator sets, the default among them
  DefaultMargin,
  Places,     \* positions of the hand, aimed at or measured
  MaxPoints,  \* bound on the number of recorded points
  MaxUnsaved  \* bound on the changes since the last undisturbed save, and that one

ASSUME FenceAssumption == Corners \subseteq Int /\ DefaultMargin \in Margins /\ Margins \subseteq Nat

VARIABLES
  fence,     \* WorkspaceBounds: [points, margin]
  up,        \* the app runs
  file,      \* workspace.json: {} if absent, {a fence}, or {Torn}
  save,      \* per handler: its save_workspace() call
  tick,      \* the policy thread's tick
  promised,  \* history: the fence of the last undisturbed save, and every later one
             \* set by a request or read back by a restart
  loosest    \* history: the widest box in force since the tick began

fenceVars == <<fence, up, file, save, tick, promised, loosest>>

Torn == [points |-> << >>, margin |-> -1]
NoSave == [step |-> "idle"]
NoTick == [step |-> "idle"]
Default == [points |-> << >>, margin |-> DefaultMargin]

-----------------------------------------------------------------------------
Enabled(points) == Len(points) >= 2

Box(f) ==
  [open |-> ~Enabled(f.points),
   low |-> IF Enabled(f.points) THEN Min(ToSet(f.points)) ELSE 0,
   high |-> IF Enabled(f.points) THEN Max(ToSet(f.points)) ELSE 0,
   margin |-> f.margin]

\* The box that contains both.
Hull(a, b) ==
  IF a.open \/ b.open THEN [open |-> TRUE, low |-> 0, high |-> 0, margin |-> 0]
    ELSE [open |-> FALSE, low |-> Min({a.low, b.low}), high |-> Max({a.high, b.high}),
          margin |-> Min({a.margin, b.margin})]

Inside(place, box) ==
  box.open \/ place \in (box.low + box.margin)..(box.high - box.margin)

FenceInit ==
  /\ fence = Default
  /\ up = TRUE
  /\ file = {}
  /\ save = [h \in Handlers |-> NoSave]
  /\ tick = NoTick
  /\ promised = {Default}
  /\ loosest = Box(Default)

-----------------------------------------------------------------------------
\* A save under way meets a change: it is no longer that of the present fence. If the
\* list of points is replaced, one that is being read stays as it was.
Disturbed(s, replaced) ==
  CASE s.step \in {"margin", "read"} ->
         [s EXCEPT !.alone = FALSE,
                   !.source = IF replaced /\ @ = {} THEN {fence.points} ELSE @]
    [] s.step \in {"open", "write"} -> [s EXCEPT !.alone = FALSE]
    [] OTHER -> s

\* A route changes the fence at once, in its list of points or by a new list, and saves
\* it afterwards.
Change(h, changed, replaced) ==
  /\ up /\ save[h].step = "idle" /\ Cardinality(promised) < MaxUnsaved
  /\ fence' = changed
  /\ save' = [g \in Handlers |-> IF g = h THEN [step |-> "dump"]
                                  ELSE Disturbed(save[g], replaced)]
  /\ promised' = promised \cup {changed}
  /\ loosest' = IF tick.step = "idle" THEN loosest ELSE Hull(loosest, Box(changed))
  /\ UNCHANGED <<up, file, tick>>

AddPoint(h) ==
  /\ Len(fence.points) < MaxPoints
  /\ \E p \in Corners : Change(h, [fence EXCEPT !.points = Append(@, p)], FALSE)

\* del points[index]: an index below zero counts from the end, and one out of range
\* is refused (400).
RemovePoint(h) ==
  LET n == Len(fence.points) IN
  \E index \in -n..(n - 1) :
    Change(h, [fence EXCEPT !.points = RemoveAt(@, 1 + (IF index < 0 THEN n + index ELSE index))],
           FALSE)

Clear(h) == Change(h, [fence EXCEPT !.points = << >>], TRUE)

SetMargin(h) == \E m \in Margins : Change(h, [fence EXCEPT !.margin = m], FALSE)

\* save_workspace(): json.dumps() is handed the list of points itself, ...
Dump(h) ==
  /\ save[h].step = "dump"
  /\ save' = [save EXCEPT ![h] =
       [step |-> "margin", source |-> {}, alone |-> \A g \in Handlers \ {h} : save[g].step = "idle"]]
  /\ UNCHANGED <<fence, up, file, tick, promised, loosest>>

\* ... and the margin, ...
ReadMargin(h) ==
  /\ save[h].step = "margin"
  /\ save' = [save EXCEPT ![h] =
       [step |-> "read", source |-> save[h].source, alone |-> save[h].alone,
        points |-> << >>, margin |-> fence.margin]]
  /\ UNCHANGED <<fence, up, file, tick, promised, loosest>>

\* The list a save reads: that of the fence, or one the fence no longer has.
Source(s) == IF s.source = {} THEN fence.points ELSE CHOOSE points \in s.source : TRUE

\* ... and goes through the list by index, whatever other requests do to it, ...
ReadPoint(h) ==
  /\ save[h].step = "read"
  /\ LET list == Source(save[h])
         read == save[h].points
     IN  save' = [save EXCEPT ![h] =
           IF Len(read) < Len(list)
             THEN [save[h] EXCEPT !.points = Append(@, list[Len(read) + 1])]
             ELSE [step |-> "open", alone |-> save[h].alone,
                   data |-> [points |-> read, margin |-> save[h].margin]]]
  /\ UNCHANGED <<fence, up, file, tick, promised, loosest>>

\* ... open the file, which empties it, ...
Truncate(h) ==
  /\ save[h].step = "open"
  /\ file' = {Torn}
  /\ save' = [save EXCEPT ![h].step = "write"]
  /\ UNCHANGED <<fence, up, tick, promised, loosest>>

\* ... and write it. What two writers leave behind may be neither's.
Write(h) ==
  /\ save[h].step = "write"
  /\ file' \in {{save[h].data}} \cup (IF save[h].alone THEN {} ELSE {{Torn}})
  /\ promised' = IF save[h].alone THEN {save[h].data} ELSE promised
  /\ save' = [save EXCEPT ![h] = NoSave]
  /\ UNCHANGED <<fence, up, tick, loosest>>

\* The file cannot be opened, or not written to: the request fails, the change stays.
SaveFails(h) ==
  /\ save[h].step \in {"open", "write"}
  /\ save' = [save EXCEPT ![h] = NoSave]
  /\ UNCHANGED <<fence, up, file, tick, promised, loosest>>

Crash ==
  /\ up
  /\ up' = FALSE
  /\ save' = [h \in Handlers |-> NoSave]
  /\ tick' = NoTick
  /\ UNCHANGED <<fence, file, promised, loosest>>

\* The app is up again, with this fence.
ReadBack(f) ==
  /\ up' = TRUE
  /\ fence' = f
  /\ promised' = promised \cup {f}
  /\ UNCHANGED <<file, save, tick, loosest>>

\* Slip: a file that cannot be read is taken for none.
RestartAnyway ==
  /\ ~up
  /\ ReadBack(IF file \in {{}, {Torn}} THEN Default ELSE CHOOSE f \in file : TRUE)

\* AppState(): the file is read back; one that cannot be read ends the start.
Restart ==
  /\ ~up /\ file # {Torn}
  /\ ReadBack(IF file = {} THEN Default ELSE CHOOSE f \in file : TRUE)

-----------------------------------------------------------------------------
\* One tick of _run(): "if self.workspace.enabled", then check(aimed), check(measured),
\* then the target is sent. Each check() reads the points' number, the points, and
\* the margin twice.
BeginTick ==
  /\ up /\ tick.step = "idle"
  /\ \E aimed, measured \in Places :
       tick' = [step |-> IF Enabled(fence.points) THEN "enabled" ELSE "send",
                aimed |-> aimed, measured |-> measured, second |-> FALSE]
  /\ loosest' = Box(fence)
  /\ UNCHANGED <<fence, up, file, save, promised>>

\* The position the check is about: the one aimed at, then the measured one.
Place == IF tick.second THEN tick.measured ELSE tick.aimed

\* Slip: only the position aimed at is checked.
PassedAimed == [tick EXCEPT !.step = "send"]

Passed ==
  IF tick.second THEN [tick EXCEPT !.step = "send"]
    ELSE [tick EXCEPT !.step = "enabled", !.second = TRUE]

AskEnabled ==
  /\ tick.step = "enabled"
  /\ tick' = IF Enabled(fence.points) THEN [tick EXCEPT !.step = "points"] ELSE Passed
  /\ UNCHANGED <<fence, up, file, save, promised, loosest>>

\* The corners of no points at all: the exception stops the loop.
ReadPoints ==
  /\ tick.step = "points"
  /\ tick' = IF fence.points = << >> THEN NoTick
               ELSE [step |-> "low", aimed |-> tick.aimed, measured |-> tick.measured,
                     second |-> tick.second,
                     low |-> Min(ToSet(fence.points)), high |-> Max(ToSet(fence.points))]
  /\ UNCHANGED <<fence, up, file, save, promised, loosest>>

ReadLow ==
  /\ tick.step = "low"
  /\ tick' = [tick EXCEPT !.step = "high", !.low = @ + fence.margin]
  /\ UNCHANGED <<fence, up, file, save, promised, loosest>>

\* Outside: WorkspaceExceeded stops the loop.
Compare ==
  /\ tick.step = "high"
  /\ tick' = IF Place \in tick.low..(tick.high - fence.margin)
               THEN [Passed EXCEPT !.low = 0, !.high = 0] ELSE NoTick
  /\ UNCHANGED <<fence, up, file, save, promised, loosest>>

Send ==
  /\ tick.step = "send"
  /\ tick' = NoTick
  /\ UNCHANGED <<fence, up, file, save, promised, loosest>>

Routes(h) ==
  \/ AddPoint(h) \/ RemovePoint(h) \/ Clear(h) \/ SetMargin(h)
  \/ Dump(h) \/ ReadMargin(h) \/ ReadPoint(h) \/ Truncate(h) \/ Write(h) \/ SaveFails(h)

Check == BeginTick \/ AskEnabled \/ ReadPoints \/ ReadLow \/ Compare \/ Send

FenceNext == (\E h \in Handlers : Routes(h)) \/ Crash \/ Restart \/ Check

FenceSpec == FenceInit /\ [][FenceNext]_fenceVars

-----------------------------------------------------------------------------
\* However the routes change the fence while it is checked, the robot is only sent
\* where it may go: the position aimed at and the measured one both lie within the
\* box in force; if that changed during the tick, within what its versions span.
FenceHonoured ==
  tick.step = "send" => Inside(tick.aimed, loosest) /\ Inside(tick.measured, loosest)

\* A fence put together from the parts of others: their corners, the margin of one of
\* them, and open only if one of them was.
MadeOf(f, versions) ==
  /\ ToSet(f.points) \subseteq UNION {ToSet(g.points) : g \in versions}
  /\ f.margin \in {g.margin : g \in versions}
  /\ Enabled(f.points) \/ \E g \in versions : ~Enabled(g.points)

\* A restart never loses the operator's fence silently (state.py: "so an app restart
\* doesn't silently wipe ... a hand-recorded workspace fence"), whatever was interrupted,
\* failed or overlapped. The app that is up again holds the fence of the last save
\* nothing disturbed if it has not changed since; else one that the save of a change, or
\* several at once, have put together from the versions since then.
RestartKeepsFence ==
  [][~up /\ up' => /\ \A f \in promised : promised = {f} => fence' = f
                   /\ MadeOf(fence', promised)]_fenceVars

=============================================================================
