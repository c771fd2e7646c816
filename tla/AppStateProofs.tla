--------------------------- MODULE AppStateProofs ---------------------------
(***************************************************************************)
(* What the app keeps across restarts, for every number of server threads, *)
(* points, margins and parts: a fence that was saved is never lost, and a  *)
(* session's configuration never changes under one operator.               *)
(***************************************************************************)
EXTENDS WorkspaceFence, AppConfig, Extrema, TLAPS

-----------------------------------------------------------------------------
(* The fence. *)

Fences == [points : Seq(Corners), margin : Margins]
Sources == {{}} \cup {{list} : list \in Seq(Corners)}

Reads == {"margin", "read"}
Writing == {"open", "write"}

SaveSteps ==
  {NoSave} \cup {[step |-> "dump"]}
    \cup [step : {"margin"}, source : Sources, alone : BOOLEAN]
    \cup [step : {"read"}, source : Sources, alone : BOOLEAN, points : Seq(Corners),
          margin : Margins]
    \cup [step : Writing, alone : BOOLEAN, data : Fences]

\* What a save has read, and may still read or write, is of these versions; a list that
\* was replaced left an open fence behind.
FromVersions(s, versions) ==
  /\ s.step \in Reads => \A list \in s.source :
       /\ ToSet(list) \subseteq UNION {ToSet(g.points) : g \in versions}
       /\ \E g \in versions : ~Enabled(g.points)
  /\ s.step = "read" =>
       /\ ToSet(s.points) \subseteq UNION {ToSet(g.points) : g \in versions}
       /\ s.margin \in {g.margin : g \in versions}
  /\ s.step \in Writing => MadeOf(s.data, versions)

Starts(short, long) ==
  Len(short) <= Len(long) /\ \A i \in 1..Len(short) : short[i] = long[i]

\* A save is one of this fence and no other.
SavesIt(s, f) ==
  /\ s.step \in Reads => \A list \in s.source : list = f.points
  /\ s.step = "read" => Starts(s.points, f.points) /\ s.margin = f.margin
  /\ s.step \in Writing => s.data = f

\* A save that nothing disturbs saves the present fence, and no other one is under way.
AloneInv ==
  \A h \in Handlers : save[h].step \in Reads \cup Writing /\ save[h].alone =>
    /\ SavesIt(save[h], fence)
    /\ \A g \in Handlers \ {h} : save[g].step = "idle"

\* Whatever the file may hold is made of what was promised.
FileInv ==
  /\ file = {} => Default \in promised
  /\ file # {} => \E f : /\ file = {f}
                         /\ f # Torn => /\ f \in Fences /\ MadeOf(f, promised)
                                        /\ promised = {fence} => f = fence

KeepTypes ==
  /\ fence \in Fences /\ promised \subseteq Fences /\ fence \in promised
  /\ save \in [Handlers -> SaveSteps]
  /\ ~up => \A h \in Handlers : save[h].step = "idle"

KeepInv ==
  /\ KeepTypes
  /\ \A h \in Handlers : FromVersions(save[h], promised)
  /\ promised = {fence} => \A h \in Handlers : SavesIt(save[h], fence)
  /\ AloneInv
  /\ FileInv

USE DEF Reads, Writing

LEMMA MadeOfMore ==
  ASSUME NEW f, NEW vs, NEW ws, vs \subseteq ws, MadeOf(f, vs)
  PROVE  MadeOf(f, ws)
BY DEF MadeOf

LEMMA MadeOfOne ==
  ASSUME NEW f, NEW vs, f \in vs
  PROVE  MadeOf(f, vs)
BY DEF MadeOf

LEMMA FromMore ==
  ASSUME NEW s, NEW vs, NEW ws, vs \subseteq ws, FromVersions(s, vs)
  PROVE  FromVersions(s, ws)
BY MadeOfMore DEF FromVersions

LEMMA Resting ==
  ASSUME NEW s \in {NoSave, [step |-> "dump"]}
  PROVE  /\ s \in SaveSteps /\ s.step \notin Reads \cup Writing
         /\ \A vs : FromVersions(s, vs)
         /\ \A f : SavesIt(s, f)
BY DEF SaveSteps, NoSave, FromVersions, SavesIt

LEMMA FenceInitial == FenceInit => KeepInv
<1> SUFFICES ASSUME FenceInit PROVE KeepInv
  OBVIOUS
<1>1. << >> \in Seq(Corners)
  OBVIOUS
<1>2. Default \in Fences
  BY <1>1, FenceAssumption DEF FenceAssumption, Default, Fences
<1>3. \A h \in Handlers : save[h] = NoSave
  BY DEF FenceInit
<1>4. save \in [Handlers -> SaveSteps]
  BY DEF FenceInit, SaveSteps
<1>5. KeepTypes
  BY <1>2, <1>3, <1>4 DEF FenceInit, KeepTypes, NoSave
<1>6. FileInv
  BY DEF FenceInit, FileInv
<1>7. AloneInv
  BY <1>3, Resting DEF AloneInv
<1> QED BY <1>3, <1>5, <1>6, <1>7, Resting DEF KeepInv

\* Every route that changes the fence makes a fence of it.
LEMMA Changes ==
  ASSUME fence \in Fences, NEW h \in Handlers,
         AddPoint(h) \/ RemovePoint(h) \/ Clear(h) \/ SetMargin(h)
  PROVE  \E changed \in Fences, replaced \in BOOLEAN :
           Change(h, changed, replaced) /\ (replaced => changed.points = << >>)
<1>1. CASE AddPoint(h)
  <2>1. PICK p \in Corners : Change(h, [fence EXCEPT !.points = Append(@, p)], FALSE)
    BY <1>1 DEF AddPoint
  <2>2. [fence EXCEPT !.points = Append(@, p)] \in Fences
    BY DEF Fences
  <2> QED BY <2>1, <2>2
<1>2. CASE RemovePoint(h)
  <2> DEFINE n == Len(fence.points)
  <2>1. PICK index \in -n..(n - 1) :
          Change(h, [fence EXCEPT !.points =
                       RemoveAt(@, 1 + (IF index < 0 THEN n + index ELSE index))], FALSE)
    BY <1>2 DEF RemovePoint
  <2> DEFINE i == 1 + (IF index < 0 THEN n + index ELSE index)
  <2>2. fence.points \in Seq(Corners) /\ n \in Nat
    BY DEF Fences
  <2>3. i \in 1..n
    BY <2>2
  <2>4. RemoveAt(fence.points, i) \in Seq(Corners)
    <3> HIDE DEF i
    <3>1. SubSeq(fence.points, 1, i - 1) \in Seq(Corners)
      BY <2>2, <2>3
    <3>2. SubSeq(fence.points, i + 1, n) \in Seq(Corners)
      BY <2>2, <2>3
    <3> QED BY <3>1, <3>2 DEF RemoveAt
  <2>5. [fence EXCEPT !.points = RemoveAt(@, i)] \in Fences
    BY <2>4 DEF Fences
  <2> QED BY <2>1, <2>5
<1>3. CASE Clear(h)
  <2>1. << >> \in Seq(Corners)
    OBVIOUS
  <2>2. [fence EXCEPT !.points = << >>] \in Fences
    BY <2>1 DEF Fences
  <2>3. [fence EXCEPT !.points = << >>].points = << >>
    BY DEF Fences
  <2> QED BY <1>3, <2>2, <2>3 DEF Clear
<1>4. CASE SetMargin(h)
  <2>1. PICK m \in Margins : Change(h, [fence EXCEPT !.margin = m], FALSE)
    BY <1>4 DEF SetMargin
  <2>2. [fence EXCEPT !.margin = m] \in Fences
    BY DEF Fences
  <2> QED BY <2>1, <2>2
<1> QED BY <1>1, <1>2, <1>3, <1>4

\* A save that meets a change goes on with what it was reading.
LEMMA DisturbedSave ==
  ASSUME KeepTypes, NEW changed \in Fences, NEW replaced \in BOOLEAN,
         replaced => changed.points = << >>,
         NEW s \in SaveSteps, FromVersions(s, promised)
  PROVE  LET d == Disturbed(s, replaced) IN
         /\ d \in SaveSteps
         /\ d.step = s.step
         /\ d.step \in Reads \cup Writing => ~d.alone
         /\ FromVersions(d, promised \cup {changed})
         /\ SavesIt(s, fence) => SavesIt(d, fence)
<1> DEFINE d == Disturbed(s, replaced)
           vs == promised \cup {changed}
<1>1. FromVersions(s, vs)
  BY FromMore
<1>2. fence \in vs /\ changed \in vs /\ fence.points \in Seq(Corners)
  BY DEF KeepTypes, Fences
<1> HIDE DEF vs
<1>3. CASE s.step \in Writing
  <2>1. s \in [step : Writing, alone : BOOLEAN, data : Fences]
    BY <1>3 DEF SaveSteps, NoSave
  <2>2. d = [s EXCEPT !.alone = FALSE]
    BY <1>3 DEF Disturbed
  <2>3. /\ d \in [step : Writing, alone : BOOLEAN, data : Fences]
        /\ d.step = s.step /\ d.data = s.data /\ ~d.alone
    BY <2>1, <2>2
  <2> QED BY <1>1, <1>3, <2>3 DEF SaveSteps, FromVersions, SavesIt, vs
<1>4. CASE s.step \in Reads
  <2> DEFINE source == IF replaced /\ s.source = {} THEN {fence.points} ELSE s.source
  <2>1. source \in Sources
    BY <1>2, <1>4 DEF SaveSteps, NoSave, Sources
  <2>2. \A list \in source :
          /\ ToSet(list) \subseteq UNION {ToSet(g.points) : g \in vs}
          /\ \E g \in vs : ~Enabled(g.points)
    <3>1. CASE replaced /\ s.source = {}
      <4>1. ~Enabled(changed.points)
        BY <3>1 DEF Enabled
      <4> QED BY <1>2, <3>1, <4>1
    <3>2. CASE ~(replaced /\ s.source = {})
      BY <1>1, <1>4, <3>2 DEF FromVersions
    <3> QED BY <3>1, <3>2
  <2>3. SavesIt(s, fence) => \A list \in source : list = fence.points
    BY <1>4 DEF SavesIt
  <2>4. d = [[s EXCEPT !.alone = FALSE] EXCEPT !.source = source]
    BY <1>4 DEF Disturbed
  <2> HIDE DEF source
  <2>5. CASE s.step = "margin"
    <3>1. s \in [step : {"margin"}, source : Sources, alone : BOOLEAN]
      BY <2>5 DEF SaveSteps, NoSave
    <3>2. /\ d \in [step : {"margin"}, source : Sources, alone : BOOLEAN]
          /\ d.source = source /\ ~d.alone
      BY <2>1, <2>4, <3>1
    <3> QED BY <2>2, <2>3, <2>5, <3>2 DEF SaveSteps, FromVersions, SavesIt, vs
  <2>6. CASE s.step = "read"
    <3>1. s \in [step : {"read"}, source : Sources, alone : BOOLEAN, points : Seq(Corners),
                 margin : Margins]
      BY <2>6 DEF SaveSteps, NoSave
    <3>2. /\ d \in [step : {"read"}, source : Sources, alone : BOOLEAN,
                    points : Seq(Corners), margin : Margins]
          /\ d.source = source /\ ~d.alone /\ d.points = s.points /\ d.margin = s.margin
      BY <2>1, <2>4, <3>1
    <3>3. d \in SaveSteps
      BY <3>2 DEF SaveSteps
    <3>4. FromVersions(d, vs)
      BY <1>1, <2>2, <2>6, <3>2 DEF FromVersions
    <3>5. SavesIt(s, fence) => SavesIt(d, fence)
      BY <2>3, <2>6, <3>2 DEF SavesIt
    <3> QED BY <2>6, <3>2, <3>3, <3>4, <3>5 DEF vs
  <2> QED BY <1>4, <2>5, <2>6
<1>5. CASE s.step \notin Reads \cup Writing
  <2>1. d = s /\ s \in {NoSave, [step |-> "dump"]}
    BY <1>5 DEF Disturbed, SaveSteps, NoSave
  <2> QED BY <2>1, Resting
<1> QED BY <1>3, <1>4, <1>5

LEMMA ChangeKeepsInv ==
  ASSUME KeepInv, NEW h \in Handlers, NEW changed \in Fences, NEW replaced \in BOOLEAN,
         replaced => changed.points = << >>, Change(h, changed, replaced)
  PROVE  KeepInv'
<1>1. /\ fence' = changed /\ promised' = promised \cup {changed}
      /\ file' = file /\ up /\ up' = up
      /\ save' = [g \in Handlers |-> IF g = h THEN [step |-> "dump"]
                                       ELSE Disturbed(save[g], replaced)]
  BY DEF Change
<1>2. ASSUME NEW g \in Handlers
      PROVE  /\ save'[g] \in SaveSteps
             /\ save'[g].step \in Reads \cup Writing => ~save'[g].alone
             /\ FromVersions(save'[g], promised')
             /\ SavesIt(save[g], fence) => SavesIt(save'[g], fence)
  <2>1. save[g] \in SaveSteps /\ FromVersions(save[g], promised) /\ KeepTypes
    BY DEF KeepInv, KeepTypes
  <2>2. CASE g = h
    BY <1>1, <2>2, Resting
  <2>3. CASE g # h
    <3>1. save'[g] = Disturbed(save[g], replaced)
      BY <1>1, <2>3
    <3> QED BY <1>1, <2>1, <3>1, DisturbedSave
  <2> QED BY <2>2, <2>3
<1>3. promised' = {fence'} => promised = {fence} /\ fence' = fence
  BY <1>1 DEF KeepInv, KeepTypes
<1>4. KeepTypes'
  BY <1>1, <1>2 DEF KeepInv, KeepTypes
<1>5. promised' = {fence'} => \A g \in Handlers : SavesIt(save'[g], fence')
  BY <1>2, <1>3 DEF KeepInv
<1>6. AloneInv'
  BY <1>2 DEF AloneInv
<1>7. FileInv'
  <2>1. promised \subseteq promised'
    BY <1>1
  <2>2. CASE file = {}
    BY <1>1, <2>1, <2>2 DEF KeepInv, FileInv
  <2>3. CASE file # {}
    <3>1. PICK f : /\ file = {f}
                   /\ f # Torn => /\ f \in Fences /\ MadeOf(f, promised)
                                  /\ promised = {fence} => f = fence
      BY <2>3 DEF KeepInv, FileInv
    <3>2. f # Torn => MadeOf(f, promised')
      BY <2>1, <3>1, MadeOfMore
    <3> QED BY <1>1, <1>3, <3>1, <3>2 DEF FileInv
  <2> QED BY <2>2, <2>3
<1> QED BY <1>2, <1>4, <1>5, <1>6, <1>7 DEF KeepInv

\* A step of a save that is under way and goes on, or ends, from what it has read.
LEMMA SaveMoves ==
  ASSUME KeepInv, NEW h \in Handlers, save[h].step # "idle", NEW s,
         UNCHANGED <<fence, up, promised>>, save' = [save EXCEPT ![h] = s],
         s \in SaveSteps, FromVersions(s, promised),
         promised = {fence} => SavesIt(s, fence),
         s.step \in Reads \cup Writing /\ s.alone =>
           /\ SavesIt(s, fence)
           /\ \A g \in Handlers \ {h} : save[g].step = "idle",
         FileInv'
  PROVE  KeepInv'
<1>1. /\ save'[h] = s
      /\ \A g \in Handlers \ {h} : save'[g] = save[g]
  BY DEF KeepInv, KeepTypes
<1>2. \A g \in Handlers \ {h} : save[g].step \in Reads \cup Writing => ~save[g].alone
  BY DEF KeepInv, AloneInv
<1>3. up
  BY DEF KeepInv, KeepTypes
<1>4. KeepTypes'
  BY <1>3 DEF KeepInv, KeepTypes
<1>5. AloneInv'
  BY <1>1, <1>2 DEF AloneInv
<1> QED BY <1>1, <1>4, <1>5 DEF KeepInv

LEMMA DumpKeepsInv ==
  ASSUME KeepInv, NEW h \in Handlers, Dump(h)
  PROVE  KeepInv'
<1> DEFINE alone == \A g \in Handlers \ {h} : save[g].step = "idle"
           s == [step |-> "margin", source |-> {}, alone |-> alone]
<1>1. /\ UNCHANGED <<fence, up, promised, file>> /\ save[h].step = "dump"
      /\ save' = [save EXCEPT ![h] = s]
  BY DEF Dump
<1>2. s \in SaveSteps
  BY DEF SaveSteps, Sources
<1>3. FromVersions(s, promised) /\ SavesIt(s, fence)
  BY DEF FromVersions, SavesIt
<1>4. FileInv'
  BY <1>1 DEF KeepInv, FileInv
<1>5. s.alone => \A g \in Handlers \ {h} : save[g].step = "idle"
  OBVIOUS
<1> HIDE DEF s
<1> QED BY <1>1, <1>2, <1>3, <1>4, <1>5, SaveMoves

LEMMA ReadMarginKeepsInv ==
  ASSUME KeepInv, NEW h \in Handlers, ReadMargin(h)
  PROVE  KeepInv'
<1> DEFINE s == [step |-> "read", source |-> save[h].source, alone |-> save[h].alone,
                 points |-> << >>, margin |-> fence.margin]
<1>1. /\ UNCHANGED <<fence, up, promised, file>> /\ save[h].step = "margin"
      /\ save' = [save EXCEPT ![h] = s]
  BY DEF ReadMargin
<1>2. save[h] \in [step : {"margin"}, source : Sources, alone : BOOLEAN]
  BY <1>1 DEF KeepInv, KeepTypes, SaveSteps, NoSave
<1>3. fence.margin \in Margins /\ fence.margin \in {g.margin : g \in promised}
  BY DEF KeepInv, KeepTypes, Fences
<1>4. << >> \in Seq(Corners) /\ ToSet(<< >>) = {} /\ Len(<< >>) = 0
  BY DEF ToSet
<1>5. s \in SaveSteps
  BY <1>2, <1>3, <1>4 DEF SaveSteps
<1>6. FromVersions(s, promised)
  BY <1>1, <1>3, <1>4 DEF KeepInv, FromVersions
<1>7. Starts(<< >>, fence.points)
  <2>1. Len(fence.points) \in Nat
    BY DEF KeepInv, KeepTypes, Fences
  <2> QED BY <1>4, <2>1 DEF Starts
<1>8. SavesIt(save[h], fence) => SavesIt(s, fence)
  BY <1>1, <1>7 DEF SavesIt
<1>9. save[h].alone => /\ SavesIt(save[h], fence)
                       /\ \A g \in Handlers \ {h} : save[g].step = "idle"
  BY <1>1 DEF KeepInv, AloneInv
<1>10. FileInv'
  BY <1>1 DEF KeepInv, FileInv
<1>11. /\ promised = {fence} => SavesIt(s, fence)
       /\ s.alone => /\ SavesIt(s, fence)
                     /\ \A g \in Handlers \ {h} : save[g].step = "idle"
  BY <1>8, <1>9 DEF KeepInv
<1> HIDE DEF s
<1> QED BY <1>1, <1>5, <1>6, <1>10, <1>11, SaveMoves

\* The list a save reads, of whichever version.
LEMMA SourceOfSave ==
  ASSUME KeepInv, NEW h \in Handlers, save[h].step = "read"
  PROVE  LET list == Source(save[h]) IN
         /\ list \in Seq(Corners)
         /\ ToSet(list) \subseteq UNION {ToSet(g.points) : g \in promised}
         /\ Enabled(list) \/ \E g \in promised : ~Enabled(g.points)
         /\ SavesIt(save[h], fence) => list = fence.points
<1>1. save[h].source \in Sources
  BY DEF KeepInv, KeepTypes, SaveSteps, NoSave
<1>2. CASE save[h].source = {}
  <2>1. Source(save[h]) = fence.points
    BY <1>2 DEF Source
  <2> QED BY <2>1 DEF KeepInv, KeepTypes, Fences
<1>3. CASE save[h].source # {}
  <2>1. PICK list \in Seq(Corners) : save[h].source = {list}
    BY <1>1, <1>3 DEF Sources
  <2>2. Source(save[h]) = list
    BY <1>3, <2>1 DEF Source
  <2> QED BY <2>1, <2>2 DEF KeepInv, FromVersions, SavesIt
<1> QED BY <1>2, <1>3

LEMMA ReadPointKeepsInv ==
  ASSUME KeepInv, NEW h \in Handlers, ReadPoint(h)
  PROVE  KeepInv'
<1> DEFINE list == Source(save[h])
           read == save[h].points
<1>1. UNCHANGED <<fence, up, promised, file>> /\ save[h].step = "read"
  BY DEF ReadPoint
<1>2. save[h] \in [step : {"read"}, source : Sources, alone : BOOLEAN, points : Seq(Corners),
                   margin : Margins]
  BY <1>1 DEF KeepInv, KeepTypes, SaveSteps, NoSave
<1>3. /\ list \in Seq(Corners)
      /\ ToSet(list) \subseteq UNION {ToSet(g.points) : g \in promised}
      /\ Enabled(list) \/ \E g \in promised : ~Enabled(g.points)
      /\ SavesIt(save[h], fence) => list = fence.points
  BY <1>1, SourceOfSave
<1>4. read \in Seq(Corners) /\ Len(read) \in Nat /\ Len(list) \in Nat
  BY <1>2, <1>3
<1>5. /\ FromVersions(save[h], promised)
      /\ promised = {fence} => SavesIt(save[h], fence)
      /\ save[h].alone => /\ SavesIt(save[h], fence)
                          /\ \A g \in Handlers \ {h} : save[g].step = "idle"
  BY <1>1 DEF KeepInv, AloneInv
<1>6. FileInv'
  BY <1>1 DEF KeepInv, FileInv
<1>7. CASE Len(read) < Len(list)
  <2> DEFINE more == Append(read, list[Len(read) + 1])
             s == [save[h] EXCEPT !.points = more]
  <2>1. save' = [save EXCEPT ![h] = s]
    BY <1>7 DEF ReadPoint
  <2>2. list[Len(read) + 1] \in Corners /\ list[Len(read) + 1] \in ToSet(list)
    BY <1>3, <1>4, <1>7 DEF ToSet
  <2>3. more \in Seq(Corners) /\ ToSet(more) \subseteq ToSet(read) \cup {list[Len(read) + 1]}
    <3>1. /\ more \in Seq(Corners) /\ Len(more) = Len(read) + 1
          /\ \A i \in 1..Len(read) : more[i] = read[i]
          /\ more[Len(read) + 1] = list[Len(read) + 1]
      BY <1>4, <2>2
    <3> HIDE DEF more, list, read
    <3>2. 1..Len(more) = 1..Len(read) \cup {Len(read) + 1}
      BY <1>4, <3>1
    <3>3. ToSet(more) = {more[i] : i \in 1..Len(more)}
      BY <3>1 DEF ToSet
    <3>4. ToSet(read) = {read[i] : i \in 1..Len(read)}
      BY <1>4 DEF ToSet
    <3>5. more[Len(read) + 1] = list[Len(read) + 1]
      BY <3>1
    <3>6. \A i \in 1..Len(read) : more[i] \in ToSet(read)
      BY <3>1, <3>4
    <3>7. \A i \in 1..Len(read) \cup {Len(read) + 1} :
            more[i] \in ToSet(read) \cup {list[Len(read) + 1]}
      BY <3>5, <3>6, Zenon
    <3> QED BY <3>1, <3>2, <3>3, <3>7
  <2>4. SavesIt(save[h], fence) => Starts(more, fence.points)
    <3> SUFFICES ASSUME SavesIt(save[h], fence) PROVE Starts(more, fence.points)
      OBVIOUS
    <3>1. Starts(read, fence.points) /\ list = fence.points
      BY <1>1, <1>3 DEF SavesIt
    <3>2. Len(more) = Len(read) + 1
      BY <1>4, <2>2
    <3>3. ASSUME NEW i \in 1..Len(more) PROVE more[i] = fence.points[i]
      <4>1. CASE i = Len(read) + 1
        BY <1>4, <2>2, <3>1, <4>1
      <4>2. CASE i \in 1..Len(read)
        BY <1>4, <2>2, <3>1, <4>2 DEF Starts
      <4> QED BY <1>4, <3>2, <4>1, <4>2
    <3> QED BY <1>4, <1>7, <3>1, <3>2, <3>3 DEF Starts
  <2> HIDE DEF more, list
  <2>5. /\ s \in [step : {"read"}, source : Sources, alone : BOOLEAN, points : Seq(Corners),
                  margin : Margins]
        /\ s.source = save[h].source /\ s.alone = save[h].alone
        /\ s.points = more /\ s.margin = save[h].margin
    BY <1>2, <2>3
  <2>6. s \in SaveSteps
    BY <2>5 DEF SaveSteps
  <2>7. FromVersions(s, promised)
    <3>1. ToSet(more) \subseteq UNION {ToSet(g.points) : g \in promised}
      BY <1>1, <1>3, <1>5, <2>2, <2>3 DEF FromVersions
    <3> QED BY <1>1, <1>5, <2>5, <3>1 DEF FromVersions
  <2>8. SavesIt(save[h], fence) => SavesIt(s, fence)
    BY <1>1, <2>4, <2>5 DEF SavesIt
  <2> HIDE DEF s
  <2> QED BY <1>1, <1>5, <1>6, <2>1, <2>5, <2>6, <2>7, <2>8, SaveMoves
<1>8. CASE ~(Len(read) < Len(list))
  <2> DEFINE data == [points |-> read, margin |-> save[h].margin]
             s == [step |-> "open", alone |-> save[h].alone, data |-> data]
  <2>1. save' = [save EXCEPT ![h] = s]
    BY <1>8 DEF ReadPoint
  <2>2. data \in Fences
    BY <1>2 DEF Fences
  <2>3. s \in SaveSteps
    BY <1>2, <2>2 DEF SaveSteps
  <2>4. MadeOf(data, promised)
    <3>1. Enabled(list) => Enabled(read)
      BY <1>4, <1>8 DEF Enabled
    <3> QED BY <1>1, <1>3, <1>5, <3>1 DEF FromVersions, MadeOf
  <2>5. FromVersions(s, promised)
    BY <2>4 DEF FromVersions
  <2>6. SavesIt(save[h], fence) => SavesIt(s, fence)
    <3> SUFFICES ASSUME SavesIt(save[h], fence) PROVE data = fence
      BY DEF SavesIt
    <3>1. Starts(read, fence.points) /\ list = fence.points /\ save[h].margin = fence.margin
      BY <1>1, <1>3 DEF SavesIt
    <3>2. fence \in Fences
      BY DEF KeepInv, KeepTypes
    <3>3. read = fence.points
      <4>1. Len(read) = Len(fence.points)
        BY <1>4, <1>8, <3>1 DEF Starts
      <4>2. \A i \in 1..Len(read) : read[i] = fence.points[i]
        BY <3>1 DEF Starts
      <4>3. fence.points \in Seq(Corners)
        BY <3>2 DEF Fences
      <4> QED BY <1>4, <4>1, <4>2, <4>3
    <3> QED BY <3>1, <3>2, <3>3 DEF Fences
  <2> HIDE DEF data, list
  <2>7. s.alone = save[h].alone
    OBVIOUS
  <2> HIDE DEF s
  <2> QED BY <1>1, <1>5, <1>6, <2>1, <2>3, <2>5, <2>6, <2>7, SaveMoves
<1> QED BY <1>7, <1>8

LEMMA TruncateKeepsInv ==
  ASSUME KeepInv, NEW h \in Handlers, Truncate(h)
  PROVE  KeepInv'
<1> DEFINE s == [save[h] EXCEPT !.step = "write"]
<1>1. /\ UNCHANGED <<fence, up, promised>> /\ file' = {Torn}
      /\ save[h].step = "open"
      /\ save' = [save EXCEPT ![h] = s]
  BY DEF Truncate
<1>2. save[h] \in [step : Writing, alone : BOOLEAN, data : Fences]
  BY <1>1 DEF KeepInv, KeepTypes, SaveSteps, NoSave
<1>3. /\ s \in [step : Writing, alone : BOOLEAN, data : Fences]
      /\ s.step = "write" /\ s.data = save[h].data /\ s.alone = save[h].alone
  BY <1>2
<1>4. s \in SaveSteps
  BY <1>3 DEF SaveSteps
<1> HIDE DEF s
<1>5. FromVersions(s, promised)
  BY <1>1, <1>3 DEF KeepInv, FromVersions
<1>6. SavesIt(save[h], fence) => SavesIt(s, fence)
  BY <1>1, <1>3 DEF SavesIt
<1>7. FileInv'
  BY <1>1 DEF FileInv
<1>8. save[h].alone => /\ SavesIt(save[h], fence)
                       /\ \A g \in Handlers \ {h} : save[g].step = "idle"
  BY <1>1 DEF KeepInv, AloneInv
<1>9. promised = {fence} => SavesIt(s, fence)
  BY <1>6 DEF KeepInv
<1> QED BY <1>1, <1>3, <1>4, <1>5, <1>6, <1>7, <1>8, <1>9, SaveMoves

LEMMA WriteKeepsInv ==
  ASSUME KeepInv, NEW h \in Handlers, Write(h)
  PROVE  KeepInv'
<1>1. /\ UNCHANGED <<fence, up>>
      /\ save[h].step = "write"
      /\ save' = [save EXCEPT ![h] = NoSave]
      /\ promised' = IF save[h].alone THEN {save[h].data} ELSE promised
      /\ file' = {save[h].data} \/ (~save[h].alone /\ file' = {Torn})
  BY DEF Write
<1>2. /\ save[h].data \in Fences /\ MadeOf(save[h].data, promised)
      /\ promised = {fence} => save[h].data = fence
  BY <1>1 DEF KeepInv, KeepTypes, SaveSteps, NoSave, FromVersions, SavesIt
<1>3. CASE save[h].alone
  <2>1. /\ save[h].data = fence
        /\ \A g \in Handlers \ {h} : save[g].step = "idle"
    BY <1>1, <1>3 DEF KeepInv, AloneInv, SavesIt
  <2>2. \A g \in Handlers : save'[g] = NoSave
    BY <1>1, <2>1 DEF KeepInv, KeepTypes, SaveSteps
  <2>3. promised' = {fence'} /\ file' = {fence'}
    BY <1>1, <1>3, <2>1
  <2>4. fence' \in Fences /\ MadeOf(fence', promised')
    BY <1>1, <1>2, <2>1, <2>3, MadeOfOne
  <2>5. save' \in [Handlers -> SaveSteps]
    BY <1>1, Resting DEF KeepInv, KeepTypes
  <2>6. KeepTypes'
    BY <2>2, <2>3, <2>4, <2>5 DEF KeepTypes, NoSave
  <2>7. AloneInv'
    BY <2>2, Resting DEF AloneInv
  <2>8. FileInv'
    BY <2>3, <2>4 DEF FileInv
  <2> QED BY <2>2, <2>6, <2>7, <2>8, Resting DEF KeepInv
<1>4. CASE ~save[h].alone
  <2>1. promised' = promised
    BY <1>1, <1>4
  <2>2. FileInv'
    BY <1>1, <1>2, <2>1 DEF FileInv
  <2>3. /\ NoSave \in SaveSteps /\ FromVersions(NoSave, promised) /\ SavesIt(NoSave, fence)
        /\ NoSave.step \notin Reads \cup Writing
    BY Resting
  <2> QED BY <1>1, <2>1, <2>2, <2>3, SaveMoves
<1> QED BY <1>3, <1>4

LEMMA SaveFailsKeepsInv ==
  ASSUME KeepInv, NEW h \in Handlers, SaveFails(h)
  PROVE  KeepInv'
<1>1. /\ UNCHANGED <<fence, up, promised, file>> /\ save[h].step # "idle"
      /\ save' = [save EXCEPT ![h] = NoSave]
  BY DEF SaveFails
<1>2. FileInv'
  BY <1>1 DEF KeepInv, FileInv
<1>3. /\ NoSave \in SaveSteps /\ FromVersions(NoSave, promised) /\ SavesIt(NoSave, fence)
      /\ NoSave.step \notin Reads \cup Writing
  BY Resting
<1> QED BY <1>1, <1>2, <1>3, SaveMoves

LEMMA RoutesKeepInv ==
  ASSUME KeepInv, NEW h \in Handlers, Routes(h)
  PROVE  KeepInv'
<1>1. CASE AddPoint(h) \/ RemovePoint(h) \/ Clear(h) \/ SetMargin(h)
  <2>1. fence \in Fences
    BY DEF KeepInv, KeepTypes
  <2> QED BY <1>1, <2>1, Changes, ChangeKeepsInv
<1> QED BY <1>1, DumpKeepsInv, ReadMarginKeepsInv, ReadPointKeepsInv, TruncateKeepsInv,
           WriteKeepsInv, SaveFailsKeepsInv DEF Routes

\* What is read back is made of what was promised, and that alone if it is one fence.
LEMMA RestartReads ==
  ASSUME KeepInv, Restart
  PROVE  /\ ~up /\ up' /\ fence' \in Fences
         /\ promised' = promised \cup {fence'} /\ UNCHANGED <<file, save, tick, loosest>>
         /\ file = {} \/ file = {fence'}
         /\ \A f \in promised : promised = {f} => fence' = f
         /\ MadeOf(fence', promised)
<1> DEFINE back == IF file = {} THEN Default ELSE CHOOSE f \in file : TRUE
<1>1. /\ ~up /\ up' /\ file # {Torn} /\ fence' = back
      /\ promised' = promised \cup {back} /\ UNCHANGED <<file, save, tick, loosest>>
  BY DEF Restart, ReadBack
<1>2. \A f \in promised : promised = {f} => f = fence
  BY DEF KeepInv, KeepTypes
<1>3. CASE file = {}
  <2>1. back = Default /\ Default \in promised
    BY <1>3 DEF KeepInv, FileInv
  <2>2. Default \in Fences /\ MadeOf(Default, promised)
    BY <2>1, MadeOfOne DEF KeepInv, KeepTypes
  <2> HIDE DEF back
  <2> QED BY <1>1, <1>3, <2>1, <2>2
<1>4. CASE file # {}
  <2>1. PICK f : /\ file = {f}
                 /\ f # Torn => /\ f \in Fences /\ MadeOf(f, promised)
                                /\ promised = {fence} => f = fence
    BY <1>4 DEF KeepInv, FileInv
  <2>2. back = f /\ f # Torn
    BY <1>1, <1>4, <2>1
  <2> HIDE DEF back
  <2> QED BY <1>1, <1>2, <2>1, <2>2
<1> QED BY <1>3, <1>4

LEMMA RestartKeepsInv == KeepInv /\ Restart => KeepInv'
<1> SUFFICES ASSUME KeepInv, Restart PROVE KeepInv'
  OBVIOUS
<1>1. /\ ~up /\ up' /\ fence' \in Fences
      /\ promised' = promised \cup {fence'} /\ UNCHANGED <<file, save>>
      /\ file = {} \/ file = {fence'}
      /\ MadeOf(fence', promised)
  BY RestartReads
<1>2. \A h \in Handlers : save[h] \in {NoSave, [step |-> "dump"]}
  BY <1>1 DEF KeepInv, KeepTypes, SaveSteps, NoSave
<1>3. MadeOf(fence', promised')
  BY <1>1, MadeOfMore
<1>4. KeepTypes'
  BY <1>1 DEF KeepInv, KeepTypes
<1>5. AloneInv'
  BY <1>1, <1>2, Resting DEF AloneInv
<1>6. FileInv'
  BY <1>1, <1>3 DEF KeepInv, FileInv
<1> QED BY <1>1, <1>2, <1>4, <1>5, <1>6, Resting DEF KeepInv

LEMMA CrashKeepsInv == KeepInv /\ Crash => KeepInv'
<1> SUFFICES ASSUME KeepInv, Crash PROVE KeepInv'
  OBVIOUS
<1>1. UNCHANGED <<fence, file, promised>> /\ save' = [h \in Handlers |-> NoSave]
  BY DEF Crash
<1>2. KeepTypes'
  BY <1>1, Resting DEF KeepInv, KeepTypes, NoSave
<1>3. AloneInv' /\ FileInv'
  BY <1>1, Resting DEF KeepInv, AloneInv, FileInv
<1> QED BY <1>1, <1>2, <1>3, Resting DEF KeepInv

LEMMA FenceInductive == KeepInv /\ [FenceNext]_fenceVars => KeepInv'
<1> SUFFICES ASSUME KeepInv, [FenceNext]_fenceVars PROVE KeepInv'
  OBVIOUS
<1>1. CASE Check \/ UNCHANGED fenceVars
  <2>1. UNCHANGED <<fence, up, file, save, promised>>
    BY <1>1 DEF Check, BeginTick, AskEnabled, ReadPoints, ReadLow, Compare, Send, fenceVars
  <2> QED BY <2>1 DEF KeepInv, KeepTypes, FileInv, AloneInv
<1> QED BY <1>1, CrashKeepsInv, RoutesKeepInv, RestartKeepsInv DEF FenceNext

\* Whatever crashes, failed saves and overlapping requests do, the app that is up again
\* holds the fence of the last undisturbed save, or one put together from it and the
\* versions set since.
THEOREM FenceSurvives == FenceSpec => RestartKeepsFence
<1> DEFINE Kept == /\ \A f \in promised : promised = {f} => fence' = f
                   /\ MadeOf(fence', promised)
<1>1. KeepInv /\ [FenceNext]_fenceVars => [~up /\ up' => Kept]_fenceVars
  <2> SUFFICES ASSUME KeepInv, FenceNext, ~up, up' PROVE Kept
    BY DEF fenceVars
  <2>1. Restart
    BY DEF FenceNext, Routes, AddPoint, RemovePoint, Clear, SetMargin, Change, Dump,
       ReadMargin, ReadPoint, Truncate, Write, SaveFails, Crash, Check, BeginTick,
       AskEnabled, ReadPoints, ReadLow, Compare, Send
  <2> QED BY <2>1, RestartReads
<1> QED BY <1>1, FenceInitial, FenceInductive, PTL DEF FenceSpec, RestartKeepsFence

-----------------------------------------------------------------------------
(* The fence while it is checked. *)

Boxes == [open : BOOLEAN, low : Int, high : Int, margin : Int]

\* The first box is contained in the second.
Covered(small, big) ==
  big.open \/ /\ ~small.open
              /\ big.low <= small.low /\ small.high <= big.high
              /\ big.margin <= small.margin

\* A tick before it has read any point, and after.
Fresh == [step : {"enabled", "points", "send"}, aimed : Places, measured : Places,
          second : BOOLEAN]
Reading == [step : {"enabled", "points", "low", "high", "send"}, aimed : Places,
            measured : Places, second : BOOLEAN, low : Int, high : Int]

TickTypes ==
  /\ fence \in Fences /\ promised \subseteq Fences
  /\ tick \in {NoTick} \cup Fresh \cup Reading
  /\ loosest \in Boxes
  /\ ~up => tick.step = "idle"

\* During a tick the present fence is covered, and so is what the check has read of
\* earlier ones; a position that has passed is inside.
CheckInv ==
  tick.step # "idle" =>
    /\ Covered(Box(fence), loosest)
    /\ tick.second \/ tick.step = "send" => Inside(tick.aimed, loosest)
    /\ tick.step = "send" => Inside(tick.measured, loosest)
    /\ tick.step \in {"low", "high"} /\ ~loosest.open =>
         /\ tick.high <= loosest.high
         /\ loosest.low + (IF tick.step = "high" THEN loosest.margin ELSE 0) <= tick.low

TickInv == TickTypes /\ CheckInv

LEMMA Measures == Corners \subseteq Int /\ Margins \subseteq Int
<1>1. Corners \subseteq Int /\ Margins \subseteq Nat
  BY FenceAssumption DEF FenceAssumption
<1> QED BY <1>1

\* The corners that points span.
LEMMA CornersOfPoints ==
  ASSUME NEW points \in Seq(Corners), points # << >>
  PROVE  Min(ToSet(points)) \in Int /\ Max(ToSet(points)) \in Int
<1>1. Len(points) \in Nat \ {0}
  OBVIOUS
<1>2. \A i \in 1..Len(points) : points[i] \in Int
  <2>1. \A i \in 1..Len(points) : points[i] \in Corners
    OBVIOUS
  <2> QED BY <2>1, Measures
<1>3. ToSet(points) = {points[i] : i \in 1..Len(points)}
  BY DEF ToSet
<1> DEFINE S == {points[i] : i \in 1..Len(points)}
<1>4. S \subseteq Int
  BY <1>2
<1>5. Min(S) \in S /\ Max(S) \in S
  BY <1>1, <1>2, ExtremaOfValues
<1>6. ToSet(points) = S
  BY <1>3
<1> HIDE DEF S
<1> QED BY <1>4, <1>5, <1>6

LEMMA BoxOfFence ==
  ASSUME NEW f \in Fences
  PROVE  /\ Box(f) \in Boxes
         /\ Box(f).open <=> Len(f.points) < 2
         /\ Box(f).margin = f.margin
         /\ ~Box(f).open => Box(f).low = Min(ToSet(f.points)) /\ Box(f).high = Max(ToSet(f.points))
<1>1. f.points \in Seq(Corners) /\ f.margin \in Int
  BY Measures DEF Fences
<1>2. Len(f.points) \in Nat
  BY <1>1
<1>3. Enabled(f.points) => f.points # << >>
  BY <1>1 DEF Enabled
<1>4. Enabled(f.points) => Min(ToSet(f.points)) \in Int /\ Max(ToSet(f.points)) \in Int
  BY <1>1, <1>3, CornersOfPoints
<1>5. Enabled(f.points) <=> ~(Len(f.points) < 2)
  BY <1>2 DEF Enabled
<1> DEFINE low == IF Enabled(f.points) THEN Min(ToSet(f.points)) ELSE 0
           high == IF Enabled(f.points) THEN Max(ToSet(f.points)) ELSE 0
           open == ~Enabled(f.points)
<1>6. low \in Int /\ high \in Int /\ open \in BOOLEAN
  BY <1>4
<1>7. Box(f) = [open |-> open, low |-> low, high |-> high, margin |-> f.margin]
  BY DEF Box
<1>8. Box(f) \in Boxes
  <2> HIDE DEF low, high, open
  <2> QED BY <1>1, <1>6, <1>7 DEF Boxes
<1>9. /\ Box(f).open = open /\ Box(f).margin = f.margin
      /\ Box(f).low = low /\ Box(f).high = high
  <2> HIDE DEF low, high, open
  <2> QED BY <1>7
<1> QED BY <1>5, <1>8, <1>9

LEMMA HullCovers ==
  ASSUME NEW a \in Boxes, NEW b \in Boxes
  PROVE  Hull(a, b) \in Boxes /\ Covered(a, Hull(a, b)) /\ Covered(b, Hull(a, b))
<1>1. /\ a.low \in Int /\ b.low \in Int /\ a.high \in Int /\ b.high \in Int
      /\ a.margin \in Int /\ b.margin \in Int
  BY DEF Boxes
<1>2. /\ Min({a.low, b.low}) = IF a.low <= b.low THEN a.low ELSE b.low
      /\ Max({a.high, b.high}) = IF a.high <= b.high THEN b.high ELSE a.high
      /\ Min({a.margin, b.margin}) = IF a.margin <= b.margin THEN a.margin ELSE b.margin
  BY <1>1, ExtremaOfPair
<1> QED BY <1>1, <1>2 DEF Hull, Covered, Boxes

LEMMA InsideGrows ==
  ASSUME NEW a \in Boxes, NEW b \in Boxes, Covered(a, b), NEW place, Inside(place, a)
  PROVE  Inside(place, b)
<1>1. CASE b.open
  BY <1>1 DEF Inside
<1>2. CASE ~b.open
  <2>1. place \in (a.low + a.margin)..(a.high - a.margin)
    BY <1>2 DEF Covered, Inside
  <2> QED BY <1>2, <2>1 DEF Covered, Inside, Boxes
<1> QED BY <1>1, <1>2

-----------------------------------------------------------------------------
LEMMA ChangeKeepsTick ==
  ASSUME TickInv, NEW h \in Handlers, NEW changed \in Fences, NEW replaced,
         Change(h, changed, replaced)
  PROVE  TickInv'
<1>1. /\ fence' = changed /\ promised' = promised \cup {changed} /\ tick' = tick /\ up' = up
      /\ loosest' = IF tick.step = "idle" THEN loosest ELSE Hull(loosest, Box(changed))
  BY DEF Change
<1>2. Box(changed) \in Boxes
  BY BoxOfFence
<1> DEFINE wide == Hull(loosest, Box(changed))
<1>3. wide \in Boxes /\ Covered(loosest, wide) /\ Covered(Box(changed), wide)
  BY <1>2, HullCovers DEF TickInv, TickTypes
<1> HIDE DEF wide
<1>4. TickTypes'
  BY <1>1, <1>3 DEF TickInv, TickTypes, wide
<1>5. ASSUME tick.step # "idle" PROVE CheckInv'
  <2>1. loosest' = wide
    BY <1>1, <1>5 DEF wide
  <2>2. \A place : Inside(place, loosest) => Inside(place, wide)
    BY <1>3, InsideGrows DEF TickInv, TickTypes
  <2>3. ASSUME tick.step \in {"low", "high"}, ~wide.open
        PROVE  /\ tick.high <= wide.high
               /\ wide.low + (IF tick.step = "high" THEN wide.margin ELSE 0) <= tick.low
    <3>1. tick.low \in Int /\ tick.high \in Int
      BY <2>3 DEF TickInv, TickTypes, Fresh, Reading, NoTick
    <3>2. loosest \in Boxes
      BY DEF TickInv, TickTypes
    <3> QED BY <1>3, <1>5, <2>3, <3>1, <3>2 DEF TickInv, CheckInv, Covered, Boxes
  <2> QED BY <1>1, <1>3, <1>5, <2>1, <2>2, <2>3 DEF TickInv, CheckInv
<1> QED BY <1>1, <1>4, <1>5 DEF TickInv, CheckInv

LEMMA RoutesKeepTick ==
  ASSUME TickInv, KeepInv, NEW h \in Handlers, Routes(h)
  PROVE  TickInv'
<1>1. CASE AddPoint(h) \/ RemovePoint(h) \/ Clear(h) \/ SetMargin(h)
  <2>1. fence \in Fences
    BY DEF TickInv, TickTypes
  <2> QED BY <1>1, <2>1, Changes, ChangeKeepsTick
<1>2. CASE Dump(h) \/ ReadMargin(h) \/ ReadPoint(h) \/ Truncate(h) \/ Write(h) \/ SaveFails(h)
  <2>1. UNCHANGED <<fence, up, tick, loosest>>
    BY <1>2 DEF Dump, ReadMargin, ReadPoint, Truncate, Write, SaveFails
  <2>2. promised' \subseteq Fences
    BY RoutesKeepInv DEF KeepInv, KeepTypes
  <2> QED BY <2>1, <2>2 DEF TickInv, TickTypes, CheckInv
<1> QED BY <1>1, <1>2 DEF Routes

LEMMA RestartKeepsTick ==
  ASSUME TickInv, KeepInv, Crash \/ Restart
  PROVE  TickInv'
<1>1. CASE Crash
  <2>1. UNCHANGED <<fence, promised, loosest>> /\ tick' = NoTick
    BY <1>1 DEF Crash
  <2> QED BY <2>1 DEF TickInv, TickTypes, CheckInv, NoTick
<1>2. CASE Restart
  <2>1. ~up /\ up' /\ UNCHANGED <<loosest, tick>>
    BY <1>2, RestartReads
  <2>2. fence' \in Fences /\ promised' \subseteq Fences
    BY <1>2, RestartKeepsInv DEF KeepInv, KeepTypes
  <2> QED BY <2>1, <2>2 DEF TickInv, TickTypes, CheckInv
<1> QED BY <1>1, <1>2

LEMMA BeginKeepsTick ==
  ASSUME TickInv, BeginTick
  PROVE  TickInv'
<1>1. /\ UNCHANGED <<fence, up, promised>> /\ up
      /\ loosest' = Box(fence)
  BY DEF BeginTick
<1>2. PICK aimed \in Places, measured \in Places :
        tick' = [step |-> IF Enabled(fence.points) THEN "enabled" ELSE "send",
                 aimed |-> aimed, measured |-> measured, second |-> FALSE]
  BY DEF BeginTick
<1>3. Box(fence) \in Boxes /\ (Box(fence).open <=> ~Enabled(fence.points))
  BY BoxOfFence DEF TickInv, TickTypes, Box
<1>4. tick' \in Fresh
  BY <1>2 DEF Fresh
<1>5. TickTypes'
  BY <1>1, <1>3, <1>4 DEF TickInv, TickTypes
<1>6. Covered(Box(fence'), loosest')
  BY <1>1, <1>3 DEF Covered, Boxes
<1>7. CheckInv'
  BY <1>1, <1>2, <1>3, <1>6 DEF CheckInv, Inside
<1> QED BY <1>5, <1>7 DEF TickInv

LEMMA ForgetRead ==
  ASSUME NEW read \in Reading
  PROVE  LET forgot == [read EXCEPT !.low = 0, !.high = 0] IN
         /\ forgot \in Reading
         /\ forgot.aimed = read.aimed /\ forgot.measured = read.measured
         /\ forgot.step = read.step /\ forgot.second = read.second
<1> DEFINE forgot == [read EXCEPT !.low = 0, !.high = 0]
<1>1. forgot \in Reading
  <2>1. [read EXCEPT !.low = 0] \in Reading
    BY DEF Reading
  <2>2. [[read EXCEPT !.low = 0] EXCEPT !.high = 0] \in Reading
    BY <2>1 DEF Reading
  <2>3. forgot = [[read EXCEPT !.low = 0] EXCEPT !.high = 0]
    BY DEF Reading
  <2> QED BY <2>2, <2>3
<1>2. DOMAIN read = {"step", "aimed", "measured", "second", "low", "high"}
  BY DEF Reading
<1>3. /\ forgot.aimed = read.aimed /\ forgot.measured = read.measured
      /\ forgot.step = read.step /\ forgot.second = read.second
  BY <1>2
<1> QED BY <1>1, <1>3

\* A check that has passed leaves its position inside.
LEMMA PassedKeepsTick ==
  ASSUME TickInv, tick.step \in {"enabled", "high"}, Inside(Place, loosest),
         UNCHANGED <<fence, up, promised, loosest>>,
         tick' = Passed \/ (tick.step = "high" /\ tick' = [Passed EXCEPT !.low = 0, !.high = 0])
  PROVE  TickInv'
<1>1. tick \in Fresh \cup Reading
  BY DEF TickInv, TickTypes, NoTick
<1>2. /\ tick'.aimed = tick.aimed /\ tick'.measured = tick.measured
      /\ tick'.step = IF tick.second THEN "send" ELSE "enabled"
      /\ tick'.second = TRUE
      /\ tick' \in Fresh \cup Reading
  <2>1. CASE tick \in Fresh
    BY <2>1 DEF Fresh, Passed
  <2>2. CASE tick \in Reading
    <3>1. Passed \in Reading
      BY <2>2 DEF Reading, Passed
    <3>2. /\ Passed.aimed = tick.aimed /\ Passed.measured = tick.measured
          /\ Passed.step = IF tick.second THEN "send" ELSE "enabled"
          /\ Passed.second = TRUE
      BY <2>2 DEF Reading, Passed
    <3> QED BY <3>1, <3>2, ForgetRead
  <2> QED BY <1>1, <2>1, <2>2
<1>3. Inside(tick.aimed, loosest) /\ (tick.second => Inside(tick.measured, loosest))
  BY DEF Place, TickInv, CheckInv
<1>4. TickTypes'
  BY <1>2 DEF TickInv, TickTypes
<1>5. CheckInv'
  BY <1>2, <1>3 DEF TickInv, CheckInv
<1> QED BY <1>4, <1>5 DEF TickInv

LEMMA ChecksKeepTick ==
  ASSUME TickInv, Check
  PROVE  TickInv'
<1>1. CASE BeginTick
  BY <1>1, BeginKeepsTick
<1>2. CASE AskEnabled
  <2>1. tick.step = "enabled" /\ UNCHANGED <<fence, up, promised, loosest>>
    BY <1>2 DEF AskEnabled
  <2>2. CASE Enabled(fence.points)
    <3>1. tick' = [tick EXCEPT !.step = "points"]
      BY <1>2, <2>2 DEF AskEnabled
    <3> QED BY <2>1, <3>1 DEF TickInv, TickTypes, CheckInv, Fresh, Reading, NoTick
  <2>3. CASE ~Enabled(fence.points)
    <3>1. tick' = Passed
      BY <1>2, <2>3 DEF AskEnabled
    <3>2. Box(fence).open
      BY <2>3 DEF Box
    <3>3. Inside(Place, loosest)
      BY <2>1, <3>2 DEF TickInv, CheckInv, Covered, Inside
    <3> QED BY <2>1, <3>1, <3>3, PassedKeepsTick
  <2> QED BY <2>2, <2>3
<1>3. CASE ReadPoints
  <2>1. tick.step = "points" /\ UNCHANGED <<fence, up, promised, loosest>>
    BY <1>3 DEF ReadPoints
  <2>2. CASE fence.points = << >>
    BY <1>3, <2>1, <2>2 DEF ReadPoints, TickInv, TickTypes, CheckInv, NoTick
  <2>3. CASE fence.points # << >>
    <3>1. fence \in Fences /\ fence.points \in Seq(Corners)
      BY DEF TickInv, TickTypes, Fences
    <3> DEFINE low == Min(ToSet(fence.points))
               high == Max(ToSet(fence.points))
    <3>2. low \in Int /\ high \in Int
      BY <2>3, <3>1, CornersOfPoints
    <3>3. tick' = [step |-> "low", aimed |-> tick.aimed, measured |-> tick.measured,
                   second |-> tick.second, low |-> low, high |-> high]
      BY <1>3, <2>3 DEF ReadPoints
    <3>4. ~loosest.open => loosest.low <= low /\ high <= loosest.high
      BY <2>1, <3>1, BoxOfFence DEF TickInv, CheckInv, Covered
    <3> HIDE DEF low, high
    <3>5. tick' \in Reading
      BY <2>1, <3>2, <3>3 DEF TickInv, TickTypes, Fresh, Reading, NoTick
    <3>6. loosest.low \in Int
      BY DEF TickInv, TickTypes, Boxes
    <3> QED BY <2>1, <3>2, <3>3, <3>4, <3>5, <3>6 DEF TickInv, TickTypes, CheckInv
  <2> QED BY <2>2, <2>3
<1>4. CASE ReadLow
  <2>1. tick.step = "low" /\ UNCHANGED <<fence, up, promised, loosest>>
    BY <1>4 DEF ReadLow
  <2>2. tick \in Reading
    BY <2>1 DEF TickInv, TickTypes, Fresh, NoTick
  <2>3. fence.margin \in Int /\ loosest.low \in Int /\ loosest.margin \in Int
    BY Measures DEF TickInv, TickTypes, Fences, Boxes
  <2>4. /\ tick'.step = "high" /\ tick'.low = tick.low + fence.margin
        /\ tick'.high = tick.high /\ tick'.aimed = tick.aimed
        /\ tick'.measured = tick.measured /\ tick'.second = tick.second
        /\ tick' \in Reading
    <3> DEFINE low == tick.low + fence.margin
    <3>1. low \in Int
      BY <2>2, <2>3 DEF Reading
    <3>2. tick' = [[tick EXCEPT !.step = "high"] EXCEPT !.low = low]
      BY <1>4, <2>2 DEF ReadLow, Reading
    <3> HIDE DEF low
    <3>3. [tick EXCEPT !.step = "high"] \in Reading
      BY <2>2 DEF Reading
    <3>4. tick' \in Reading
      BY <3>1, <3>2, <3>3 DEF Reading
    <3> QED BY <2>2, <3>2, <3>4 DEF Reading, low
  <2>5. ~loosest.open => loosest.margin <= fence.margin
    BY <2>1, BoxOfFence DEF TickInv, TickTypes, CheckInv, Covered
  <2>6. tick.low \in Int
    BY <2>2 DEF Reading
  <2> QED BY <2>1, <2>3, <2>4, <2>5, <2>6 DEF TickInv, TickTypes, CheckInv
<1>5. CASE Compare
  <2>1. tick.step = "high" /\ UNCHANGED <<fence, up, promised, loosest>>
    BY <1>5 DEF Compare
  <2>2. CASE Place \in tick.low..(tick.high - fence.margin)
    <3>1. tick \in Reading
      BY <2>1 DEF TickInv, TickTypes, Fresh, NoTick
    <3>2. /\ fence.margin \in Int /\ loosest.low \in Int /\ loosest.margin \in Int
          /\ loosest.high \in Int /\ tick.low \in Int /\ tick.high \in Int
      BY <3>1, Measures
         DEF TickInv, TickTypes, Fences, Boxes, Reading
    <3>3. ~loosest.open => loosest.margin <= fence.margin
      BY <2>1, BoxOfFence DEF TickInv, TickTypes, CheckInv, Covered
    <3>4. Inside(Place, loosest)
      BY <2>1, <2>2, <3>2, <3>3 DEF TickInv, CheckInv, Inside
    <3>5. tick' = [Passed EXCEPT !.low = 0, !.high = 0]
      BY <1>5, <2>2 DEF Compare
    <3> QED BY <2>1, <3>4, <3>5, PassedKeepsTick
  <2>3. CASE Place \notin tick.low..(tick.high - fence.margin)
    BY <1>5, <2>1, <2>3 DEF Compare, TickInv, TickTypes, CheckInv, NoTick
  <2> QED BY <2>2, <2>3
<1>6. CASE Send
  BY <1>6 DEF Send, TickInv, TickTypes, CheckInv, NoTick
<1> QED BY <1>1, <1>2, <1>3, <1>4, <1>5, <1>6 DEF Check

LEMMA FenceStartsCovered == FenceInit => TickInv
<1> SUFFICES ASSUME FenceInit PROVE TickInv
  OBVIOUS
<1>1. << >> \in Seq(Corners)
  OBVIOUS
<1>2. Default \in Fences
  BY <1>1, FenceAssumption DEF FenceAssumption, Default, Fences
<1>3. Box(Default) \in Boxes
  BY <1>2, BoxOfFence
<1> QED BY <1>2, <1>3 DEF FenceInit, TickInv, TickTypes, CheckInv, NoTick

\* However the routes change the fence while a tick checks it, what is sent to the robot
\* lies within the box in force, or within what its versions during the tick span.
THEOREM FenceIsHonoured == FenceSpec => []FenceHonoured
<1> DEFINE Inv == KeepInv /\ TickInv
<1>1. FenceInit => Inv
  BY FenceInitial, FenceStartsCovered
<1>2. Inv /\ [FenceNext]_fenceVars => Inv'
  <2> SUFFICES ASSUME Inv, [FenceNext]_fenceVars PROVE TickInv'
    BY FenceInductive
  <2>1. CASE UNCHANGED fenceVars
    BY <2>1 DEF fenceVars, TickInv, TickTypes, CheckInv
  <2> QED BY <2>1, RoutesKeepTick, RestartKeepsTick, ChecksKeepTick DEF FenceNext
<1>3. Inv => FenceHonoured
  BY DEF TickInv, CheckInv, FenceHonoured
<1> QED BY <1>1, <1>2, <1>3, PTL DEF FenceSpec

-----------------------------------------------------------------------------
(* The configuration. *)

\* One operator, whose requests come one at a time.
OneOperator == \A a, b \in Users : a = b

\* A session runs with the present configuration, and no request is changing it; with
\* other cameras only while those that ran before it go on.
FrozenInv ==
  /\ \A l \in loop : l.given = Given(config) /\ streams \subseteq {config["cameras"]} \cup l.kept
  /\ loop # {} => \A u \in Users : post[u].step = "idle"
  /\ post = [u \in Users |-> post[u]]
  /\ ~serving => loop = {}

USE DEF NoPost

LEMMA FrozenInductive ==
  ASSUME OneOperator, FrozenInv, [ConfigNext]_configVars
  PROVE  FrozenInv'
<1>1. ASSUME NEW u \in Users,
             SetConfig(u) \/ AssignPart(u) \/ DumpConfig(u) \/ WriteConfig(u) \/ StopStreams(u)
      PROVE  FrozenInv'
  <2>1. loop = {} /\ loop' = loop
    BY <1>1 DEF SetConfig, AssignPart, DumpConfig, WriteConfig, StopStreams, FrozenInv
  <2>2. post' = [v \in Users |-> post'[v]]
    BY <1>1 DEF SetConfig, AssignPart, DumpConfig, WriteConfig, StopStreams, FrozenInv
  <2> QED BY <2>1, <2>2 DEF FrozenInv
<1>2. ASSUME NEW u \in Users, StartStreams(u) PROVE FrozenInv'
  <2>1. streams' \subseteq {config["cameras"]} /\ UNCHANGED <<config, serving, loop, post>>
    BY <1>2 DEF StartStreams, Restarted
  <2> QED BY <2>1 DEF FrozenInv, Given
<1>3. ASSUME NEW u \in Users, EnsureLoop(u) PROVE FrozenInv'
  <2>1. UNCHANGED <<config, serving, post>> /\ serving /\ \A v \in Users : post[v].step = "idle"
    BY <1>3 DEF EnsureLoop, OneOperator
  <2>2. \A l \in loop' : l.given = Given(config) /\ l.kept = streams
    BY <1>3 DEF EnsureLoop
  <2>3. streams' \subseteq {config["cameras"]} \cup streams
    BY <1>3 DEF EnsureLoop, Restarted
  <2> QED BY <2>1, <2>2, <2>3 DEF FrozenInv, Given
<1>4. ASSUME NEW u \in Users, DropLoop(u) PROVE FrozenInv'
  BY <1>4 DEF DropLoop, FrozenInv
<1>5. CASE Kill
  BY <1>5 DEF Kill, FrozenInv
<1>6. CASE LoadConfig
  BY <1>6 DEF LoadConfig, FrozenInv
<1>7. CASE UNCHANGED configVars
  BY <1>7 DEF configVars, FrozenInv, Given
<1> QED BY <1>1, <1>2, <1>3, <1>4, <1>5, <1>6, <1>7 DEF ConfigNext, ConfigRoutes

\* With one operator, a session always runs with the configuration the app shows, and
\* with its cameras unless others already ran.
THEOREM ConfigFrozen == OneOperator => (ConfigSpec => []SessionConfigFrozen)
<1> SUFFICES ASSUME OneOperator PROVE ConfigSpec => []SessionConfigFrozen
  OBVIOUS
<1>1. ConfigInit => FrozenInv
  BY DEF ConfigInit, FrozenInv
<1>2. FrozenInv => SessionConfigFrozen
  BY DEF FrozenInv, SessionConfigFrozen
<1>3. FrozenInv /\ [ConfigNext]_configVars => FrozenInv'
  BY FrozenInductive
<1> QED BY <1>1, <1>2, <1>3, PTL DEF ConfigSpec

=============================================================================
