----------------------------- MODULE AxeFrames -----------------------------
(***************************************************************************)
(* One axe run over a page whose frames come and go (src/deps/axe-world.ts,*)
(* class AxeWorldRun).  axe runs frame by frame: it reads the frames a     *)
(* document lists, runs, takes the frame elements as the run ends, and     *)
(* goes into each.  At the end the browser's own frame trees are read for  *)
(* frames the run never met.  A frame that was not checked must be named.  *)
(***************************************************************************)
EXTENDS Naturals, Sequences, FiniteSets

CONSTANTS
  FrameIds,      \* identifiers of child frames, in document order
  TreesAnswer    \* whether every process answers when its frame tree is read

Top == 0

ASSUME FramesAssumption == FrameIds \subseteq Nat \ {Top} /\ TreesAnswer \in BOOLEAN

VARIABLES
  tree,   \* the frames of the page: the parent of each and how axe sees it
  axe     \* the run

\* "listed" is in the flattened tree; "closed" is in a closed shadow root or an
\* object; "hidden" is one axe skips; "mute" is listed and never answers.
Looks == {"listed", "closed", "hidden", "mute"}
Attached == DOMAIN tree

\* The frames under one, itself included; frames nest two deep at most here.
Covers(f, g) ==
  g = f \/ (g \in Attached \ {Top} /\ tree[g].parent \in {f} \cup {h \in Attached \ {Top} : tree[h].parent = f})

OnlyTop == [f \in {Top} |-> [parent |-> Top, look |-> "listed"]]
WithFrame(f, parent, look) ==
  [g \in Attached \cup {f} |-> IF g = f THEN [parent |-> parent, look |-> look] ELSE tree[g]]
Without(f) == [g \in {h \in Attached : ~Covers(f, h)} |-> tree[g]]

\* The page adds or drops a frame while axe runs.
FramesMove ==
  \/ \E f \in FrameIds \ Attached, p \in Attached, look \in Looks :
       tree[p].parent = Top /\ tree' = WithFrame(f, p, look)
  \/ \E f \in Attached \ {Top} : tree' = Without(f)

\* The frames a document lists for axe, in document order.
Listed(f) ==
  LET S == {g \in Attached \ {Top} : tree[g].parent = f /\ tree[g].look \in {"listed", "mute"}}
  IN [i \in 1..Cardinality(S) |-> CHOOSE g \in S : Cardinality({h \in S : h < g}) = i - 1]

NoRun == [pc |-> "idle", stack |-> <<>>, reached |-> {}, disclosed |-> {}, unchecked |-> FALSE]
Level(f) == [frame |-> f, listed |-> <<>>, left |-> <<>>, ran |-> FALSE, read |-> FALSE]

TopLevel == axe.stack[Len(axe.stack)]
Below == SubSeq(axe.stack, 1, Len(axe.stack) - 1)
WithTop(level) == Append(Below, level)

AxeStart == axe.pc = "idle" /\ axe' = [NoRun EXCEPT !.pc = "frames", !.stack = <<Level(Top)>>]

\* A failure in the top frame ends the run; elsewhere it names that frame.
FrameFails ==
  IF Len(axe.stack) = 1 THEN axe' = [axe EXCEPT !.pc = "threw", !.stack = <<>>]
  ELSE axe' = [axe EXCEPT !.stack = Below, !.unchecked = TRUE, !.disclosed = @ \cup {TopLevel.frame}]

\* partials, first half: the frame's own list of frames.
ReadFrames ==
  /\ axe.pc = "frames" /\ axe.stack # <<>> /\ ~TopLevel.read
  /\ \/ /\ TopLevel.frame \in Attached /\ tree[TopLevel.frame].look # "mute"
        /\ axe' = [axe EXCEPT !.reached = @ \cup {TopLevel.frame},
                              !.stack = WithTop([TopLevel EXCEPT !.read = TRUE, !.listed = Listed(TopLevel.frame)])]
     \/ TopLevel.frame # Top /\ FrameFails

\* runPartial and the elements it ends with, compared with that list.  Their
\* selectors tell positions apart, and may not tell one frame from the frame
\* that took its place.
RunPartial ==
  /\ axe.pc = "frames" /\ axe.stack # <<>> /\ TopLevel.read /\ ~TopLevel.ran
  /\ LET now == Listed(TopLevel.frame)
         alike == Len(now) = Len(TopLevel.listed)
     IN \/ /\ TopLevel.frame \in Attached /\ alike
           /\ axe' = [axe EXCEPT !.stack = WithTop([TopLevel EXCEPT !.ran = TRUE, !.left = now])]
        \/ (TopLevel.frame \notin Attached \/ now # TopLevel.listed) /\ FrameFails
        \/ TopLevel.frame = Top /\ FrameFails

\* childTarget: the frame an element holds by now.  An element without one, or
\* with one already reached, is unchecked and has no name to disclose.
NextChild ==
  /\ axe.pc = "frames" /\ axe.stack # <<>> /\ TopLevel.ran /\ TopLevel.left # <<>>
  /\ LET f == Head(TopLevel.left)
         rest == [TopLevel EXCEPT !.left = Tail(@)]
     IN CASE f \notin Attached \/ f \in axe.reached ->
               axe' = [axe EXCEPT !.unchecked = TRUE, !.stack = WithTop(rest)]
          [] f \in Attached \ axe.reached /\ tree[f].look = "mute" ->
               axe' = [axe EXCEPT !.unchecked = TRUE, !.disclosed = @ \cup {f}, !.stack = WithTop(rest)]
          [] OTHER -> axe' = [axe EXCEPT !.stack = Append(WithTop(rest), Level(f))]

LevelDone ==
  /\ axe.pc = "frames" /\ axe.stack # <<>> /\ TopLevel.ran /\ TopLevel.left = <<>>
  /\ axe' = [axe EXCEPT !.stack = Below, !.pc = IF Below = <<>> THEN "trees" ELSE @]

\* Mutant of TreesWithout: the frame trees are not read.
TreesUnread(mute) == [axe EXCEPT !.pc = "done"]

\* unreachedFrames: what the trees show that the run neither reached nor named.
\* A process that does not answer leaves its frame and those under it out, and
\* then only the number of frames the page holds can tell.
TreesWithout(mute) ==
  LET shown == {g \in Attached : \A m \in mute : ~Covers(m, g)}
      named == {g \in shown \ axe.reached : /\ tree[g].look # "hidden"
                                            /\ \A d \in axe.disclosed : ~Covers(d, g)}
      known == shown \cup axe.reached \cup axe.disclosed
  IN [axe EXCEPT !.pc = "done", !.disclosed = @ \cup named,
                 !.unchecked = @ \/ named # {} \/ Cardinality(Attached) > Cardinality(known)]

UnreachedFrames ==
  /\ axe.pc = "trees"
  /\ \E mute \in IF TreesAnswer THEN {{}} ELSE SUBSET ((axe.reached \cap Attached) \ {Top}) :
       axe' = TreesWithout(mute)

AxeStep == ReadFrames \/ RunPartial \/ NextChild \/ LevelDone \/ UnreachedFrames

\* Frames the reader of a clean result takes as checked.
Visible == {g \in Attached : \A h \in Attached : Covers(h, g) => tree[h].look # "hidden"}
=============================================================================
