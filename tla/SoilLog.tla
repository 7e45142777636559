------------------------------- MODULE SoilLog -------------------------------
(***************************************************************************)
(* ScmRecorder: the deformed soil, as keyframes and differences.  A node   *)
(* is written when its level is further than kLevelEpsilon from the last   *)
(* level written for it; every frame is flushed.                           *)
(***************************************************************************)
EXTENDS Integers

CONSTANTS
    Nodes,           \* nodes of the SCM grid
    Epsilon,         \* kLevelEpsilon, in units of level
    SoilPeriod,      \* m_period
    KeyframePeriod   \* m_keyframe_period, 0 for none but the first

VARIABLES
    level,         \* external: the levels of the nodes touched since the run began
    isSaved,       \* m_file could be opened
    nextFrame,     \* m_next_sample
    nextKeyframe,  \* m_next_keyframe
    lastLevel,     \* m_last_level
    frameAt,       \* the time of the last frame, -1 while m_frame_count is 0
    reader         \* what a reader of the file knows that started at the last keyframe

recorder == <<isSaved, nextFrame, nextKeyframe, lastLevel, frameAt, reader>>
soilLog == <<level, recorder>>

Touched == DOMAIN level                \* GetModifiedNodes(true)
Distance(a, b) == IF a < b THEN b - a ELSE a - b

\* The rig has settled before the first frame and may have pressed nodes.
SoilInit ==
    /\ isSaved \in BOOLEAN
    /\ \E pressed \in SUBSET Nodes : level = [n \in pressed |-> -1]
    /\ lastLevel = <<>> /\ reader = <<>>
    /\ nextFrame = 0 /\ nextKeyframe = 0 /\ frameAt = -1

\* "while (m_next_sample <= time) m_next_sample += m_period"
PastTime(next, period, time) == IF next > time THEN next
                                ELSE next + period * ((time - next) \div period + 1)

Keyframe(time) == \/ frameAt = -1
                  \/ KeyframePeriod > 0 /\ time >= nextKeyframe

Emitted(keyframe) ==
    {n \in Touched : keyframe \/ n \notin DOMAIN lastLevel
                     \/ Distance(lastLevel[n], level[n]) >= Epsilon}

\* "file" with the levels of "nodes" written over it.
Overlay(file, nodes) ==
    [n \in DOMAIN file \cup nodes |-> IF n \in nodes THEN level[n] ELSE file[n]]

\* Mutated: a node that is skipped is remembered at its present level too.
RememberedAll(emitted) == Overlay(lastLevel, Touched)

Remembered(emitted) == Overlay(lastLevel, emitted)

CaptureSoil(time) ==
    /\ isSaved /\ time >= nextFrame
    /\ nextFrame' = PastTime(nextFrame, SoilPeriod, time)
    /\ LET keyframe == Keyframe(time)
           emitted == Emitted(keyframe)
       IN /\ nextKeyframe' = IF keyframe /\ KeyframePeriod > 0
                             THEN PastTime(nextKeyframe, KeyframePeriod, time) ELSE nextKeyframe
          /\ lastLevel' = Remembered(emitted)
          /\ reader' = Overlay(IF keyframe THEN <<>> ELSE reader, emitted)
    /\ frameAt' = time
    /\ UNCHANGED <<isSaved, level>>

SoilNotDue(time) == (~isSaved \/ time < nextFrame) /\ UNCHANGED soilLog

\* External: the dynamics press a node down or pile soil on it.
Deform(n, by) ==
    level' = [m \in Touched \cup {n} |-> IF m # n THEN level[m]
                                         ELSE by + (IF n \in Touched THEN level[n] ELSE 0)]

----------------------------------------------------------------------------

\* At a frame's time, a reader that seeks to the last keyframe and folds the frames after
\* it knows every touched node to within the epsilon: slow deformation does not add up.
ReaderKnowsSoil(time) ==
    frameAt = time =>
    /\ DOMAIN reader = Touched
    /\ \A n \in Touched : Distance(reader[n], level[n]) < Epsilon

=============================================================================
