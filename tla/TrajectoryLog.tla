---------------------------- MODULE TrajectoryLog ----------------------------
(***************************************************************************)
(* TrajectoryRecorder: the two files of one rank.  Frames hold an index    *)
(* per body and go through a large stdio buffer; a manifest line says what *)
(* an index stands for.  A run ends by a signal or by MPI_Abort, so what   *)
(* counts at any moment is what has left the process.                      *)
(*                                                                         *)
(* Times are integers and a pose is left out; the floating-point rounding  *)
(* of the sampling grid is not modelled.                                   *)
(***************************************************************************)
EXTENDS Integers, Sequences

CONSTANTS
    TrajectoryPeriod,  \* m_period
    FlushEvery,        \* frames in a sim second
    NameOf(_),         \* the name of a body
    RockNames,         \* the names that begin with harvest_rock or seed_rock
    Labels             \* m_labels: the group of each body that was labelled

VARIABLES
    isOpen,      \* IsOpen: the files could be opened and the rate is positive
    capturing,   \* CaptureIfDue is sweeping the bodies for a frame
    nextSample,  \* m_next_sample
    index,       \* m_index, as the sequence of the bodies that have one
    manifest,    \* the lines of objects.jsonl: <<part, use>>
    linesOut,    \* of them, those that have left the process
    nameUses,    \* m_name_uses: how often a name was given
    frames,      \* the frames: [at, holds], "holds" the <<index, body>> pairs
    framesOut    \* of them, those that have left the process

trajectory == <<isOpen, capturing, nextSample, index, manifest, linesOut, nameUses, frames, framesOut>>

\* The group of a label; a rock, which no label can name beforehand, goes by its name.
GroupOf(body) ==
    IF body \in DOMAIN Labels THEN Labels[body]
    ELSE IF NameOf(body) \in RockNames THEN "rock" ELSE "world"

PartOf(body) == <<GroupOf(body), NameOf(body)>>

\* DescribeBody counts the uses of a name, in the static file as in the manifest.
Use(uses, body) ==
    LET name == PartOf(body)
    IN IF name \in DOMAIN uses THEN [uses EXCEPT ![name] = @ + 1]
       ELSE [n \in DOMAIN uses \cup {name} |-> IF n = name THEN 1 ELSE uses[n]]

Indexed(body) == \E i \in DOMAIN index : index[i] = body
Position(body) == CHOOSE i \in DOMAIN index : index[i] = body

\* A file that cannot be opened disables the recording; the run goes on.
\* ExcludeExisting and Start: what is there before the rigs is scenery, written once.
TrajectoryInit(uses) ==
    /\ isOpen \in BOOLEAN
    /\ capturing = FALSE /\ nextSample = 0
    /\ index = <<>> /\ manifest = <<>> /\ linesOut = 0 /\ nameUses = uses
    /\ frames = <<>> /\ framesOut = 0

\* Mutated: the schedule is set from the time of the step that sampled.
NextSampleFromNow(time) == time + TrajectoryPeriod

\* The next grid point after "time".
NextSample(time) ==
    LET skipped == (time - nextSample) \div TrajectoryPeriod + 1
    IN nextSample + TrajectoryPeriod * (IF skipped < 1 THEN 1 ELSE skipped)

CaptureIfDue(time) ==
    /\ isOpen /\ ~capturing /\ time >= nextSample
    /\ nextSample' = NextSample(time)
    /\ capturing' = TRUE
    /\ UNCHANGED <<isOpen, index, manifest, linesOut, nameUses, frames, framesOut>>

NotDue(time) ==
    /\ ~capturing /\ (~isOpen \/ time < nextSample)
    /\ UNCHANGED trajectory

\* Mutated: the manifest is left to its stdio buffer.
FlushedLater(lines) == linesOut

Flushed(lines) == Len(lines)

\* The next body of the sweep that has no index gets one; its line is written and flushed.
IndexOf(bodies) ==
    /\ capturing
    /\ \E k \in DOMAIN bodies :
          /\ ~Indexed(bodies[k]) /\ \A j \in 1..(k - 1) : Indexed(bodies[j])
          /\ index' = Append(index, bodies[k])
          /\ nameUses' = Use(nameUses, bodies[k])
          /\ manifest' = Append(manifest, <<PartOf(bodies[k]), nameUses'[PartOf(bodies[k])]>>)
    /\ linesOut' = Flushed(manifest')
    /\ UNCHANGED <<isOpen, capturing, nextSample, frames, framesOut>>

\* The sweep is over: the frame goes to the buffer, which is flushed once per sim second
\* and by stdio whenever it is full.
WriteFrame(bodies, time) ==
    /\ capturing /\ \A k \in DOMAIN bodies : Indexed(bodies[k])
    /\ capturing' = FALSE
    /\ frames' = Append(frames, [at |-> time,
                                 holds |-> {<<Position(bodies[k]), bodies[k]>> :
                                               k \in DOMAIN bodies}])
    /\ framesOut' \in IF Len(frames') % FlushEvery = 0 THEN {Len(frames')}
                      ELSE framesOut..Len(frames')
    /\ UNCHANGED <<isOpen, nextSample, index, manifest, linesOut, nameUses>>

----------------------------------------------------------------------------

\* "A frame file whose manifest is missing its last few objects cannot be decoded at
\* all": wherever the process is killed, every index of a frame on disk has its line on
\* disk, the line of that body, and no two lines on disk share a name.
FramesDecode ==
    /\ \A f \in 1..framesOut : \A entry \in frames[f].holds :
          /\ entry[1] <= linesOut
          /\ manifest[entry[1]][1] = PartOf(entry[2])
    /\ \A i, j \in 1..linesOut : manifest[i] = manifest[j] => i = j

\* "A step that overshoots the sample instant does not leave the recorder permanently one
\* sample behind": by the end of a step at "time", each instant of the grid has a frame,
\* at most one step late.
EveryInstantSampled(time, step) ==
    isOpen => \A instant \in {k \in 0..time : k % TrajectoryPeriod = 0} :
        \E f \in DOMAIN frames : frames[f].at >= instant /\ frames[f].at < instant + step

=============================================================================
