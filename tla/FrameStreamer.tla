---------------------------- MODULE FrameStreamer ----------------------------
(***************************************************************************)
(* The frame source of the streaming ASR pipelines                         *)
(* (nemo/collections/asr/inference/streaming/framing/): MonoStream cuts    *)
(* one audio file into frames, MultiStream takes one frame of every        *)
(* running stream, and ContinuousBatchedFrameStreamer keeps up to          *)
(* batch_size streams running and admits the next file when one ends.      *)
(*                                                                         *)
(* Audio is a number of samples; a frame carries its index in the stream   *)
(* instead of its samples.  n_frames_per_stream is 1, the value every      *)
(* pipeline's get_request_generator passes.                                *)
(***************************************************************************)
EXTENDS Naturals, Sequences, SequencesExt, Subsequences

CONSTANTS
    batch_size,      \* streams that run at the same time
    frame_size,      \* samples of a frame
    flush_size,      \* samples of silence appended to every file
    pad_last_frame,  \* whether a short last frame is padded to frame_size
    AudioLists       \* the lists of audio files (numbers of samples) to stream

ASSUME StreamerAssumption ==
    /\ batch_size \in Nat \ {0}
    /\ frame_size \in Nat \ {0}
    /\ flush_size \in Nat
    /\ pad_last_frame \in BOOLEAN
    /\ AudioLists \subseteq Seq(Nat)

VARIABLES
    audio,              \* n_samples of every file; stream id i is audio[i + 1]
    stream_id,          \* the id the next admitted file gets
    streams,            \* ids of the running streams, in insertion order
    start,              \* next sample of each stream
    frame_count,        \* frames each stream has produced
    elapsed_durations,  \* valid samples handed out, by stream
    processed_streams,  \* streams whose last frame was handed out
    frames,             \* the batch the last __next__ returned
    generator           \* "ready" | "recursing" | "stopped" | "raised"

streamerVars == <<audio, stream_id, streams, start, frame_count,
                  elapsed_durations, processed_streams, frames, generator>>

n_audio_files == Len(audio)
FileIds == 0 .. n_audio_files - 1

\* MonoStream.load_audio: the file, with the flush silence appended as signal.
NSamples(sid) == audio[sid + 1] + flush_size

-----------------------------------------------------------------------------
\* A new request generator over the files `a` (set_audio_filepaths).
SetAudioFilepaths(a) ==
    /\ audio = a
    /\ stream_id = 0
    /\ streams = <<>>
    /\ start = [sid \in FileIds |-> 0]
    /\ frame_count = [sid \in FileIds |-> 0]
    /\ elapsed_durations = [sid \in FileIds |-> 0]
    /\ processed_streams = {}
    /\ frames = <<>>
    /\ generator = "ready"

\* The same in a caller that makes one generator after another.
NewGenerator(a) ==
    /\ audio' = a
    /\ stream_id' = 0
    /\ streams' = <<>>
    /\ start' = [i \in 0 .. Len(a) - 1 |-> 0]
    /\ frame_count' = [i \in 0 .. Len(a) - 1 |-> 0]
    /\ elapsed_durations' = [i \in 0 .. Len(a) - 1 |-> 0]
    /\ processed_streams' = {}
    /\ frames' = <<>>
    /\ generator' = "ready"

\* MonoStream.__next__ of a stream that has samples left.
Frame(sid) ==
    LET full   == start[sid] + frame_size
        end    == IF full < NSamples(sid) THEN full ELSE NSamples(sid)
        is_end == end = NSamples(sid)
    IN  [stream_id  |-> sid,
         index      |-> frame_count[sid],
         is_first   |-> frame_count[sid] = 0,
         is_last    |-> is_end,
         size       |-> IF is_end /\ pad_last_frame THEN frame_size ELSE end - start[sid],
         valid_size |-> end - start[sid]]

\* MonoStream.__next__ raises StopIteration when no sample is left.
Exhausted(sid) == start[sid] >= NSamples(sid)

-----------------------------------------------------------------------------
\* mutant of NumAdmitted: a new batch is only formed when the previous one ended
AdmitWhenIdle ==
    IF streams # <<>> THEN 0
    ELSE IF batch_size < n_audio_files - stream_id THEN batch_size
                                                   ELSE n_audio_files - stream_id

\* __next__ first admits files while fewer than batch_size streams run ...
NumAdmitted ==
    LET room == IF Len(streams) < batch_size THEN batch_size - Len(streams) ELSE 0
        left == n_audio_files - stream_id
    IN  IF room < left THEN room ELSE left

Iterators == streams \o [i \in 1 .. NumAdmitted |-> stream_id + i - 1]

\* ... then MultiStream.__next__ steps the iterators in dict order.  The first
\* exhausted one raises StopIteration, which leaves the loop at once: the
\* iterators before it have advanced, their frames are gone.
Advanced == {Iterators[i] : i \in {k \in DOMAIN Iterators :
                                    \A j \in 1 .. k : ~Exhausted(Iterators[j])}}

\* mutant of StepIterators: the iterators advance one sample too far
StepIteratorsOverrun ==
    /\ stream_id' = stream_id + NumAdmitted
    /\ start' = [sid \in FileIds |->
          IF sid \in Advanced THEN start[sid] + frame_size + 1 ELSE start[sid]]
    /\ frame_count' = [sid \in FileIds |->
          IF sid \in Advanced THEN frame_count[sid] + 1 ELSE frame_count[sid]]
    /\ UNCHANGED audio

\* mutant of StepIterators: the frames of a stream are not counted
StepIteratorsNoCount ==
    /\ stream_id' = stream_id + NumAdmitted
    /\ start' = [sid \in FileIds |->
          IF sid \in Advanced THEN start[sid] + Frame(sid).size ELSE start[sid]]
    /\ UNCHANGED <<audio, frame_count>>

StepIterators ==
    /\ stream_id' = stream_id + NumAdmitted
    /\ start' = [sid \in FileIds |->
          IF sid \in Advanced THEN start[sid] + Frame(sid).size ELSE start[sid]]
    /\ frame_count' = [sid \in FileIds |->
          IF sid \in Advanced THEN frame_count[sid] + 1 ELSE frame_count[sid]]
    /\ UNCHANGED audio

\* mutant of ReturnBatch: it waits for a full batch
ReturnFullBatch ==
    /\ generator \in {"ready", "recursing"}
    /\ Len(Iterators) = batch_size
    /\ Advanced = ToSet(Iterators)
    /\ StepIterators
    /\ frames' = [i \in 1 .. Len(Iterators) |-> Frame(Iterators[i])]
    /\ streams' = Only(Iterators, {sid \in ToSet(Iterators) : ~Frame(sid).is_last})
    /\ elapsed_durations' = [sid \in FileIds |->
          elapsed_durations[sid] + (IF sid \in ToSet(Iterators) THEN Frame(sid).valid_size ELSE 0)]
    /\ processed_streams' = processed_streams \cup
          {sid \in ToSet(Iterators) : Frame(sid).is_last}
    /\ generator' = "ready"

\* Every running stream yields a frame: the batch is returned.
ReturnBatch ==
    /\ generator \in {"ready", "recursing"}
    /\ Iterators # <<>>
    /\ Advanced = ToSet(Iterators)
    /\ StepIterators
    /\ frames' = [i \in 1 .. Len(Iterators) |-> Frame(Iterators[i])]
    /\ streams' = Only(Iterators, {sid \in ToSet(Iterators) : ~Frame(sid).is_last})
    /\ elapsed_durations' = [sid \in FileIds |->
          elapsed_durations[sid] + (IF sid \in ToSet(Iterators) THEN Frame(sid).valid_size ELSE 0)]
    /\ processed_streams' = processed_streams \cup
          {sid \in ToSet(Iterators) : Frame(sid).is_last}
    /\ generator' = "ready"

\* StopIteration from MultiStream: either it has no stream at all, or one of its
\* streams is exhausted without having produced a last frame.
Stopped ==
    /\ generator \in {"ready", "recursing"}
    /\ Advanced # ToSet(Iterators) \/ Iterators = <<>>
    /\ StepIterators
    /\ streams' = Iterators
    /\ UNCHANGED <<elapsed_durations, processed_streams, frames>>

\* With files still to admit, __next__ calls itself again.
RecurseIntoNext ==
    /\ Stopped
    /\ stream_id' < n_audio_files
    /\ NumAdmitted > 0 \/ Advanced # {}
    /\ generator' = "recursing"

\* A recursion that changes nothing repeats until Python's recursion limit.
RecursionError ==
    /\ Stopped
    /\ stream_id' < n_audio_files
    /\ NumAdmitted = 0 /\ Advanced = {}
    /\ generator' = "raised"

\* With every file admitted, the generator ends.
StopGenerator ==
    /\ Stopped
    /\ stream_id' = n_audio_files
    /\ generator' = "stopped"

StreamerNext == ReturnBatch \/ RecurseIntoNext \/ RecursionError \/ StopGenerator

StreamerInit == \E a \in AudioLists : SetAudioFilepaths(a)

\* The `for requests in request_generator` loop of BasePipeline.run calls
\* __next__ until it stops.
StreamerSpec == StreamerInit /\ [][StreamerNext]_streamerVars /\ WF_streamerVars(StreamerNext)

-----------------------------------------------------------------------------
\* A file without a sample never yields a frame with is_last; the properties
\* that need every file to hold audio say so.
NoEmptyFile == \A sid \in FileIds : NSamples(sid) > 0

\* Every sample an iterator has consumed was handed to the pipeline: no frame is
\* lost between MonoStream and the caller of ContinuousBatchedFrameStreamer.
NothingDropped ==
    NoEmptyFile =>
        \A sid \in FileIds :
            elapsed_durations[sid] =
                IF start[sid] < NSamples(sid) THEN start[sid] ELSE NSamples(sid)

\* The flags a pipeline opens and closes its per-stream state on: the first
\* frame of a stream, and only it, is_first; nothing follows the is_last one.
FirstAndLastOnce ==
    [][NoEmptyFile /\ frames' # frames =>
          \A i \in DOMAIN frames' :
              LET f == frames'[i]
              IN  /\ f.is_first <=> elapsed_durations[f.stream_id] = 0
                  /\ f.stream_id \notin processed_streams
                  /\ f.is_last <=> f.stream_id \in processed_streams']_streamerVars

\* Continuous batching: a batch holds one frame of every stream that has not
\* ended, up to batch_size of them; no place is empty while a file waits, and
\* none is taken twice, as the slot tables downstream require.
BatchKeptFull ==
    [][frames' # frames =>
          /\ Len(frames') <= batch_size
          /\ Cardinality({f.stream_id : f \in ToSet(frames')}) = Len(frames')
          /\ NoEmptyFile =>
               LET waiting == n_audio_files - Cardinality(processed_streams)
               IN  Len(frames') = IF waiting < batch_size THEN waiting
                                                          ELSE batch_size]_streamerVars

\* The generator ends: when every file holds audio, by StopIteration after every
\* file was streamed to its end; else by StopIteration, perhaps too early, or by
\* the recursion error of a __next__ that has nothing left it could change.
EventuallyEnds ==
    <>(/\ generator \in {"stopped", "raised"}
       /\ NoEmptyFile => generator = "stopped" /\ processed_streams = FileIds)
=============================================================================
